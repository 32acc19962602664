---------------------------- MODULE BoardSyncProofs ----------------------------
(***************************************************************************)
(* What holds of the synchronisation of a board for any number of          *)
(* application tasks: RunTask that is on its way when MainTask exits only  *)
(* gets nearer to the shutdown.  That needs to know of the tasks: after    *)
(* the exit no task but MainTask is alive, and no task, dead or alive, is  *)
(* within BOARD_Sync.                                                      *)
(***************************************************************************)
EXTENDS BoardSync, TLAPS

(* A deleted task is not within BOARD_Sync.                                *)
DeadNotInSync == \A t \in App \ alive : ~ InSync(t)

(* Nobody is after the exit, when only MainTask may be alive.              *)
QuietAfterExit ==
  exit => /\ alive \subseteq {MainTask}
          /\ \A t \in App : ~ InSync(t)

IInv == TypeOK /\ DeadNotInSync /\ QuietAfterExit

-----------------------------------------------------------------------------
(* Initially nobody exits and no task is within BOARD_Sync.                *)
LEMMA InitIInv == Init => IInv
BY DEF Init, IInv, TypeOK, DeadNotInSync, QuietAfterExit, InSync, Mode

(* RunTask and the tick interrupt move RunTask alone, within its places.   *)
LEMMA RunMovesWithin ==
  ASSUME TypeOK, RunTask \/ DelayEnds
  PROVE  run' \in {"loop", "lock", "delaying", "suspending", "delayed",
                   "suspended", "sync", "update", "shutdown", "ended", "halted"}
         /\ UNCHANGED <<autoSync, alive, seen, exit>>
BY DEF RunTask, DelayEnds, RunLoop, RunLock, RunDelay, RunSuspend, BoardSync,
       BoardSyncEnd, Shutdown, RunMoves, appVars, TypeOK

(* A task enters BOARD_Sync alive and before the exit, and leaves it when  *)
(* it is deleted; MainTask exits when it is alone and not in BOARD_Sync.   *)
LEMMA NextIInv == IInv /\ [Next]_vars => IInv'
<1> SUFFICES ASSUME IInv, [Next]_vars PROVE IInv'
  OBVIOUS
<1>0. TypeOK /\ DeadNotInSync /\ QuietAfterExit
  BY DEF IInv
<1>1. CASE RunTask \/ DelayEnds
  BY <1>0, <1>1, RunMovesWithin
  DEF IInv, TypeOK, DeadNotInSync, QuietAfterExit, InSync
<1>2. ASSUME NEW t \in App, SyncCall(t) PROVE IInv'
  BY <1>0, <1>2
  DEF SyncCall, Scheduled, CurrentMode, IInv, TypeOK, Mode, DeadNotInSync,
      QuietAfterExit, InSync
<1>3. ASSUME NEW t \in App, SyncUnlock(t) PROVE IInv'
  BY <1>0, <1>3
  DEF SyncUnlock, Unparked, IInv, TypeOK, DeadNotInSync, QuietAfterExit, InSync
<1>4. ASSUME NEW t \in App, NEW on \in BOOLEAN, EnableAutoSync(t, on) PROVE IInv'
  BY <1>0, <1>4
  DEF EnableAutoSync, appVars, IInv, TypeOK, DeadNotInSync, QuietAfterExit, InSync
<1>5. ASSUME NEW t \in App, DestroyTask(t) PROVE IInv'
  BY <1>0, <1>5
  DEF DestroyTask, IInv, TypeOK, DeadNotInSync, QuietAfterExit, InSync
<1>6. CASE BoardExit
  BY <1>0, <1>6
  DEF BoardExit, IInv, TypeOK, DeadNotInSync, QuietAfterExit, InSync
<1>7. CASE CloseMainTask
  BY <1>0, <1>7
  DEF CloseMainTask, IInv, TypeOK, DeadNotInSync, QuietAfterExit, InSync
<1>8. CASE UNCHANGED vars
  BY <1>0, <1>8 DEF vars, IInv, TypeOK, DeadNotInSync, QuietAfterExit, InSync
<1> QED
  BY <1>1, <1>2, <1>3, <1>4, <1>5, <1>6, <1>7, <1>8 DEF Next

(* After the exit only RunTask and the tick interrupt move RunTask.        *)
LEMMA OnlyRunMoves ==
  ASSUME IInv, exit, [Next]_vars
  PROVE  RunTask \/ DelayEnds \/ UNCHANGED <<run, autoSync>>
<1>1. \A t \in App : ~ InSync(t)
  BY DEF IInv, QuietAfterExit
<1> QED
  BY <1>1
  DEF Next, SyncCall, SyncUnlock, EnableAutoSync, DestroyTask, BoardExit,
      CloseMainTask, vars, appVars

(* If it was not to be suspended, they all go the same way.                *)
LEMMA NearerKept ==
  ASSUME IInv, [Next]_vars, exit, ~ Parked
  PROVE  /\ ~ Parked'
         /\ run' # run => Distance[run'] < Distance[run]
<1>1. CASE RunTask \/ DelayEnds
  BY <1>1 DEF RunTask, DelayEnds, RunLoop, RunLock, RunDelay, RunSuspend,
              BoardSync, BoardSyncEnd, Shutdown, RunMoves, Parked, Distance
<1>2. CASE UNCHANGED <<run, autoSync>>
  BY <1>2 DEF Parked
<1> QED
  BY <1>1, <1>2, OnlyRunMoves

-----------------------------------------------------------------------------
(* The inductive invariant, for any set of application tasks.              *)
THEOREM Invariance == Spec => []IInv
BY InitIInv, NextIInv, PTL DEF Spec

(* RunTask is always in one of its places, and tasks in sync in a mode.    *)
THEOREM TypeCorrect == Spec => []TypeOK
<1>1. IInv => TypeOK
  BY DEF IInv
<1> QED
  BY <1>1, Invariance, PTL

(***************************************************************************)
(* After a BOARD_Exit that finds RunTask on its way, every move of it gets *)
(* nearer to the shutdown: it is not suspended, nor goes round its loop,   *)
(* again.                                                                  *)
(***************************************************************************)
THEOREM OnlyNearerAfterExit == Spec => ExitGetsNearer
<1>1. IInv /\ [Next]_vars =>
        [exit /\ ~ Parked =>
           /\ ~ Parked'
           /\ run' # run => Distance[run'] < Distance[run]]_vars
  BY NearerKept
<1> QED
  BY <1>1, Invariance, PTL DEF Spec, ExitGetsNearer

=============================================================================

------------------------------ MODULE BoardSync ------------------------------
(***************************************************************************)
(* Synchronisation of a board under a multitasking OS: RunTask loops in    *)
(* OSWRAP__createMainTaskAndSync (core/device/oswrap.c), parked by         *)
(* RunTaskSyncLock between two syncs, while application tasks call         *)
(* BOARD_Sync, which only unlocks it (boot/oswrap_freertos.c).  With a     *)
(* period (auto) it is parked by xTaskDelayUntil and without one (manual)  *)
(* by vTaskSuspend.  FreeRTOS may switch tasks between any two steps.      *)
(***************************************************************************)
EXTENDS Naturals

CONSTANTS
  App,            \* the application tasks
  MainTask        \* the one that runs EMBEDULAR_Main

ASSUME MainTaskAssumption == MainTask \in App

VARIABLES
  run,            \* where RunTask is
  autoSync,       \* autoSyncPeriod_ms # 0
  exit,           \* exit of struct BOARD
  alive,          \* the application tasks not deleted yet
  seen            \* in syncUnlock: what a task has read in autoSyncPeriod_ms

vars == <<run, autoSync, exit, alive, seen>>

appVars == <<alive, seen, exit>>

Mode == {"auto", "manual"}

(* Mutant of CurrentMode: a zero period is taken for an unset one.         *)
CurrentOrUnset == IF autoSync THEN "auto" ELSE "unset"

(* Which of the two ways of parking RunTask the period stands for.         *)
CurrentMode == IF autoSync THEN "auto" ELSE "manual"

(* After the splash screens OSWRAP_EnableAutoSync sets the configured      *)
(* period, which may be zero, and the main task is created.                *)
Init ==
  /\ run = "loop"
  /\ autoSync \in BOOLEAN
  /\ exit = FALSE
  /\ alive = App
  /\ seen = [t \in App |-> "none"]

-----------------------------------------------------------------------------
(* RunTask.                                                                *)
RunMoves(from, to) ==
  run = from /\ run' = to /\ UNCHANGED <<autoSync, appVars>>

(* The loop goes on until exit.                                            *)
RunLoop == RunMoves("loop", IF exit THEN "shutdown" ELSE "lock")

(* Mutant of RunLock: the two ways to park are swapped.                    *)
RunLockSwapped ==
  RunMoves("lock", IF autoSync THEN "suspending" ELSE "delaying")

(* runTaskSyncLock reads autoSyncPeriod_ms to choose how to park RunTask.  *)
RunLock == RunMoves("lock", IF autoSync THEN "delaying" ELSE "suspending")

(* Mutant of RunDelay: a period found to be zero suspends RunTask.         *)
RunDelayOrSuspend ==
  \/ RunMoves("delaying", "delayed")
  \/ RunMoves("delaying", "sync")
  \/ ~ autoSync /\ RunMoves("delaying", "suspending")

(* The compiler may read autoSyncPeriod_ms again for the argument of       *)
(* xTaskDelayUntil, which asserts that it is not zero.  When the wake time *)
(* is past the task is not delayed.                                        *)
RunDelay ==
  \/ RunMoves("delaying", "delayed")
  \/ RunMoves("delaying", "sync")
  \/ ~ autoSync /\ RunMoves("delaying", "halted")

RunSuspend == RunMoves("suspending", "suspended")

(* BOARD_Sync called by RunTask: it suspends the scheduler and updates     *)
(* sound, screens, board and inputs and outputs.                           *)
BoardSync == RunMoves("sync", "update")

(* Mutant of BoardSyncEnd: RunTask waits to be unlocked without looking at *)
(* exit again.                                                             *)
BoardSyncEndUnchecked == RunMoves("update", "lock")

(* The scheduler is resumed.                                               *)
BoardSyncEnd == RunMoves("update", "loop")

(* boardShutdownSequence and OSWRAP__closeRunTaskAndEnd.                   *)
Shutdown == RunMoves("shutdown", "ended")

(* The tick interrupt at the wake time.                                    *)
DelayEnds == RunMoves("delayed", "sync")

RunTask ==
  RunLoop \/ RunLock \/ RunDelay \/ RunSuspend \/ BoardSync \/ BoardSyncEnd
    \/ Shutdown

-----------------------------------------------------------------------------
(* Application tasks.  They do not run while the scheduler is suspended,   *)
(* nor after it ended or the board halted.                                 *)
Scheduled(t) == t \in alive /\ run \notin {"update", "ended", "halted"}

InSync(t) == seen[t] # "none"

(* BOARD_Sync, not called by RunTask: syncUnlock reads the period.         *)
SyncCall(t) ==
  /\ Scheduled(t) /\ ~ InSync(t) /\ ~ exit
  /\ seen' = [seen EXCEPT ![t] = CurrentMode]
  /\ UNCHANGED <<run, autoSync, exit, alive>>

(* Mutant of Unparked: a suspended task is not resumed, only a delayed one.*)
UnparkedFromDelay(mode) ==
  IF run = "delayed" THEN "sync" ELSE run

(* xTaskAbortDelay only wakes a delayed task, vTaskResume a suspended one. *)
Unparked(mode) ==
  IF run = (IF mode = "auto" THEN "delayed" ELSE "suspended") THEN "sync"
                                                             ELSE run

SyncUnlock(t) ==
  /\ Scheduled(t) /\ InSync(t)
  /\ run' = Unparked(seen[t])
  /\ seen' = [seen EXCEPT ![t] = "none"]
  /\ UNCHANGED <<autoSync, exit, alive>>

(* OSWRAP_EnableAutoSync and OSWRAP_EnableManualSync.                      *)
EnableAutoSync(t, on) ==
  /\ Scheduled(t) /\ ~ InSync(t) /\ ~ exit
  /\ autoSync' = on
  /\ UNCHANGED <<run, appVars>>

(* MainTask destroys the tasks it created (oswrap.h:97).               *)
DestroyTask(t) ==
  /\ Scheduled(MainTask) /\ ~ InSync(MainTask) /\ ~ exit
  /\ t \in alive \ {MainTask}
  /\ alive' = alive \ {t}
  /\ seen' = [seen EXCEPT ![t] = "none"]
  /\ UNCHANGED <<run, autoSync, exit>>

(* BOARD_Exit, called when MainTask is the only one left.                  *)
BoardExit ==
  /\ Scheduled(MainTask) /\ ~ InSync(MainTask) /\ ~ exit
  /\ alive = {MainTask}
  /\ exit' = TRUE
  /\ UNCHANGED <<run, autoSync, alive, seen>>

(* OSWRAP__closeMainTask, the end of BOARD_Exit.                           *)
CloseMainTask ==
  /\ Scheduled(MainTask) /\ exit
  /\ alive' = alive \ {MainTask}
  /\ UNCHANGED <<run, autoSync, exit, seen>>

Next ==
  \/ RunTask
  \/ DelayEnds
  \/ \E t \in App :
       \/ SyncCall(t)
       \/ SyncUnlock(t)
       \/ \E on \in BOOLEAN : EnableAutoSync(t, on)
       \/ DestroyTask(t)
  \/ BoardExit
  \/ CloseMainTask

(* RunTask and MainTask have the highest priority and share the processor  *)
(* in time slices; the tick interrupt always comes.                        *)
Fairness ==
  /\ WF_vars(RunTask)
  /\ WF_vars(DelayEnds)
  /\ WF_vars(SyncUnlock(MainTask))

Spec == Init /\ [][Next]_vars /\ Fairness

-----------------------------------------------------------------------------
(* The type invariant.                                                     *)
TypeOK ==
  /\ run \in {"loop", "lock", "delaying", "suspending", "delayed",
              "suspended", "sync", "update", "shutdown", "ended", "halted"}
  /\ autoSync \in BOOLEAN
  /\ exit \in BOOLEAN
  /\ alive \subseteq App
  /\ seen \in [App -> Mode \cup {"none"}]

(* RunTask is suspended, or nothing keeps it from suspending itself.       *)
Parked ==
  \/ run \in {"suspending", "suspended"}
  \/ run = "lock" /\ ~ autoSync

(***************************************************************************)
(* BOARD_Exit shuts the board down (oswrap.h:82-83), unless RunTask is     *)
(* suspended then or has already decided to be: nobody is left to resume   *)
(* it.  That is always so in manual mode, but for an exit that comes       *)
(* between a sync and the next evaluation of exit.                         *)
(***************************************************************************)
ExitShutsDown ==
  (exit /\ ~ Parked) ~> (run \in {"ended", "halted"})

(***************************************************************************)
(* RunTask keeps executing the sync loop until the main task calls         *)
(* BOARD_Exit, and then shuts the framework down (oswrap.h:45-51, 82-83).  *)
(***************************************************************************)
ExitEndsSync == exit ~> (run \in {"ended", "halted"})

(* How many moves at most keep RunTask from the end of the board.          *)
Distance ==
  [lock |-> 7, delaying |-> 6, delayed |-> 5, sync |-> 4, update |-> 3,
   loop |-> 2, shutdown |-> 1, ended |-> 0, halted |-> 0]

(***************************************************************************)
(* An exit that finds RunTask on its way is served in that turn of the     *)
(* loop: no task that was in BOARD_Sync, or changed the period before it   *)
(* was destroyed, has RunTask suspended or sent round the loop again       *)
(* (oswrap.c:178-185, oswrap_freertos.c:350-365).                          *)
(***************************************************************************)
ExitGetsNearer ==
  [][exit /\ ~ Parked =>
       /\ ~ Parked'
       /\ run' # run => Distance[run'] < Distance[run]]_vars

(***************************************************************************)
(* With a period the board is updated at intervals, whatever application   *)
(* tasks do to RunTask, until MainTask exits (oswrap.h:76-79).             *)
(***************************************************************************)
AutoSyncGoesOn == []autoSync => []<>(run = "update" \/ exit)

(***************************************************************************)
(* Without a period, MainTask drives the updates: a call to BOARD_Sync may *)
(* come before RunTask is suspended and have no effect, but if it calls    *)
(* again and again the board is updated again and again.                   *)
(***************************************************************************)
ManualSyncGoesOn ==
  ([]~ autoSync /\ []<>InSync(MainTask)) => []<>(run = "update")

=============================================================================

--------------------------- MODULE SequenceProofs ----------------------------
(***************************************************************************)
(* Proofs about sequences with any table of stages.  The order of the      *)
(* actions served follows from OrderInv: what was served last is known     *)
(* from the action that comes next, unless the sequence was restarted in   *)
(* one of the ways that skip an Entry.  The pace of Runs follows from      *)
(* PaceInv: due is the period times the runs, less the time elapsed.       *)
(***************************************************************************)
EXTENDS Sequence, TLAPS

(* What the order of the actions served rests on.                          *)
OrderInv ==
  ~ halted =>
    /\ restarted = "none" =>
         /\ exitRequested => action = "Run"
         /\ action = "Run" =>
              served.stage = stage /\ served.action \in {"Entry", "Run"}
         /\ action = "Entry" =>
              served.stage + 1 = stage /\ served.action = "Exit"
    /\ restarted = "clean" =>
         action = "Entry" /\ stage = 0 /\ ~ exitRequested

(* What the pace of Runs rests on.                                         *)
PaceInv ==
  action = "Run" /\ runs # NotEntered =>
    /\ Current.period > 0 => due = Current.period * runs - elapsed
    /\ Current.period * (runs - 1) <= elapsed

IInv == TypeOK /\ OrderInv /\ PaceInv

(* SEQUENCE_Init establishes the invariant.                                *)
LEMMA InitIInv == Init => IInv
<1> SUFFICES ASSUME Init PROVE IInv
  OBVIOUS
<1>1. 0 \in 0 .. StagesCount /\ 0 < StagesCount /\ 0 \in 0 .. StagesCount - 1
  BY StagesAssumption
<1>2. 0 \in 0 .. MaxElapsed
  BY BoundsAssumption
<1>3. served \in [stage : 0 .. StagesCount - 1, action : Action \cup {"Init"}]
  BY <1>1 DEF Init
<1>4. TypeOK
  <2>1. exitRequested \in BOOLEAN /\ halted \in BOOLEAN
    BY DEF Init
  <2>2. /\ stage \in 0 .. StagesCount /\ stage < StagesCount
        /\ elapsed \in 0 .. MaxElapsed /\ due \in Int
    BY <1>1, <1>2 DEF Init
  <2>3. /\ action \in Action
        /\ restarted \in {"none", "clean", "exiting", "inside"}
        /\ runs \in Nat \cup {NotEntered}
    BY DEF Init, Action
  <2> QED BY <1>3, <2>1, <2>2, <2>3 DEF TypeOK
<1>5. OrderInv /\ PaceInv
  BY DEF Init, OrderInv, PaceInv
<1> QED BY <1>4, <1>5 DEF IInv

(* A stage before the end of the table has an entry in it.                 *)
LEMMA CurrentType ==
  ASSUME TypeOK, ~ Ended
  PROVE  /\ stage \in 0 .. StagesCount - 1
         /\ Current.period \in Nat
         /\ Current.timeout \in Nat
BY StagesAssumption DEF TypeOK, Ended, Current

(* Whatever an update serves and the function does, types are kept.        *)
LEMMA ServeType ==
  ASSUME TypeOK, ~ Ended, NEW act \in Action, NEW does \in Behaviours(stage),
         Serve(act, does)
  PROVE  /\ stage' \in 0 .. StagesCount
         /\ action' \in Action
         /\ action' = "Exit" \/ stage' < StagesCount
         /\ exitRequested' \in BOOLEAN
         /\ halted' \in BOOLEAN
         /\ served' \in [stage : 0 .. StagesCount - 1,
                         action : Action \cup {"Init"}]
         /\ restarted' \in {"none", "clean", "exiting", "inside"}
<1>1. stage \in 0 .. StagesCount - 1 /\ StagesCount \in Nat \ {0}
  BY CurrentType, StagesAssumption
<1>2. served' = [stage |-> stage, action |-> act]
  BY DEF Serve
<1>3. CASE "restart" \in does
  <2>1. stage' = 0 /\ action' = "Run" /\ restarted' = "inside"
    BY <1>3 DEF Serve, After
  <2> QED BY <1>1, <1>2, <2>1 DEF Serve, ExitFails, Requested, Action
<1>4. CASE "restart" \notin does
  <2>1. /\ restarted' = "none"
        /\ IF act = "Exit"
           THEN stage' = stage + 1 /\ action' = Continued(stage + 1)
           ELSE stage' = stage /\ action' = "Run"
    BY <1>4 DEF Serve, After
  <2> QED BY <1>1, <1>2, <2>1 DEF Serve, ExitFails, Requested, Action, Continued
<1> QED BY <1>3, <1>4

(* Whatever an update serves in its turn, it is followed by its turn.      *)
LEMMA ServeOrder ==
  ASSUME TypeOK, ~ Ended, NEW act \in Action, NEW does \in Behaviours(stage),
         Serve(act, does)
  PROVE  OrderInv'
<1>1. CASE "restart" \in does
  BY <1>1 DEF Serve, OrderInv
<1>2. CASE "restart" \notin does
  <2>1. /\ restarted' = "none"
        /\ served' = [stage |-> stage, action |-> act]
        /\ exitRequested' => act = "Run" \/ halted'
        /\ IF act = "Exit"
           THEN stage' = stage + 1 /\ action' = Continued(stage + 1)
           ELSE stage' = stage /\ action' = "Run"
    BY <1>2 DEF Serve, ExitFails, After, Requested
  <2> QED BY <2>1 DEF OrderInv, Action, Continued
<1> QED BY <1>1, <1>2

(* The step of an exit.                                                    *)
LEMMA ExitIInv ==
  ASSUME IInv, NEW pressed \in BOOLEAN, UpdateExit(pressed)
  PROVE  IInv'
<1>1. PICK does \in Behaviours(stage) :
        Serve("Exit", does) /\ Due(does, due) /\ Counted(does, runs)
  BY DEF UpdateExit
<1>2. TypeOK /\ ~ Ended /\ "Exit" \in Action /\ elapsed' = elapsed
  BY DEF IInv, UpdateExit, Updating, Action
<1>3. due' \in Int /\ runs' \in Nat \cup {NotEntered}
  BY <1>1, <1>2, BoundsAssumption DEF Due, Counted, TypeOK
<1>4. TypeOK'
  BY <1>1, <1>2, <1>3, ServeType DEF TypeOK, Ended
<1>5. OrderInv'
  BY <1>1, <1>2, ServeOrder
<1>6. action' = "Run" => runs' = NotEntered
  BY <1>1 DEF Serve, After, Continued, Counted
<1> QED BY <1>4, <1>5, <1>6 DEF IInv, PaceInv

(* The step of an entry: the first Run is due at once.                     *)
LEMMA EntryIInv ==
  ASSUME IInv, UpdateEntry
  PROVE  IInv'
<1>1. PICK does \in Behaviours(stage) :
        /\ Serve("Entry", does)
        /\ Due(does, IF Current.period > 0 THEN 0 ELSE due)
        /\ Counted(does, 0)
  BY DEF UpdateEntry
<1>2. TypeOK /\ ~ Ended /\ "Entry" \in Action /\ elapsed' = 0
  BY DEF IInv, UpdateEntry, Updating, Action
<1>3. due' \in Int /\ runs' \in Nat \cup {NotEntered}
  BY <1>1, <1>2, BoundsAssumption DEF Due, Counted, TypeOK
<1>4. TypeOK'
  BY <1>1, <1>2, <1>3, ServeType, BoundsAssumption DEF TypeOK, Ended
<1>5. OrderInv'
  BY <1>1, <1>2, ServeOrder
<1>6. PaceInv'
  <2>1. CASE "restart" \in does
    BY <1>1, <2>1 DEF Counted, PaceInv
  <2>2. CASE "restart" \notin does
    <3>1. stage' = stage /\ runs' = 0
      BY <1>1, <2>2 DEF Serve, After, Counted
    <3>2. Current' = Current
      BY <3>1 DEF Current
    <3>3. Current.period > 0 => due' = 0
      BY <1>1, <2>2 DEF Due
    <3> QED BY <1>2, <3>1, <3>2, <3>3, CurrentType DEF PaceInv
  <2> QED BY <2>1, <2>2
<1> QED BY <1>4, <1>5, <1>6 DEF IInv

(* The step of a Run: it was due, and the next one is a period away.       *)
LEMMA RunIInv ==
  ASSUME IInv, UpdateRun
  PROVE  IInv'
<1> DEFINE count == IF runs = NotEntered \/ Current.period = 0 THEN runs
                                                               ELSE runs + 1
           next == IF Current.period > 0 THEN Missed ELSE due
<1>1. PICK does \in Behaviours(stage) :
        Serve("Run", does) /\ Due(does, next) /\ Counted(does, count)
  BY DEF UpdateRun
<1>2. TypeOK /\ ~ Ended /\ "Run" \in Action /\ elapsed' = elapsed
  BY DEF IInv, UpdateRun, Updating, Action
<1>3. Current.period \in Nat /\ due \in Int /\ elapsed \in Nat
      /\ runs \in Nat \cup {NotEntered}
  BY <1>2, CurrentType, BoundsAssumption DEF TypeOK
<1>4. next \in Int /\ count \in Nat \cup {NotEntered}
  BY <1>3 DEF Missed
<1>5. due' \in Int /\ runs' \in Nat \cup {NotEntered}
  BY <1>1, <1>4, BoundsAssumption DEF Due, Counted
<1>6. TypeOK'
  BY <1>1, <1>2, <1>5, ServeType DEF TypeOK, Ended
<1>7. OrderInv'
  BY <1>1, <1>2, ServeOrder
<1>8. PaceInv'
  <2>1. CASE "restart" \in does
    BY <1>1, <2>1 DEF Counted, PaceInv
  <2>2. CASE "restart" \notin does
    <3>1. stage' = stage /\ runs' = count /\ due' = next
      BY <1>1, <2>2 DEF Serve, After, Counted, Due
    <3>2. Current' = Current
      BY <3>1 DEF Current
    <3>3. PaceInv /\ action = "Run" /\ (Current.period > 0 => due <= 0)
      BY DEF IInv, UpdateRun
    <3>4. CASE runs = NotEntered
      BY <3>1, <3>4 DEF PaceInv
    <3>5. CASE runs # NotEntered /\ Current.period = 0
      BY <1>2, <1>3, <3>1, <3>2, <3>5 DEF PaceInv
    <3>6. CASE runs # NotEntered /\ Current.period > 0
      <4>1. due = Current.period * runs - elapsed /\ runs \in Nat
        BY <1>3, <3>3, <3>6 DEF PaceInv
      <4>2. runs' = runs + 1 /\ due' = due + Current.period
        BY <3>1, <3>6 DEF Missed
      <4>3. Current.period * (runs + 1) = Current.period * runs + Current.period
        BY <1>3, <4>1
      <4>4. /\ due' = Current.period * runs' - elapsed
            /\ Current.period * (runs' - 1) <= elapsed
        BY <1>3, <3>3, <3>6, <4>1, <4>2, <4>3
      <4> QED BY <1>2, <3>2, <4>4 DEF PaceInv
    <3> QED BY <1>3, <3>4, <3>5, <3>6
  <2> QED BY <2>1, <2>2
<1> QED BY <1>6, <1>7, <1>8 DEF IInv

(* The step of a restart by the application.                               *)
LEMMA RestartIInv ==
  ASSUME IInv, Restart
  PROVE  IInv'
BY StagesAssumption, BoundsAssumption
   DEF IInv, TypeOK, OrderInv, PaceInv, Restart, Ended, Action, NotEntered

(* The step of time: a periodic stage gets closer to its next Run.         *)
LEMMA TickIInv ==
  ASSUME IInv, Tick
  PROVE  IInv'
<1>1. /\ TypeOK /\ ~ Ended /\ UNCHANGED <<requests, halted, history>>
      /\ elapsed < MaxElapsed /\ elapsed' = elapsed + 1
      /\ due' = IF due > - MaxLag THEN due - 1 ELSE due
      /\ due > - MaxLag \/ Current.period = 0
  BY DEF IInv, Tick, Updating
<1>2. Current' = Current /\ Current.period \in Nat /\ due \in Int
      /\ elapsed \in Nat /\ runs \in Nat \cup {NotEntered}
  BY <1>1, CurrentType, BoundsAssumption DEF requests, Current, TypeOK
<1>3. TypeOK'
  BY <1>1, <1>2, BoundsAssumption DEF TypeOK, Ended, requests, history
<1>4. OrderInv'
  BY <1>1 DEF IInv, OrderInv, requests, history
<1>5. PaceInv'
  <2>1. SUFFICES ASSUME action = "Run", runs # NotEntered
                 PROVE  PaceInv'
    BY <1>1 DEF PaceInv, requests, history
  <2>2. /\ Current.period > 0 => due = Current.period * runs - elapsed
        /\ Current.period * (runs - 1) <= elapsed
    BY <2>1 DEF IInv, PaceInv
  <2>3. PICK total \in Int, before \in Int :
          total = Current.period * runs /\ before = Current.period * (runs - 1)
    BY <1>2, <2>1
  <2>4. /\ Current.period > 0 => due' = total - elapsed'
        /\ before <= elapsed'
    BY <1>1, <1>2, <2>2, <2>3
  <2> QED BY <1>1, <1>2, <2>3, <2>4 DEF PaceInv, requests, history
<1> QED BY <1>3, <1>4, <1>5 DEF IInv

(* Every step keeps the invariant.                                         *)
LEMMA NextIInv == IInv /\ [Next]_vars => IInv'
<1> SUFFICES ASSUME IInv, [Next]_vars PROVE IInv'
  OBVIOUS
<1>1. CASE UNCHANGED vars
  BY <1>1 DEF vars, requests, history, IInv, TypeOK, OrderInv, PaceInv, Ended,
              Current
<1>2. CASE Next
  BY <1>2, ExitIInv, EntryIInv, RunIInv, RestartIInv, TickIInv DEF Next, Update
<1> QED BY <1>1, <1>2

(* The invariant holds in every state.                                     *)
THEOREM Invariance == Spec => []IInv
BY InitIInv, NextIInv, PTL DEF Spec

(***************************************************************************)
(* Types are kept, and the current stage is one of the table until the     *)
(* sequence ends: the assertion of SEQUENCE_Update never fails.            *)
(***************************************************************************)
THEOREM TypeCorrect == Spec => []TypeOK
<1>1. IInv => TypeOK
  BY DEF IInv
<1> QED BY <1>1, Invariance, PTL

(***************************************************************************)
(* A stage that was entered is run once per period at most on the whole,   *)
(* for any periods and however late updates come.                          *)
(***************************************************************************)
THEOREM RunsAtTheirPace == Spec => []RunsKeepPace
<1>1. IInv => RunsKeepPace
  BY DEF IInv, PaceInv, RunsKeepPace
<1> QED BY <1>1, Invariance, PTL

(* What a step serves follows what was served before it.                   *)
LEMMA StepInOrder ==
  ASSUME IInv, Update
  PROVE  /\ restarted = "none" => Follows(served, served')
         /\ restarted = "clean" => served' = [stage |-> 0, action |-> "Entry"]
<1>1. /\ ~ halted /\ OrderInv /\ ~ Ended
      /\ served \in [stage : 0 .. StagesCount - 1,
                     action : Action \cup {"Init"}]
      /\ action \in Action /\ stage \in 0 .. StagesCount
  BY DEF Update, UpdateExit, UpdateEntry, UpdateRun, Updating, IInv, TypeOK
<1>2. \/ \E pressed \in BOOLEAN : UpdateExit(pressed)
      \/ UpdateEntry
      \/ UpdateRun
  BY DEF Update
<1>3. CASE \E pressed \in BOOLEAN : UpdateExit(pressed)
  <2>1. served' = [stage |-> stage, action |-> "Exit"]
        /\ (exitRequested \/ action = "Run")
    BY <1>3 DEF UpdateExit, Serve, Exits
  <2> QED BY <1>1, <2>1 DEF OrderInv, Follows
<1>4. CASE UpdateEntry
  <2>1. served' = [stage |-> stage, action |-> "Entry"] /\ action = "Entry"
    BY <1>4 DEF UpdateEntry, Serve
  <2> QED BY <1>1, <2>1 DEF OrderInv, Follows
<1>5. CASE UpdateRun
  <2>1. served' = [stage |-> stage, action |-> "Run"] /\ action = "Run"
    BY <1>5 DEF UpdateRun, Serve
  <2> QED BY <1>1, <2>1 DEF OrderInv, Follows
<1> QED BY <1>2, <1>3, <1>4, <1>5

(***************************************************************************)
(* Stages are played in order, each entered and left once, for any table   *)
(* of stages, whatever their functions do but restart the sequence.        *)
(***************************************************************************)
THEOREM StagesInOrder == Spec => ServedInOrder
<1>1. IInv /\ [Next]_vars =>
        [Update =>
           /\ restarted = "none" => Follows(served, served')
           /\ restarted = "clean" =>
                served' = [stage |-> 0, action |-> "Entry"]]_vars
  BY StepInOrder
<1> QED BY <1>1, Invariance, PTL DEF Spec, ServedInOrder

=============================================================================

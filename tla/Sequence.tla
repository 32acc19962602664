------------------------------ MODULE Sequence -------------------------------
(***************************************************************************)
(* A sequence of stages (core/sequence.c), as the splash themes play them: *)
(* the application calls SEQUENCE_Update in a loop, which serves one       *)
(* action of the current stage (Entry, Run or Exit) by calling the stage's *)
(* function with it.  The function may call SEQUENCE_ExitStage and         *)
(* SEQUENCE_Restart, the application SEQUENCE_Restart.                     *)
(*                                                                         *)
(* Times are relative: elapsed is Now - currentStageStarted, and due is    *)
(* currentStagePeriod - Now.                                               *)
(***************************************************************************)
EXTENDS Integers

CONSTANTS
  StagesCount,
  Stages,         \* the table of struct SEQUENCE_Stage; 0 is no period or
                  \* timeout, input tells whether it has an input type
  MaxElapsed,     \* bound on elapsed, more than any timeout
  MaxLag          \* bound on -due

ASSUME StagesAssumption ==
  /\ StagesCount \in Nat \ {0}
  /\ Stages \in [0 .. StagesCount - 1 ->
                   [func : BOOLEAN, period : Nat, timeout : Nat,
                    input : BOOLEAN]]
  (* What SEQUENCE_Update asserts of a stage when it enters it.            *)
  /\ \A s \in 0 .. StagesCount - 1 :
       /\ Stages[s].timeout > 0 \/ Stages[s].func
       /\ Stages[s].period > 0 => Stages[s].func

ASSUME BoundsAssumption ==
  /\ MaxElapsed \in Nat /\ MaxLag \in Nat \ {0}
  /\ \A s \in 0 .. StagesCount - 1 : Stages[s].timeout < MaxElapsed

VARIABLES
  stage,          \* currentStage
  action,         \* currentStageAction
  exitRequested,
  elapsed,
  due,
  halted,         \* an assertion failed
  served,         \* history: the last action served, and its stage
  restarted,      \* history: how the sequence was restarted since then
  runs            \* history: Run actions served since the last Entry, or
                  \* NotEntered since a restart

requests == <<stage, action, exitRequested>>
history == <<served, restarted, runs>>
vars == <<requests, elapsed, due, halted, history>>

NotEntered == -1

Current == Stages[stage]

(* SEQUENCE_Update has returned false: it leaves the action at Exit.       *)
Ended == action = "Exit"

Updating == ~ Ended /\ ~ halted

Init ==
  /\ stage = 0 /\ action = "Entry"
  /\ exitRequested = FALSE
  /\ elapsed = 0
  /\ due = 0
  /\ halted = FALSE
  /\ served = [stage |-> 0, action |-> "Init"]
  /\ restarted = "clean"
  /\ runs = NotEntered

(* Time passes.  A periodic stage is not left behind by more than MaxLag.  *)
Tick ==
  /\ Updating
  /\ elapsed < MaxElapsed
  /\ due > - MaxLag \/ Current.period = 0
  /\ elapsed' = elapsed + 1
  /\ due' = IF due > - MaxLag THEN due - 1 ELSE due
  /\ UNCHANGED <<requests, halted, history>>

-----------------------------------------------------------------------------
(* SEQUENCE_Restart by the application, between two updates.  It forgets   *)
(* the period and leaves exitRequested alone.                              *)
Restart ==
  /\ ~ halted
  /\ stage' = 0 /\ action' = "Entry"
  /\ due' = - MaxLag
  /\ restarted' = IF exitRequested THEN "exiting" ELSE "clean"
  /\ runs' = NotEntered
  /\ UNCHANGED <<exitRequested, elapsed, halted, served>>

(* What a stage function may do.  A lateExit is an exit asked for after    *)
(* the restart, when the action is Entry already.                          *)
Behaviour ==
  {{}, {"exit"}, {"restart"}, {"exit", "restart"}, {"restart", "lateExit"}}

Behaviours(s) == IF Stages[s].func THEN Behaviour ELSE {{}}

(* Mutant of TimedOut: an update is expected at the very tick.             *)
TimedOutNow == Current.timeout > 0 /\ elapsed = Current.timeout

TimedOut == Current.timeout > 0 /\ elapsed >= Current.timeout

(* The running stage times out, or its input says so.                      *)
CutShort(pressed) == TimedOut \/ (Current.input /\ pressed)

(* SEQUENCE_ExitStage was called, by the stage function or by this update. *)
Exits(pressed) == exitRequested \/ (action = "Run" /\ CutShort(pressed))

(* Mutant of Requested: the request that has been served is not cleared.   *)
RequestedAgain(does) == exitRequested \/ "exit" \in does

(* exitRequested after the stage function.                                 *)
Requested(does) == "exit" \in does

(* Mutant of Continued: the end is looked for one stage too late.         *)
ContinuedPastEnd(to) == IF to > StagesCount THEN "Exit" ELSE "Entry"

(* The action of the stage after an exit; the sequence may have ended.     *)
Continued(to) == IF to >= StagesCount THEN "Exit" ELSE "Entry"

(* The stage status update, with the action that the function left.        *)
After(act, from) ==
  IF act = "Exit"
  THEN stage' = from + 1 /\ action' = Continued(from + 1)
  ELSE stage' = from /\ action' = "Run"

(* SEQUENCE_ExitStage asserts that the action is Run.                      *)
ExitFails(act, does) ==
  ("exit" \in does /\ act # "Run") \/ "lateExit" \in does

(* An action is served: the function is called and the status updated.     *)
Serve(act, does) ==
  /\ served' = [stage |-> stage, action |-> act]
  /\ halted' = ExitFails(act, does)
  /\ exitRequested' = Requested(does)
  /\ IF "restart" \in does
     THEN After("Entry", 0) /\ restarted' = "inside"
     ELSE After(act, stage) /\ restarted' = "none"

(* The period of a function that restarts the sequence is forgotten.       *)
Due(does, at) == due' = IF "restart" \in does THEN - MaxLag ELSE at

Counted(does, count) ==
  runs' = IF "restart" \in does THEN NotEntered ELSE count

UpdateExit(pressed) ==
  /\ Updating
  /\ Exits(pressed)
  /\ \E does \in Behaviours(stage) :
       /\ Serve("Exit", does)
       /\ Due(does, due)
       /\ Counted(does, runs)
  /\ UNCHANGED elapsed

UpdateEntry ==
  /\ Updating
  /\ action = "Entry" /\ ~ exitRequested
  /\ \E does \in Behaviours(stage) :
       /\ Serve("Entry", does)
       /\ Due(does, IF Current.period > 0 THEN 0 ELSE due)
       /\ Counted(does, 0)
  /\ elapsed' = 0

(* Mutant of Missed: the next period is counted from one too early.        *)
MissedOne == due + Current.period - 1

(* The start of the period after the one that is served.                   *)
Missed == due + Current.period

UpdateRun ==
  /\ Updating
  /\ action = "Run"
  /\ ~ Exits(FALSE)
  /\ Current.period > 0 => due <= 0
  /\ \E does \in Behaviours(stage) :
       /\ Serve("Run", does)
       /\ Due(does, IF Current.period > 0 THEN Missed ELSE due)
       /\ Counted(does, IF runs = NotEntered \/ Current.period = 0 THEN runs
                                                                 ELSE runs + 1)
  /\ UNCHANGED elapsed

(* An update that comes before the next period does nothing else: it is a  *)
(* stuttering step, and no action of its own.                              *)
Update ==
  UpdateEntry \/ UpdateRun \/ \E pressed \in BOOLEAN : UpdateExit(pressed)

Next == Tick \/ Restart \/ Update

(* Time does not stop, and the application updates the sequence in a loop: *)
(* what an update has to do is done, whatever the inputs say.              *)
Fairness ==
  /\ WF_vars(Tick)
  /\ WF_vars(UpdateEntry)
  /\ WF_vars(Updating /\ Current.period > 0 /\ UpdateRun)
  /\ WF_vars(UpdateExit(FALSE))

Spec == Init /\ [][Next]_vars /\ Fairness

-----------------------------------------------------------------------------
Action == {"Entry", "Run", "Exit"}

(* The type invariant; the current stage is one of the table (which every  *)
(* update asserts) until the sequence ends.                                *)
TypeOK ==
  /\ stage \in 0 .. StagesCount
  /\ action \in Action
  /\ Ended \/ stage < StagesCount
  /\ exitRequested \in BOOLEAN
  /\ elapsed \in 0 .. MaxElapsed
  /\ due \in Int
  /\ halted \in BOOLEAN
  /\ served \in [stage : 0 .. StagesCount - 1, action : Action \cup {"Init"}]
  /\ restarted \in {"none", "clean", "exiting", "inside"}
  /\ runs \in Nat \cup {NotEntered}

(* What may be served after what: the actions of a stage are one Entry,    *)
(* any Runs and one Exit, and then comes the next stage.                   *)
Follows(a, b) ==
  \/ /\ a.action \in {"Entry", "Run"}
     /\ b.action \in {"Run", "Exit"}
     /\ b.stage = a.stage
  \/ a.action = "Exit" /\ b = [stage |-> a.stage + 1, action |-> "Entry"]

(***************************************************************************)
(* Stages are played in order, each with one Entry and one Exit, whether   *)
(* it is left by its timeout, its input or its function, or by two of them *)
(* at once; and a sequence that is restarted between two updates begins    *)
(* with an Entry to its first stage (SEQUENCE_Update).  Nothing is said of *)
(* a restart by a stage function or with an exit pending: those skip the   *)
(* Entry.                                                                  *)
(***************************************************************************)
ServedInOrder ==
  [][Update =>
       /\ restarted = "none" => Follows(served, served')
       /\ restarted = "clean" => served' = [stage |-> 0, action |-> "Entry"]
    ]_vars

(***************************************************************************)
(* A stage that was entered is run once per period at most on the whole,   *)
(* also when updates that came late are made up for (sequence.c:152-168).  *)
(***************************************************************************)
RunsKeepPace ==
  action = "Run" /\ runs # NotEntered =>
    Current.period * (runs - 1) <= elapsed

(***************************************************************************)
(* A stage with a timeout is left, however few updates come and whatever   *)
(* its period, unless the sequence is restarted or the stage function      *)
(* stops the board (sequence.c:77-81).                                     *)
(***************************************************************************)
TimeoutEndsStage ==
  \A s \in 0 .. StagesCount - 1 :
    Stages[s].timeout > 0 =>
      (stage = s ~> (stage # s \/ restarted # "none" \/ halted))

=============================================================================

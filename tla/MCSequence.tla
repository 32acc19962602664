----------------------------- MODULE MCSequence ------------------------------
(***************************************************************************)
(* A periodic stage left by its function or an input, a pause and a        *)
(* periodic stage with all the ways of leaving it.                         *)
(***************************************************************************)
EXTENDS Sequence

MCStages ==
  [s \in 0 .. 2 |->
     CASE s = 0 -> [func |-> TRUE, period |-> 2, timeout |-> 0,
                    input |-> TRUE]
       [] s = 1 -> [func |-> FALSE, period |-> 0, timeout |-> 2,
                    input |-> FALSE]
       [] s = 2 -> [func |-> TRUE, period |-> 1, timeout |-> 3,
                    input |-> TRUE]]

=============================================================================

--------------------------- MODULE MCCyclicBuffer ---------------------------
(* Small instances of CyclicBuffer for TLC.                                *)
EXTENDS CyclicBuffer

CONSTANTS LongestBatch, MaxLastIn

MCBatches == UNION {[1 .. n -> Octet] : n \in 0 .. LongestBatch}

(* Bound: lastIn only grows over MaxLastIn by repeating what it did below. *)
LastInBound == c.lastIn <= MaxLastIn
=============================================================================

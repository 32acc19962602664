-------------------------------- MODULE Fifo --------------------------------
(***************************************************************************)
(* What cyclic.h promises of a CYCLIC instance: octets are consumed in the *)
(* order they were inserted, and inserting more than the capacity          *)
(* overwrites the older values not yet consumed.                           *)
(***************************************************************************)
EXTENDS Naturals, Sequences

CONSTANTS
  Octet,          \* values of an element
  Capacity,       \* elements the buffer can hold
  Batches         \* the sequences of octets that may be inserted at once

VARIABLES
  queue,          \* elements inserted and not yet consumed, oldest first
  call            \* the last operation, and the octets it took or returned

vars == <<queue, call>>

Called(op, octets) == call' = [op |-> op, octets |-> octets]

Init == queue = <<>> /\ call = [op |-> "Init", octets |-> <<>>]

(* The last Capacity elements of s.                                        *)
Newest(s) ==
  IF Len(s) <= Capacity THEN s
                        ELSE SubSeq(s, Len(s) - Capacity + 1, Len(s))

Insert ==
  \E s \in Batches :
    Called("Insert", s) /\ queue' = Newest(queue \o s)

Consume ==
  \E n \in 0 .. Len(queue) :
    /\ Called("Consume", SubSeq(queue, 1, n))
    /\ queue' = SubSeq(queue, n + 1, Len(queue))

Peek ==
  \E i, n \in 0 .. Len(queue) :
    /\ i + n <= Len(queue)
    /\ Called("Peek", SubSeq(queue, i + 1, i + n))
    /\ UNCHANGED queue

(* Elements that wait to be consumed change in place.                      *)
Overwrite ==
  \E s \in Batches, i \in 0 .. Len(queue) :
    /\ i + Len(s) <= Len(queue)
    /\ Called("Overwrite", s)
    /\ queue' = [k \in 1 .. Len(queue) |->
                   IF k \in i + 1 .. i + Len(s) THEN s[k - i] ELSE queue[k]]

Replace ==
  \E i, n \in 0 .. Len(queue), match, replace \in Octet :
    /\ i + n <= Len(queue)
    /\ Called("Replace", <<match, replace>>)
    /\ queue' = [k \in 1 .. Len(queue) |->
                   IF k \in i + 1 .. i + n /\ queue[k] = match
                   THEN replace ELSE queue[k]]

Clear == queue' = <<>> /\ Called("Clear", <<>>)

Next == Insert \/ Consume \/ Peek \/ Overwrite \/ Replace \/ Clear

Spec == Init /\ [][Next]_vars

=============================================================================

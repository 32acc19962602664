---------------------------- MODULE CyclicBuffer ----------------------------
(***************************************************************************)
(* One CYCLIC instance and a caller that uses every operation of its API   *)
(* in any order (source/core/cyclic.c).  The caller keeps to what the API  *)
(* asserts; whether it also checks CYCLIC_Available before it inserts is a *)
(* constant.                                                               *)
(***************************************************************************)
EXTENDS Cyclic

CONSTANTS
  Batches,        \* the sequences of octets that may be inserted at once
  ChecksAvailable \* BOOLEAN: does the caller check CYCLIC_Available?

ASSUME BatchesAssumption ==
  /\ Batches \subseteq Seq(Octet)
  /\ ChecksAvailable \in BOOLEAN

VARIABLES
  c,              \* struct CYCLIC
  call            \* the last operation, and the octets it took or returned

vars == <<c, call>>

Called(op, octets) == call' = [op |-> op, octets |-> octets]

Init ==
  /\ c \in {Initialised(data) : data \in [Index -> Octet]}
  /\ call = [op |-> "Init", octets |-> <<>>]

MayInsert(s) == ChecksAvailable => Len(s) <= Available(c)

(* CYCLIC_IN_FromBuffer, FromOctet, FromString: Count is asserted.         *)
InFromBuffer(s) ==
  /\ Len(s) > 0
  /\ MayInsert(s)
  /\ c' = InFrom(c, s)
  /\ Called("Insert", s)

(* CYCLIC_IN_FromStream: there may be nothing to read.                     *)
InFromStream(s) ==
  /\ MayInsert(s)
  /\ c' = InFrom(c, s)
  /\ Called("Insert", s)

InFromParsedStringArgs(s) ==
  /\ MayInsert(s)
  /\ c' = IF s = <<>> THEN c ELSE InFromPieces(c, s)
  /\ Called("Insert", s)

OutToBuffer(n) ==
  /\ n <= c.elements
  /\ Called("Consume", PeekedFrom(c, 0, n))
  /\ c' = OutTo(c, n)

(* CYCLIC_OUT_ToStream: the stream stops after n octets.                   *)
OutToStream(n) ==
  /\ c.elements > 0
  /\ n <= c.elements
  /\ Called("Consume", PeekedFrom(c, 0, n))
  /\ c' = OutTo(c, n)

(* CYCLIC_PeekToBuffer and CYCLIC_Peek: the caller checks Elements.        *)
PeekToBuffer(i, n) ==
  /\ i + n <= c.elements
  /\ Called("Peek", PeekedFrom(c, i, n))
  /\ UNCHANGED c

OverwriteFromBuffer(i, s) ==
  /\ Len(s) > 0
  /\ i + Len(s) <= c.elements
  /\ c' = Overwritten(c, i, s)
  /\ Called("Overwrite", s)

Replace(i, n, match, replace) ==
  /\ n > 0
  /\ i + n <= c.elements
  /\ c' = Replaced(c, i, n, match, replace)
  /\ Called("Replace", <<match, replace>>)

Discard == c' = Discarded(c) /\ Called("Clear", <<>>)

Reset == c' = Cleared /\ Called("Clear", <<>>)

Next ==
  \/ \E s \in Batches :
       \/ InFromBuffer(s)
       \/ InFromStream(s)
       \/ InFromParsedStringArgs(s)
       \/ \E i \in Index : OverwriteFromBuffer(i, s)
  \/ \E n \in 0 .. Capacity :
       \/ OutToBuffer(n)
       \/ OutToStream(n)
       \/ \E i \in Index : PeekToBuffer(i, n)
       \/ \E i \in Index, match, replace \in Octet :
            Replace(i, n, match, replace)
  \/ Discard
  \/ Reset

Spec == Init /\ [][Next]_vars

-----------------------------------------------------------------------------
(* The type invariant.                                                     *)
TypeOK ==
  /\ c \in Cyclic
  /\ call \in [op : {"Init", "Insert", "Consume", "Peek", "Overwrite",
                     "Replace", "Clear"},
               octets : Seq(Octet)]

(***************************************************************************)
(* The three counters that every operation updates on its own agree: the   *)
(* next octet goes right after the last one that waits to be consumed.     *)
(***************************************************************************)
IndicesAgree == c.inIndex = (c.outIndex + c.elements) % Capacity

(***************************************************************************)
(* A CYCLIC instance is a queue: octets come out in the order they went in,*)
(* and those inserted over its capacity take the place of the oldest ones  *)
(* ("overwriting older values not yet consumed", cyclic.h:55).             *)
(***************************************************************************)
Queue == INSTANCE Fifo WITH queue <- Contents(c)

IsFifo == Queue!Spec

=============================================================================

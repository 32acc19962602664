------------------------------- MODULE Cyclic -------------------------------
(***************************************************************************)
(* The ring buffer of embedul.ar (source/core/cyclic.c): operators on a    *)
(* struct CYCLIC, without its usage statistics.  They are shared by the    *)
(* modules of the components that hold one.  lastOut is left out as well:  *)
(* it is the number of octets the last CYCLIC_OUT call returned.           *)
(*                                                                         *)
(* `& (capacity - 1)' is `% Capacity', capacities being powers of two; no  *)
(* operator below needs them to be.                                        *)
(***************************************************************************)
EXTENDS Integers, Sequences

CONSTANTS
  Capacity,       \* octets in the buffer given to CYCLIC_Init
  Octet,          \* values of uint8_t that matter
  Zero            \* 0x00

ASSUME CyclicAssumption ==
  /\ Capacity \in Nat \ {0}
  /\ Zero \in Octet

Index == 0 .. Capacity - 1

Cyclic ==
  [data : [Index -> Octet], inIndex : Index, outIndex : Index,
   elements : 0 .. Capacity, lastIn : Nat]

(* CYCLIC_Reset.  It is also what CYCLIC_Init leaves, except that Init     *)
(* does not touch the octets of the buffer.                                *)
Cleared ==
  [data |-> [i \in Index |-> Zero], inIndex |-> 0, outIndex |-> 0,
   elements |-> 0, lastIn |-> 0]

Initialised(data) == [Cleared EXCEPT !.data = data]

Available(c) == Capacity - c.elements

(* The n octets from the element i that is to be consumed next.            *)
PeekedFrom(c, i, n) ==
  [k \in 1 .. n |-> c.data[(c.outIndex + i + k - 1) % Capacity]]

Contents(c) == PeekedFrom(c, 0, c.elements)

(* The octets of the buffer once s is written from inIndex on, wrapping    *)
(* around as many times as it takes: the last octet written to an index is *)
(* one of the last Capacity octets of s.                                   *)
Written(c, s) ==
  LET WrittenTo(i) == {k \in 1 .. Len(s) :
                         /\ k > Len(s) - Capacity
                         /\ (c.inIndex + k - 1) % Capacity = i}
  IN  [i \in Index |-> IF WrittenTo(i) = {} THEN c.data[i]
                       ELSE s[CHOOSE k \in WrittenTo(i) : TRUE]]

(* inFrom_End.                                                             *)
ElementsAfter(c, count) ==
  IF count > Available(c) THEN Capacity ELSE c.elements + count

(* Mutant of InFrom: inIndex is not masked.                                *)
InFromUnmasked(c, s) ==
  [c EXCEPT !.data     = Written(c, s),
            !.inIndex  = c.inIndex + Len(s),
            !.elements = ElementsAfter(c, Len(s)),
            !.lastIn   = Len(s)]

(* CYCLIC_IN_FromBuffer, and CYCLIC_IN_FromStream with what the stream had.*)
InFrom(c, s) ==
  [c EXCEPT !.data     = Written(c, s),
            !.inIndex  = (c.inIndex + Len(s)) % Capacity,
            !.elements = ElementsAfter(c, Len(s)),
            !.lastIn   = Len(s)]

(* CYCLIC_IN_FromParsedStringArgs: cyclicOutProc inserts the pieces of the *)
(* parsed string, and adds the length of each to lastIn.                   *)
InFromPieces(c, s) ==
  [InFrom(c, s) EXCEPT !.lastIn = c.lastIn + Len(s)]

(* Mutant of OutTo: outIndex goes past every element.                      *)
OutToSkipping(c, n) ==
  [c EXCEPT !.elements = c.elements - n,
            !.outIndex = (c.outIndex + c.elements) % Capacity]

(* CYCLIC_OUT_ToBuffer and CYCLIC_OUT_ToStream, n octets consumed.         *)
OutTo(c, n) ==
  [c EXCEPT !.elements = c.elements - n,
            !.outIndex = (c.outIndex + n) % Capacity]

(* Mutant of Discarded: outIndex is left behind.                           *)
DiscardedInPlace(c) == [c EXCEPT !.elements = 0]

(* CYCLIC_Discard.                                                         *)
Discarded(c) ==
  [c EXCEPT !.outIndex = (c.outIndex + c.elements) % Capacity,
            !.elements = 0]

(* Counting from 1, when the octet at an index is to be consumed.          *)
Turn(c, index) == ((index - c.outIndex) % Capacity) + 1

(* CYCLIC_OverwriteFromBuffer: s takes the place of the elements that are  *)
(* to be consumed after the first i.                                       *)
Overwritten(c, i, s) ==
  [c EXCEPT !.data = [a \in Index |->
     IF Turn(c, a) \in i + 1 .. i + Len(s) THEN s[Turn(c, a) - i]
                                           ELSE c.data[a]]]

(* CYCLIC_Replace.                                                         *)
Replaced(c, i, n, match, replace) ==
  Overwritten(c, i, [k \in 1 .. n |->
    IF PeekedFrom(c, i, n)[k] = match THEN replace
                                      ELSE PeekedFrom(c, i, n)[k]])

=============================================================================

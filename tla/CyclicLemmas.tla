---------------------------- MODULE CyclicLemmas ----------------------------
(***************************************************************************)
(* What the operators of Cyclic do to a struct CYCLIC, for every capacity  *)
(* and every set of octets: lemmas for the proofs about the modules of the *)
(* components that hold one.                                               *)
(***************************************************************************)
EXTENDS Cyclic, SequenceTheorems, TLAPS

(* What % Capacity does to an integer, one turn around the buffer at a time.*)
LEMMA ModFacts ==
  ASSUME NEW x \in Int
  PROVE  /\ x % Capacity \in Index
         /\ x \in Index => x % Capacity = x
         /\ x \in Index => (x + Capacity) % Capacity = x
         /\ x \in Index => (x - Capacity) % Capacity = x
BY CyclicAssumption DEF Index

(* Indices wrap around once at most when a buffer is not filled over.      *)
LEMMA WrapOnce ==
  ASSUME NEW x \in Int, -Capacity <= x, x < 2 * Capacity
  PROVE  x % Capacity = IF x < 0 THEN x + Capacity
                        ELSE IF x < Capacity THEN x ELSE x - Capacity
<1>1. Capacity \in Nat \ {0}
  BY CyclicAssumption
<1>2. CASE x < 0
  <2>1. x + Capacity \in Index /\ x + Capacity - Capacity = x
    BY <1>1, <1>2 DEF Index
  <2> QED BY <1>1, <1>2, <2>1, ModFacts
<1>3. CASE x >= 0 /\ x < Capacity
  BY <1>1, <1>3, ModFacts DEF Index
<1>4. CASE x >= Capacity
  <2>1. x - Capacity \in Index /\ x - Capacity + Capacity = x
    BY <1>1, <1>4 DEF Index
  <2> QED BY <1>1, <1>4, <2>1, ModFacts
<1> QED BY <1>1, <1>2, <1>3, <1>4

(* Going around the buffer in two strides is going around it in one.       *)
LEMMA WrapTwice ==
  ASSUME NEW x \in Int, 0 <= x, x < Capacity,
         NEW m \in Nat, NEW n \in Nat, m + n <= Capacity
  PROVE  (((x + m) % Capacity) + n) % Capacity = (x + (m + n)) % Capacity
<1>1. Capacity \in Nat \ {0}
  BY CyclicAssumption
<1> DEFINE y == IF x + m < Capacity THEN x + m ELSE x + m - Capacity
<1>2. (x + m) % Capacity = y
  BY <1>1, WrapOnce
<1>3. y \in Int /\ 0 <= y /\ y < Capacity
  BY <1>1
<1>4. (y + n) % Capacity = IF y + n < Capacity THEN y + n ELSE y + n - Capacity
  BY <1>1, <1>3, WrapOnce
<1>5. (x + (m + n)) % Capacity = IF x + (m + n) < Capacity
                                 THEN x + (m + n) ELSE x + (m + n) - Capacity
  BY <1>1, WrapOnce
<1> QED BY <1>1, <1>2, <1>4, <1>5

-----------------------------------------------------------------------------
(* Type correctness.                                                       *)

LEMMA Fields ==
  ASSUME NEW b \in Cyclic
  PROVE  /\ b.data \in [Index -> Octet]
         /\ b.inIndex \in Int /\ 0 <= b.inIndex /\ b.inIndex < Capacity
         /\ b.outIndex \in Int /\ 0 <= b.outIndex /\ b.outIndex < Capacity
         /\ b.elements \in Int /\ 0 <= b.elements /\ b.elements <= Capacity
         /\ b.lastIn \in Nat
         /\ Capacity \in Int /\ 1 <= Capacity
BY CyclicAssumption DEF Cyclic, Index

(* Peeking at elements gives octets.                                       *)
LEMMA PeekedType ==
  ASSUME NEW b \in Cyclic, NEW i \in Nat, NEW n \in Nat
  PROVE  PeekedFrom(b, i, n) \in [1 .. n -> Octet]
<1>1. ASSUME NEW k \in 1 .. n
      PROVE  b.data[(b.outIndex + i + k - 1) % Capacity] \in Octet
  <2>1. b.outIndex + i + k - 1 \in Int
    BY CyclicAssumption DEF Cyclic, Index
  <2> QED BY <2>1, ModFacts DEF Cyclic
<1> QED BY <1>1 DEF PeekedFrom

(* Writing a sequence of octets to the buffer leaves octets in it.         *)
LEMMA WrittenType ==
  ASSUME NEW b \in Cyclic, NEW s \in Seq(Octet)
  PROVE  Written(b, s) \in [Index -> Octet]
<1> DEFINE WrittenTo(i) == {k \in 1 .. Len(s) :
                             /\ k > Len(s) - Capacity
                             /\ (b.inIndex + k - 1) % Capacity = i}
<1>1. ASSUME NEW i \in Index, WrittenTo(i) # {}
      PROVE  s[CHOOSE k \in WrittenTo(i) : TRUE] \in Octet
  <2>1. (CHOOSE k \in WrittenTo(i) : TRUE) \in WrittenTo(i)
    BY <1>1
  <2>2. (CHOOSE k \in WrittenTo(i) : TRUE) \in 1 .. Len(s)
    BY <2>1
  <2> HIDE DEF WrittenTo
  <2> QED BY <2>2, ElementOfSeq
<1>2. Written(b, s) = [i \in Index |->
        IF WrittenTo(i) = {} THEN b.data[i]
                             ELSE s[CHOOSE k \in WrittenTo(i) : TRUE]]
  BY DEF Written
<1> HIDE DEF WrittenTo
<1> QED BY <1>1, <1>2, Fields

LEMMA InFromType ==
  ASSUME NEW b \in Cyclic, NEW s \in Seq(Octet)
  PROVE  /\ InFrom(b, s) \in Cyclic
         /\ InFromPieces(b, s) \in Cyclic
<1>1. Written(b, s) \in [Index -> Octet]
  BY WrittenType
<1>2. (b.inIndex + Len(s)) % Capacity \in Index
  <2>1. b.inIndex + Len(s) \in Int
    BY Fields
  <2> QED BY <2>1, ModFacts
<1>3. ElementsAfter(b, Len(s)) \in 0 .. Capacity
  BY CyclicAssumption DEF ElementsAfter, Available, Cyclic
<1>4. Len(s) \in Nat /\ b.lastIn + Len(s) \in Nat
  BY Fields
<1>5. InFrom(b, s) \in Cyclic
  BY <1>1, <1>2, <1>3, <1>4 DEF InFrom, Cyclic
<1> QED BY <1>4, <1>5 DEF InFromPieces, Cyclic

LEMMA OutToType ==
  ASSUME NEW b \in Cyclic, NEW n \in Nat, n <= b.elements
  PROVE  OutTo(b, n) \in Cyclic
<1>1. (b.outIndex + n) % Capacity \in Index
  <2>1. b.outIndex + n \in Int
    BY Fields
  <2> QED BY <2>1, ModFacts
<1>2. b.elements - n \in 0 .. Capacity
  BY CyclicAssumption DEF Cyclic
<1> QED BY <1>1, <1>2 DEF OutTo, Cyclic

LEMMA TurnType ==
  ASSUME NEW b \in Cyclic, NEW a \in Index
  PROVE  Turn(b, a) \in 1 .. Capacity
<1>1. a - b.outIndex \in Int
  BY Fields DEF Index
<1>2. (a - b.outIndex) % Capacity \in Index
  BY <1>1, ModFacts
<1> QED BY <1>2, CyclicAssumption DEF Turn, Index

LEMMA OverwrittenType ==
  ASSUME NEW b \in Cyclic, NEW i \in Nat, NEW s \in Seq(Octet)
  PROVE  Overwritten(b, i, s) \in Cyclic
<1>1. ASSUME NEW a \in Index, Turn(b, a) \in i + 1 .. i + Len(s)
      PROVE  s[Turn(b, a) - i] \in Octet
  <2>1. Turn(b, a) - i \in 1 .. Len(s)
    BY <1>1, TurnType
  <2> QED BY <2>1
<1> QED BY <1>1 DEF Overwritten, Cyclic

LEMMA ReplacedType ==
  ASSUME NEW b \in Cyclic, NEW i \in Nat, NEW n \in Nat,
         NEW match \in Octet, NEW replace \in Octet
  PROVE  Replaced(b, i, n, match, replace) \in Cyclic
<1> DEFINE s == [k \in 1 .. n |-> IF PeekedFrom(b, i, n)[k] = match
                                  THEN replace ELSE PeekedFrom(b, i, n)[k]]
<1>1. s \in Seq(Octet)
  BY PeekedType
<1>2. Replaced(b, i, n, match, replace) = Overwritten(b, i, s)
  BY DEF Replaced
<1> HIDE DEF s
<1> QED BY <1>1, <1>2, OverwrittenType

LEMMA DiscardedType ==
  ASSUME NEW b \in Cyclic
  PROVE  Discarded(b) \in Cyclic
<1>1. b.outIndex + b.elements \in Int
  BY CyclicAssumption DEF Cyclic, Index
<1>2. (b.outIndex + b.elements) % Capacity \in Index
  BY <1>1, ModFacts
<1>3. 0 \in 0 .. Capacity
  BY CyclicAssumption
<1> QED BY <1>2, <1>3 DEF Discarded, Cyclic

-----------------------------------------------------------------------------
(* The indices agree with the number of elements.                          *)

Agree(b) == b.inIndex = (b.outIndex + b.elements) % Capacity

LEMMA InFromAgrees ==
  ASSUME NEW b \in Cyclic, Agree(b), NEW s \in Seq(Octet),
         Len(s) <= Available(b)
  PROVE  Agree(InFrom(b, s)) /\ Agree(InFromPieces(b, s))
<1>1. /\ InFrom(b, s).inIndex = (b.inIndex + Len(s)) % Capacity
      /\ InFrom(b, s).outIndex = b.outIndex
      /\ InFrom(b, s).elements = b.elements + Len(s)
  <2>1. ElementsAfter(b, Len(s)) = b.elements + Len(s)
    BY Fields DEF ElementsAfter, Available
  <2> QED BY <2>1 DEF InFrom, Cyclic
<1>2. (b.inIndex + Len(s)) % Capacity
        = (b.outIndex + (b.elements + Len(s))) % Capacity
  <2>1. Len(s) \in Nat /\ b.elements + Len(s) <= Capacity
    BY Fields DEF Available
  <2>2. b.elements \in Nat /\ b.outIndex \in Int
        /\ 0 <= b.outIndex /\ b.outIndex < Capacity
    BY Fields
  <2>3. (((b.outIndex + b.elements) % Capacity) + Len(s)) % Capacity
          = (b.outIndex + (b.elements + Len(s))) % Capacity
    BY <2>1, <2>2, WrapTwice
  <2> QED BY <2>3 DEF Agree
<1>3. /\ InFromPieces(b, s).inIndex = InFrom(b, s).inIndex
      /\ InFromPieces(b, s).outIndex = InFrom(b, s).outIndex
      /\ InFromPieces(b, s).elements = InFrom(b, s).elements
  BY InFromType DEF InFromPieces, Cyclic
<1> QED BY <1>1, <1>2, <1>3 DEF Agree

LEMMA OutToAgrees ==
  ASSUME NEW b \in Cyclic, Agree(b), NEW n \in Nat, n <= b.elements
  PROVE  Agree(OutTo(b, n))
<1>1. /\ OutTo(b, n).inIndex = b.inIndex
      /\ OutTo(b, n).outIndex = (b.outIndex + n) % Capacity
      /\ OutTo(b, n).elements = b.elements - n
  BY DEF OutTo, Cyclic
<1>2. (((b.outIndex + n) % Capacity) + (b.elements - n)) % Capacity
        = (b.outIndex + b.elements) % Capacity
  <2>1. /\ b.elements - n \in Nat
        /\ n + (b.elements - n) = b.elements
        /\ n + (b.elements - n) <= Capacity
    BY Fields
  <2> QED BY <2>1, Fields, WrapTwice
<1> QED BY <1>1, <1>2 DEF Agree

LEMMA DiscardedAgrees ==
  ASSUME NEW b \in Cyclic, Agree(b)
  PROVE  Agree(Discarded(b))
<1>1. /\ Discarded(b).inIndex = b.inIndex
      /\ Discarded(b).outIndex = (b.outIndex + b.elements) % Capacity
      /\ Discarded(b).elements = 0
  BY DEF Discarded, Cyclic
<1>2. (((b.outIndex + b.elements) % Capacity) + 0) % Capacity
        = (b.outIndex + b.elements) % Capacity
  BY Fields, WrapOnce
<1> QED BY <1>1, <1>2 DEF Agree

LEMMA OverwrittenAgrees ==
  ASSUME NEW b \in Cyclic, Agree(b), NEW i, NEW s
  PROVE  Agree(Overwritten(b, i, s))
BY DEF Overwritten, Agree, Cyclic

LEMMA ClearedAgrees ==
  /\ Agree(Cleared)
  /\ \A data : Agree(Initialised(data))
<1>1. (0 + 0) % Capacity = 0
  BY CyclicAssumption, WrapOnce
<1> QED BY <1>1 DEF Agree, Cleared, Initialised

-----------------------------------------------------------------------------
(* What the operations do to the elements that wait to be consumed.        *)

LEMMA ContentsType ==
  ASSUME NEW b \in Cyclic
  PROVE  Contents(b) \in Seq(Octet) /\ Len(Contents(b)) = b.elements
<1>1. b.elements \in Nat
  BY Fields
<1>2. Contents(b) \in [1 .. b.elements -> Octet]
  BY <1>1, PeekedType DEF Contents
<1> QED BY <1>1, <1>2

(* Elements i + 1 to i + n of the queue, where they are in the buffer.     *)
LEMMA PeekedElements ==
  ASSUME NEW b \in Cyclic, NEW i \in Nat, NEW n \in Nat, i + n <= b.elements
  PROVE  PeekedFrom(b, i, n) = SubSeq(Contents(b), i + 1, i + n)
<1>1. /\ Contents(b) \in [1 .. b.elements -> Octet]
      /\ PeekedFrom(b, i, n) \in [1 .. n -> Octet]
      /\ b.elements \in Nat
  <2>1. b.elements \in Nat
    BY Fields
  <2>2. Contents(b) \in [1 .. b.elements -> Octet]
    BY <2>1, PeekedType DEF Contents
  <2>3. PeekedFrom(b, i, n) \in [1 .. n -> Octet]
    BY PeekedType
  <2> QED BY <2>1, <2>2, <2>3
<1>2. /\ Contents(b) \in Seq(Octet) /\ Len(Contents(b)) = b.elements
      /\ PeekedFrom(b, i, n) \in Seq(Octet) /\ Len(PeekedFrom(b, i, n)) = n
  BY <1>1
<1>3. /\ SubSeq(Contents(b), i + 1, i + n) \in Seq(Octet)
      /\ Len(SubSeq(Contents(b), i + 1, i + n)) = n
      /\ \A k \in 1 .. n : SubSeq(Contents(b), i + 1, i + n)[k]
                            = Contents(b)[i + k]
  BY <1>1, <1>2, SubSeqProperties
<1>4. ASSUME NEW k \in 1 .. n
      PROVE  PeekedFrom(b, i, n)[k] = Contents(b)[i + k]
  <2>1. i + k \in 1 .. b.elements
    BY <1>1
  <2>2. b.outIndex + i + k - 1 = b.outIndex + 0 + (i + k) - 1
    BY Fields
  <2> QED BY <2>1, <2>2 DEF PeekedFrom, Contents
<1> QED BY <1>2, <1>3, <1>4, SeqEqual

(* Consuming n elements leaves the others.                                 *)
LEMMA ConsumedContents ==
  ASSUME NEW b \in Cyclic, NEW n \in Nat, n <= b.elements
  PROVE  Contents(OutTo(b, n)) = SubSeq(Contents(b), n + 1, Len(Contents(b)))
<1>1. /\ OutTo(b, n).data = b.data
      /\ OutTo(b, n).outIndex = (b.outIndex + n) % Capacity
      /\ OutTo(b, n).elements = b.elements - n
  BY DEF OutTo, Cyclic
<1>2. b.elements - n \in Nat /\ n + (b.elements - n) = b.elements
  BY Fields
<1>3. ASSUME NEW k \in 1 .. b.elements - n
      PROVE  (OutTo(b, n).outIndex + 0 + k - 1) % Capacity
               = (b.outIndex + n + k - 1) % Capacity
  <2>1. k - 1 \in Nat /\ n + (k - 1) <= Capacity
    BY <1>2, Fields
  <2>2. (((b.outIndex + n) % Capacity) + (k - 1)) % Capacity
          = (b.outIndex + (n + (k - 1))) % Capacity
    BY <2>1, Fields, WrapTwice
  <2>3. (b.outIndex + n) % Capacity \in Int
    <3>1. b.outIndex + n \in Int
      BY Fields
    <3> QED BY <3>1, ModFacts DEF Index
  <2>4. /\ ((b.outIndex + n) % Capacity) + 0 + k - 1
              = ((b.outIndex + n) % Capacity) + (k - 1)
        /\ b.outIndex + (n + (k - 1)) = b.outIndex + n + k - 1
    BY <2>3, Fields
  <2> QED BY <1>1, <2>2, <2>4
<1>4. Contents(OutTo(b, n)) = PeekedFrom(b, n, b.elements - n)
  BY <1>1, <1>3 DEF Contents, PeekedFrom
<1>5. n + (b.elements - n) <= b.elements
  BY <1>2, Fields
<1>6. /\ Len(Contents(b)) = b.elements
      /\ PeekedFrom(b, n, b.elements - n)
           = SubSeq(Contents(b), n + 1, n + (b.elements - n))
  BY <1>2, <1>5, PeekedElements, ContentsType
<1> QED BY <1>2, <1>4, <1>6

(* Two elements are never at the same index.                               *)
LEMMA DistinctIndices ==
  ASSUME NEW x \in Int, 0 <= x, x < Capacity,
         NEW i \in 0 .. Capacity - 1, NEW j \in 0 .. Capacity - 1,
         (x + i) % Capacity = (x + j) % Capacity
  PROVE  i = j
<1>1. (x + i) % Capacity = IF x + i < Capacity THEN x + i ELSE x + i - Capacity
  BY CyclicAssumption, WrapOnce
<1>2. (x + j) % Capacity = IF x + j < Capacity THEN x + j ELSE x + j - Capacity
  BY CyclicAssumption, WrapOnce
<1> QED BY <1>1, <1>2, CyclicAssumption

(* Octets are inserted after the elements that wait to be consumed.        *)
LEMMA InsertedContents ==
  ASSUME NEW b \in Cyclic, Agree(b), NEW s \in Seq(Octet),
         Len(s) <= Available(b)
  PROVE  Contents(InFrom(b, s)) = Contents(b) \o s
<1> DEFINE at(k) == (b.outIndex + 0 + k - 1) % Capacity
           WrittenTo(i) == {k \in 1 .. Len(s) :
                              /\ k > Len(s) - Capacity
                              /\ (b.inIndex + k - 1) % Capacity = i}
           n == b.elements + Len(s)
<1>1. /\ InFrom(b, s).data = Written(b, s)
      /\ InFrom(b, s).outIndex = b.outIndex
      /\ InFrom(b, s).elements = n
  <2>1. ElementsAfter(b, Len(s)) = n
    BY Fields DEF ElementsAfter, Available
  <2> QED BY <2>1 DEF InFrom, Cyclic
<1>2. Len(s) \in Nat /\ b.elements \in Nat /\ n \in Nat /\ n <= Capacity
  BY Fields DEF Available
<1>3. Written(b, s) = [i \in Index |->
        IF WrittenTo(i) = {} THEN b.data[i]
                             ELSE s[CHOOSE k \in WrittenTo(i) : TRUE]]
  BY DEF Written
<1>4. ASSUME NEW k \in 1 .. n
      PROVE  at(k) \in Index
  <2>1. b.outIndex + 0 + k - 1 \in Int
    BY <1>2, Fields
  <2> QED BY <2>1, ModFacts
<1>5. ASSUME NEW k \in 1 .. Len(s)
      PROVE  (b.inIndex + k - 1) % Capacity = at(b.elements + k)
  <2>1. k - 1 \in Nat /\ b.elements + (k - 1) <= Capacity
    BY <1>2, Fields
  <2>2. (((b.outIndex + b.elements) % Capacity) + (k - 1)) % Capacity
          = (b.outIndex + (b.elements + (k - 1))) % Capacity
    BY <1>2, <2>1, Fields, WrapTwice
  <2>3. b.inIndex + (k - 1) = b.inIndex + k - 1
    BY Fields
  <2>4. b.outIndex + (b.elements + (k - 1)) = b.outIndex + 0 + (b.elements + k) - 1
    BY <1>2, Fields
  <2> QED BY <2>2, <2>3, <2>4 DEF Agree
<1>6. ASSUME NEW j \in 1 .. n, NEW k \in 1 .. n, at(j) = at(k)
      PROVE  j = k
  <2>1. /\ j - 1 \in 0 .. Capacity - 1 /\ k - 1 \in 0 .. Capacity - 1
        /\ b.outIndex + 0 + j - 1 = b.outIndex + (j - 1)
        /\ b.outIndex + 0 + k - 1 = b.outIndex + (k - 1)
    <3>1. b.outIndex \in Int /\ Capacity \in Int
      BY Fields
    <3>2. n \in Nat /\ n <= Capacity
      BY <1>2
    <3> HIDE DEF n
    <3> QED BY <3>1, <3>2
  <2>2. (b.outIndex + (j - 1)) % Capacity = (b.outIndex + (k - 1)) % Capacity
    BY <1>6, <2>1
  <2>3. j - 1 = k - 1
    BY <2>1, <2>2, Fields, DistinctIndices
  <2> QED BY <2>3
<1> HIDE DEF at
<1>7. ASSUME NEW k \in 1 .. b.elements
      PROVE  Written(b, s)[at(k)] = b.data[at(k)]
  <2>1. k \in 1 .. n
    BY <1>2
  <2>2. ASSUME NEW j \in WrittenTo(at(k)) PROVE FALSE
    <3>1. at(b.elements + j) = at(k) /\ b.elements + j \in 1 .. n
      BY <1>2, <1>5
    <3>2. b.elements + j = k
      BY <1>6, <2>1, <3>1
    <3> QED BY <1>2, <3>2
  <2> QED BY <1>3, <1>4, <2>1, <2>2
<1>8. ASSUME NEW k \in 1 .. Len(s)
      PROVE  Written(b, s)[at(b.elements + k)] = s[k]
  <2>1. b.elements + k \in 1 .. n /\ k > Len(s) - Capacity
    BY <1>2, Fields
  <2>2. k \in WrittenTo(at(b.elements + k))
    BY <1>5, <2>1
  <2>3. ASSUME NEW j \in WrittenTo(at(b.elements + k)) PROVE j = k
    <3>1. at(b.elements + j) = at(b.elements + k) /\ b.elements + j \in 1 .. n
      BY <1>2, <1>5
    <3>2. b.elements + j = b.elements + k
      BY <1>6, <2>1, <3>1
    <3> QED BY <1>2, <3>2
  <2>4. (CHOOSE j \in WrittenTo(at(b.elements + k)) : TRUE) = k
    BY <2>2, <2>3
  <2> QED BY <1>3, <1>4, <2>1, <2>2, <2>4
<1>9. Contents(InFrom(b, s)) = [k \in 1 .. n |-> Written(b, s)[at(k)]]
  BY <1>1 DEF Contents, PeekedFrom, at
<1>10. Contents(b) = [k \in 1 .. b.elements |-> b.data[at(k)]]
  BY DEF Contents, PeekedFrom, at
<1>11. /\ Contents(InFrom(b, s)) \in Seq(Octet)
       /\ Len(Contents(InFrom(b, s))) = n
       /\ Contents(b) \in Seq(Octet)
       /\ Len(Contents(b)) = b.elements
  BY <1>1, InFromType, ContentsType
<1>12. /\ Contents(b) \o s \in Seq(Octet)
       /\ Len(Contents(b) \o s) = n
       /\ \A k \in 1 .. n : (Contents(b) \o s)[k] =
            IF k <= b.elements THEN Contents(b)[k] ELSE s[k - b.elements]
  <2> HIDE DEF n
  <2>1. n = Len(Contents(b)) + Len(s)
    BY <1>11 DEF n
  <2> QED BY <1>11, <2>1, ConcatProperties
<1>13. ASSUME NEW k \in 1 .. n
       PROVE  Contents(InFrom(b, s))[k] = (Contents(b) \o s)[k]
  <2>0. /\ Contents(InFrom(b, s))[k] = Written(b, s)[at(k)]
        /\ k <= b.elements \/ k > b.elements
    BY <1>2, <1>9
  <2>1. CASE k <= b.elements
    <3>1. k \in 1 .. b.elements
      BY <1>2, <2>1
    <3>2. Contents(b)[k] = b.data[at(k)]
      BY <1>10, <3>1
    <3> QED BY <1>7, <1>12, <2>0, <2>1, <3>1, <3>2
  <2>2. CASE k > b.elements
    <3>1. k - b.elements \in 1 .. Len(s) /\ b.elements + (k - b.elements) = k
      BY <1>2, <2>2
    <3>2. Written(b, s)[at(k)] = s[k - b.elements]
      BY <1>8, <3>1
    <3> QED BY <1>2, <1>12, <2>0, <2>2, <3>2
  <2> QED BY <2>0, <2>1, <2>2
<1> QED BY <1>11, <1>12, <1>13, SeqEqual

(* The octet at the index of the k-th element is the k-th to be consumed.  *)
LEMMA TurnAt ==
  ASSUME NEW b \in Cyclic, NEW k \in 1 .. Capacity
  PROVE  /\ (b.outIndex + 0 + k - 1) % Capacity \in Index
         /\ Turn(b, (b.outIndex + 0 + k - 1) % Capacity) = k
<1> DEFINE x == b.outIndex + 0 + k - 1
           y == IF x < Capacity THEN x ELSE x - Capacity
<1>1. x \in Int /\ 0 <= x /\ x < 2 * Capacity
  BY Fields
<1>2. x % Capacity = y /\ x % Capacity \in Index
  <2>1. x \in Int /\ -Capacity <= x /\ x < 2 * Capacity /\ ~(x < 0)
    BY <1>1, Fields
  <2> HIDE DEF x
  <2>2. x % Capacity = y
    BY <2>1, WrapOnce
  <2>3. x % Capacity \in Index
    BY <2>1, ModFacts
  <2> QED BY <2>2, <2>3
<1>3. /\ y - b.outIndex \in Int
      /\ -Capacity <= y - b.outIndex
      /\ y - b.outIndex < 2 * Capacity
      /\ y - b.outIndex = IF x < Capacity THEN k - 1 ELSE k - 1 - Capacity
  BY <1>1, Fields
<1>4. (y - b.outIndex) % Capacity = k - 1
  <2> HIDE DEF y
  <2>1. (y - b.outIndex) % Capacity =
          IF y - b.outIndex < 0 THEN y - b.outIndex + Capacity
          ELSE IF y - b.outIndex < Capacity THEN y - b.outIndex
          ELSE y - b.outIndex - Capacity
    BY <1>3, WrapOnce
  <2> QED BY <1>3, <2>1, Fields
<1>5. Turn(b, x % Capacity) = k
  <2> HIDE DEF y
  <2> QED BY <1>2, <1>4 DEF Turn
<1> QED BY <1>2, <1>5

(* Overwriting changes the elements it names, and no other.                *)
LEMMA OverwrittenContents ==
  ASSUME NEW b \in Cyclic, NEW i \in Nat, NEW s \in Seq(Octet),
         i + Len(s) <= b.elements
  PROVE  Contents(Overwritten(b, i, s)) =
           [k \in 1 .. Len(Contents(b)) |->
              IF k \in i + 1 .. i + Len(s) THEN s[k - i] ELSE Contents(b)[k]]
<1> DEFINE at(k) == (b.outIndex + 0 + k - 1) % Capacity
           data == [a \in Index |->
                      IF Turn(b, a) \in i + 1 .. i + Len(s)
                      THEN s[Turn(b, a) - i] ELSE b.data[a]]
<1>1. /\ Overwritten(b, i, s).data = data
      /\ Overwritten(b, i, s).outIndex = b.outIndex
      /\ Overwritten(b, i, s).elements = b.elements
  BY DEF Overwritten, Cyclic
<1>2. Contents(Overwritten(b, i, s)) = [k \in 1 .. b.elements |-> data[at(k)]]
  BY <1>1 DEF Contents, PeekedFrom
<1>3. Contents(b) = [k \in 1 .. b.elements |-> b.data[at(k)]]
  BY DEF Contents, PeekedFrom
<1>4. ASSUME NEW k \in 1 .. b.elements
      PROVE  at(k) \in Index /\ Turn(b, at(k)) = k
  BY TurnAt, Fields
<1> HIDE DEF at
<1>5. ASSUME NEW k \in 1 .. b.elements
      PROVE  data[at(k)] = IF k \in i + 1 .. i + Len(s)
                           THEN s[k - i] ELSE Contents(b)[k]
  BY <1>3, <1>4
<1> HIDE DEF data
<1>6. Len(Contents(b)) = b.elements
  BY ContentsType
<1> QED BY <1>2, <1>5, <1>6

LEMMA ReplacedContents ==
  ASSUME NEW b \in Cyclic, NEW i \in Nat, NEW n \in Nat, i + n <= b.elements,
         NEW match \in Octet, NEW replace \in Octet
  PROVE  Contents(Replaced(b, i, n, match, replace)) =
           [k \in 1 .. Len(Contents(b)) |->
              IF k \in i + 1 .. i + n /\ Contents(b)[k] = match
              THEN replace ELSE Contents(b)[k]]
<1> DEFINE s == [k \in 1 .. n |-> IF PeekedFrom(b, i, n)[k] = match
                                  THEN replace ELSE PeekedFrom(b, i, n)[k]]
<1>1. s \in Seq(Octet) /\ Len(s) = n
  BY PeekedType
<1>2. Contents(Replaced(b, i, n, match, replace)) =
           [k \in 1 .. Len(Contents(b)) |->
              IF k \in i + 1 .. i + n THEN s[k - i] ELSE Contents(b)[k]]
  <2> HIDE DEF s
  <2>1. Replaced(b, i, n, match, replace) = Overwritten(b, i, s)
    BY DEF Replaced, s
  <2>2. /\ i + Len(s) <= b.elements
        /\ i + 1 .. i + Len(s) = i + 1 .. i + n
    BY <1>1
  <2>3. Contents(Overwritten(b, i, s)) =
          [k \in 1 .. Len(Contents(b)) |->
             IF k \in i + 1 .. i + Len(s) THEN s[k - i] ELSE Contents(b)[k]]
    BY <1>1, <2>2, OverwrittenContents
  <2> QED BY <2>1, <2>2, <2>3
<1>3. ASSUME NEW k \in i + 1 .. i + n
      PROVE  s[k - i] = IF Contents(b)[k] = match THEN replace
                                                  ELSE Contents(b)[k]
  <2>1. k - i \in 1 .. n /\ i + (k - i) = k
    OBVIOUS
  <2>2. /\ Contents(b) \in Seq(Octet) /\ b.elements \in Nat
        /\ Len(Contents(b)) = b.elements
    BY ContentsType, Fields
  <2>3. \A j \in i + 1 .. i + n : Contents(b)[j] \in Octet
    BY <2>2, ElementOfSeq
  <2>4. /\ PeekedFrom(b, i, n) = SubSeq(Contents(b), i + 1, i + n)
        /\ SubSeq(Contents(b), i + 1, i + n)[k - i] = Contents(b)[k]
    <3>1. PeekedFrom(b, i, n) = SubSeq(Contents(b), i + 1, i + n)
      BY PeekedElements
    <3>2. \A j \in 1 .. i + n - (i + 1) + 1 :
            SubSeq(Contents(b), i + 1, i + n)[j] = Contents(b)[i + 1 + j - 1]
      <4>1. i + 1 \in Int /\ i + n \in Int
        OBVIOUS
      <4> QED BY <2>3, <4>1, SubSeqProperties
    <3>3. /\ k - i \in 1 .. i + n - (i + 1) + 1
          /\ i + 1 + (k - i) - 1 = k
      BY <2>1
    <3>4. SubSeq(Contents(b), i + 1, i + n)[k - i]
            = Contents(b)[i + 1 + (k - i) - 1]
      BY <3>2, <3>3
    <3> QED BY <3>1, <3>3, <3>4
  <2> QED BY <2>1, <2>4
<1> HIDE DEF s
<1> QED BY <1>2, <1>3

LEMMA EmptyContents ==
  /\ Contents(Cleared) = <<>>
  /\ \A data \in [Index -> Octet] : Contents(Initialised(data)) = <<>>
  /\ \A b \in Cyclic : Contents(Discarded(b)) = <<>>
<1>1. ASSUME NEW b \in Cyclic, b.elements = 0
      PROVE  Contents(b) = <<>>
  BY <1>1, ContentsType, EmptySeq
<1>2. Cleared \in Cyclic /\ Cleared.elements = 0
  BY CyclicAssumption DEF Cleared, Cyclic, Index
<1>3. ASSUME NEW data \in [Index -> Octet]
      PROVE  Initialised(data) \in Cyclic /\ Initialised(data).elements = 0
  BY CyclicAssumption DEF Initialised, Cleared, Cyclic, Index
<1>4. ASSUME NEW b \in Cyclic
      PROVE  Discarded(b) \in Cyclic /\ Discarded(b).elements = 0
  BY DiscardedType DEF Discarded, Cyclic
<1> QED BY <1>1, <1>2, <1>3, <1>4

=============================================================================

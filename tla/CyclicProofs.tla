---------------------------- MODULE CyclicProofs ----------------------------
(***************************************************************************)
(* Proofs about CyclicBuffer, for every capacity and every set of octets.  *)
(***************************************************************************)
EXTENDS CyclicBuffer, CyclicLemmas

(* Every operation keeps the types, and Capacity bounds the elements.      *)
THEOREM TypeCorrect == Spec => []TypeOK
<1>1. Init => TypeOK
  BY CyclicAssumption DEF Init, Initialised, Cleared, TypeOK, Cyclic, Index
<1>2. TypeOK /\ [Next]_vars => TypeOK'
  <2> SUFFICES ASSUME TypeOK, [Next]_vars PROVE TypeOK'
    OBVIOUS
  <2> USE DEF TypeOK
  <2>1. ASSUME NEW s \in Batches,
               InFromBuffer(s) \/ InFromStream(s) \/ InFromParsedStringArgs(s)
        PROVE  TypeOK'
    BY <2>1, BatchesAssumption, InFromType
       DEF InFromBuffer, InFromStream, InFromParsedStringArgs, Called
  <2>2. ASSUME NEW s \in Batches, NEW i \in Index, OverwriteFromBuffer(i, s)
        PROVE  TypeOK'
    BY <2>2, BatchesAssumption, OverwrittenType, CyclicAssumption
       DEF OverwriteFromBuffer, Called, Index
  <2>3. ASSUME NEW n \in 0 .. Capacity, OutToBuffer(n) \/ OutToStream(n)
        PROVE  TypeOK'
    BY <2>3, OutToType, PeekedType, CyclicAssumption
       DEF OutToBuffer, OutToStream, Called
  <2>4. ASSUME NEW n \in 0 .. Capacity, NEW i \in Index, PeekToBuffer(i, n)
        PROVE  TypeOK'
    BY <2>4, PeekedType, CyclicAssumption DEF PeekToBuffer, Called, Index
  <2>5. ASSUME NEW n \in 0 .. Capacity, NEW i \in Index,
               NEW match \in Octet, NEW replace \in Octet,
               Replace(i, n, match, replace)
        PROVE  TypeOK'
    BY <2>5, ReplacedType, CyclicAssumption DEF Replace, Called, Index
  <2>6. CASE Discard
    BY <2>6, DiscardedType DEF Discard, Called
  <2>7. CASE Reset
    BY <2>7, CyclicAssumption DEF Reset, Cleared, Called, Cyclic, Index
  <2>8. CASE UNCHANGED vars
    BY <2>8 DEF vars
  <2> QED BY <2>1, <2>2, <2>3, <2>4, <2>5, <2>6, <2>7, <2>8 DEF Next
<1> QED BY <1>1, <1>2, PTL DEF Spec

(* The counters of a buffer that is never filled over stay in agreement.   *)
THEOREM CountersAgree ==
  ASSUME ChecksAvailable
  PROVE  Spec => []IndicesAgree
<1>1. Init => IndicesAgree
  BY ClearedAgrees DEF Init, Agree, IndicesAgree
<1>2. TypeOK /\ IndicesAgree /\ [Next]_vars => IndicesAgree'
  <2> SUFFICES ASSUME TypeOK, Agree(c), [Next]_vars PROVE Agree(c')
    BY DEF Agree, IndicesAgree
  <2>0. c \in Cyclic
    BY DEF TypeOK
  <2>1. ASSUME NEW s \in Batches,
               InFromBuffer(s) \/ InFromStream(s) \/ InFromParsedStringArgs(s)
        PROVE  Agree(c')
    BY <2>0, <2>1, BatchesAssumption, InFromAgrees
       DEF InFromBuffer, InFromStream, InFromParsedStringArgs, MayInsert
  <2>2. ASSUME NEW s \in Batches, NEW i \in Index, OverwriteFromBuffer(i, s)
        PROVE  Agree(c')
    BY <2>0, <2>2, OverwrittenAgrees DEF OverwriteFromBuffer
  <2>3. ASSUME NEW n \in 0 .. Capacity, OutToBuffer(n) \/ OutToStream(n)
        PROVE  Agree(c')
    BY <2>0, <2>3, OutToAgrees, CyclicAssumption DEF OutToBuffer, OutToStream
  <2>4. ASSUME NEW n \in 0 .. Capacity, NEW i \in Index, PeekToBuffer(i, n)
        PROVE  Agree(c')
    BY <2>4 DEF PeekToBuffer
  <2>5. ASSUME NEW n \in 0 .. Capacity, NEW i \in Index,
               NEW match \in Octet, NEW replace \in Octet,
               Replace(i, n, match, replace)
        PROVE  Agree(c')
    BY <2>0, <2>5, OverwrittenAgrees DEF Replace, Replaced
  <2>6. CASE Discard
    BY <2>0, <2>6, DiscardedAgrees DEF Discard
  <2>7. CASE Reset
    BY <2>7, ClearedAgrees DEF Reset
  <2>8. CASE UNCHANGED vars
    BY <2>8 DEF vars
  <2> QED BY <2>1, <2>2, <2>3, <2>4, <2>5, <2>6, <2>7, <2>8 DEF Next
<1> QED BY <1>1, <1>2, TypeCorrect, PTL DEF Spec

-----------------------------------------------------------------------------
(***************************************************************************)
(* A buffer whose caller checks CYCLIC_Available is the queue of Fifo:     *)
(* octets come out in the order they went in, none twice, none lost.       *)
(***************************************************************************)
THEOREM ImplementsFifo ==
  ASSUME ChecksAvailable
  PROVE  Spec => IsFifo
<1>1. Init => Queue!Init
  BY EmptyContents DEF Init, Queue!Init
<1>2. TypeOK /\ IndicesAgree /\ [Next]_vars => [Queue!Next]_(Queue!vars)
  <2> SUFFICES ASSUME TypeOK, Agree(c), [Next]_vars
               PROVE  Queue!Next \/ UNCHANGED <<Contents(c), call>>
    BY DEF Agree, IndicesAgree, Queue!vars
  <2>0. /\ c \in Cyclic
        /\ Contents(c) \in Seq(Octet) /\ Len(Contents(c)) = c.elements
        /\ c.elements \in Nat /\ c.elements <= Capacity
        /\ Capacity \in Nat
    BY ContentsType, Fields, CyclicAssumption DEF TypeOK
  <2>1. ASSUME NEW s \in Batches, Len(s) <= Available(c),
               c' = InFrom(c, s) \/ c' = InFromPieces(c, s),
               call' = [op |-> "Insert", octets |-> s]
        PROVE  Queue!Insert
    <3>1. s \in Seq(Octet)
      BY BatchesAssumption
    <3>2. Contents(InFrom(c, s)) = Contents(c) \o s
      BY <2>0, <2>1, <3>1, InsertedContents
    <3>3. Contents(InFromPieces(c, s)) = Contents(InFrom(c, s))
      BY DEF InFromPieces, InFrom, Contents, PeekedFrom
    <3>4. Len(Contents(c) \o s) = c.elements + Len(s)
      BY <2>0, <3>1, ConcatProperties
    <3>5. Queue!Newest(Contents(c) \o s) = Contents(c) \o s
      BY <2>0, <2>1, <3>1, <3>4 DEF Queue!Newest, Available
    <3>6. Contents(c)' = Contents(c) \o s
      BY <2>1, <3>2, <3>3
    <3> QED BY <2>1, <3>5, <3>6 DEF Queue!Insert, Queue!Called
  <2>2. ASSUME NEW s \in Batches,
               InFromBuffer(s) \/ InFromStream(s) \/ InFromParsedStringArgs(s)
        PROVE  Queue!Insert
    <3>1. /\ Len(s) <= Available(c)
          /\ call' = [op |-> "Insert", octets |-> s]
      BY <2>2 DEF InFromBuffer, InFromStream, InFromParsedStringArgs,
                  MayInsert, Called
    <3>2. CASE c' = InFrom(c, s) \/ c' = InFromPieces(c, s)
      BY <2>1, <3>1, <3>2
    <3>3. CASE s = <<>> /\ c' = c
      <4>1. Contents(c) \o s = Contents(c)
        BY <2>0, <3>3, ConcatEmptySeq
      <4>2. Queue!Newest(Contents(c) \o s) = Contents(c)
        BY <2>0, <4>1 DEF Queue!Newest
      <4> QED BY <3>1, <3>3, <4>2 DEF Queue!Insert, Queue!Called
    <3> QED BY <2>2, <3>2, <3>3
            DEF InFromBuffer, InFromStream, InFromParsedStringArgs
  <2>3. ASSUME NEW s \in Batches, NEW i \in Index, OverwriteFromBuffer(i, s)
        PROVE  Queue!Overwrite
    <3>1. s \in Seq(Octet) /\ i \in Nat /\ i + Len(s) <= c.elements
      BY <2>3, BatchesAssumption DEF OverwriteFromBuffer, Index
    <3>2. Contents(c)' =
            [k \in 1 .. Len(Contents(c)) |->
               IF k \in i + 1 .. i + Len(s) THEN s[k - i] ELSE Contents(c)[k]]
      BY <2>0, <2>3, <3>1, OverwrittenContents DEF OverwriteFromBuffer
    <3>3. i \in 0 .. Len(Contents(c)) /\ i + Len(s) <= Len(Contents(c))
      BY <2>0, <3>1
    <3> QED BY <2>3, <3>2, <3>3
            DEF OverwriteFromBuffer, Called, Queue!Overwrite, Queue!Called
  <2>4. ASSUME NEW n \in 0 .. Capacity, OutToBuffer(n) \/ OutToStream(n)
        PROVE  Queue!Consume
    <3>1. n \in Nat /\ n \in 0 .. Len(Contents(c)) /\ n <= c.elements
      BY <2>0, <2>4 DEF OutToBuffer, OutToStream
    <3>2. Contents(c)' = SubSeq(Contents(c), n + 1, Len(Contents(c)))
      BY <2>0, <2>4, <3>1, ConsumedContents DEF OutToBuffer, OutToStream
    <3>3. PeekedFrom(c, 0, n) = SubSeq(Contents(c), 0 + 1, 0 + n)
      BY <2>0, <3>1, PeekedElements
    <3>4. 0 + 1 = 1 /\ 0 + n = n
      BY <3>1
    <3> QED BY <2>4, <3>1, <3>2, <3>3, <3>4
            DEF OutToBuffer, OutToStream, Called, Queue!Consume, Queue!Called
  <2>5. ASSUME NEW n \in 0 .. Capacity, NEW i \in Index, PeekToBuffer(i, n)
        PROVE  Queue!Peek
    <3>1. /\ i \in 0 .. Len(Contents(c)) /\ n \in 0 .. Len(Contents(c))
          /\ i + n <= Len(Contents(c))
          /\ i \in Nat /\ n \in Nat
      BY <2>0, <2>5 DEF PeekToBuffer, Index
    <3>2. PeekedFrom(c, i, n) = SubSeq(Contents(c), i + 1, i + n)
      BY <2>0, <3>1, PeekedElements
    <3> QED BY <2>5, <3>1, <3>2
            DEF PeekToBuffer, Called, Queue!Peek, Queue!Called
  <2>6. ASSUME NEW n \in 0 .. Capacity, NEW i \in Index,
               NEW match \in Octet, NEW replace \in Octet,
               Replace(i, n, match, replace)
        PROVE  Queue!Replace
    <3>1. /\ i \in 0 .. Len(Contents(c)) /\ n \in 0 .. Len(Contents(c))
          /\ i + n <= Len(Contents(c))
          /\ i \in Nat /\ n \in Nat
      BY <2>0, <2>6 DEF Replace, Index
    <3>2. Contents(c)' =
            [k \in 1 .. Len(Contents(c)) |->
               IF k \in i + 1 .. i + n /\ Contents(c)[k] = match
               THEN replace ELSE Contents(c)[k]]
      <4>1. i + n <= c.elements /\ c' = Replaced(c, i, n, match, replace)
        BY <2>6 DEF Replace
      <4>2. Contents(Replaced(c, i, n, match, replace)) =
              [k \in 1 .. Len(Contents(c)) |->
                 IF k \in i + 1 .. i + n /\ Contents(c)[k] = match
                 THEN replace ELSE Contents(c)[k]]
        <5>1. c \in Cyclic /\ i \in Nat /\ n \in Nat /\ i + n <= c.elements
          BY <2>0, <3>1, <4>1
        <5> QED BY <5>1, ReplacedContents
      <4> QED BY <4>1, <4>2
    <3>3. Queue!Called("Replace", <<match, replace>>)
      BY <2>6 DEF Replace, Called, Queue!Called
    <3> DEFINE With(j, m, old, new) ==
                 [k \in 1 .. Len(Contents(c)) |->
                    IF k \in j + 1 .. j + m /\ Contents(c)[k] = old
                    THEN new ELSE Contents(c)[k]]
    <3>4. Contents(c)' = With(i, n, match, replace)
      BY <3>2
    <3> HIDE DEF With
    <3>5. \E j, m \in 0 .. Len(Contents(c)), old, new \in Octet :
            /\ j + m <= Len(Contents(c))
            /\ Queue!Called("Replace", <<old, new>>)
            /\ Contents(c)' = With(j, m, old, new)
      BY <3>1, <3>3, <3>4
    <3> QED BY <3>5 DEF Queue!Replace, With
  <2>7. ASSUME Discard \/ Reset
        PROVE  Queue!Clear
    <3>1. Contents(c)' = <<>>
      BY <2>0, <2>7, EmptyContents DEF Discard, Reset
    <3> QED BY <2>7, <3>1 DEF Discard, Reset, Called, Queue!Clear, Queue!Called
  <2>8. CASE UNCHANGED vars
    BY <2>8 DEF vars
  <2> QED BY <2>2, <2>3, <2>4, <2>5, <2>6, <2>7, <2>8
          DEF Next, Queue!Next
<1> QED BY <1>1, <1>2, TypeCorrect, CountersAgree, PTL
        DEF Spec, IsFifo, Queue!Spec

=============================================================================

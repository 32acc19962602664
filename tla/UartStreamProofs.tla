-------------------------- MODULE UartStreamProofs --------------------------
(***************************************************************************)
(* Proofs about UartStream, for buffers of any capacity and any number of  *)
(* octets sent and received.                                               *)
(***************************************************************************)
EXTENDS UartStream, SequenceTheorems, TLAPS

SendLemmas == INSTANCE CyclicLemmas WITH
  Capacity <- SendCapacity, Octet <- Octets, Zero <- 0
RecvLemmas == INSTANCE CyclicLemmas WITH
  Capacity <- RecvCapacity, Octet <- Octets, Zero <- 0

-----------------------------------------------------------------------------
(* The two buffers.                                                        *)

SendAgrees(b) == b.inIndex = (b.outIndex + b.elements) % SendCapacity
RecvAgrees(b) == b.inIndex = (b.outIndex + b.elements) % RecvCapacity

LEMMA FunctionIsSequence ==
  ASSUME NEW n \in Nat, NEW f \in [1 .. n -> Octets]
  PROVE  f \in Seq(Octets) /\ Len(f) = n
OBVIOUS

LEMMA ConcatSecond ==
  ASSUME NEW s \in Seq(Octets), NEW t \in Seq(Octets), NEW k \in Nat,
         k - Len(s) \in 1 .. Len(t)
  PROVE  (s \o t)[k] = t[k - Len(s)]
OBVIOUS

LEMMA OneOctet ==
  ASSUME NEW s \in Seq(Octets), s # <<>>, Len(s) <= 1
  PROVE  Len(s) = 1
<1>1. Len(s) # 0 /\ Len(s) \in Nat
  BY EmptySeq
<1> QED BY <1>1

(* Octets that go on counting where others end.                            *)
LEMMA CountOn ==
  ASSUME NEW s \in Seq(Octets), NEW t \in Seq(Octets), InSequence(s),
         \A k \in 1 .. Len(t) : t[k] = Len(s) + k
  PROVE  /\ s \o t \in Seq(Octets)
         /\ Len(s \o t) = Len(s) + Len(t)
         /\ InSequence(s \o t)
<1>1. s \o t \in Seq(Octets) /\ Len(s \o t) = Len(s) + Len(t)
  OBVIOUS
<1>2. ASSUME NEW k \in 1 .. Len(s) + Len(t) PROVE (s \o t)[k] = k
  <2>1. CASE k <= Len(s)
    BY <2>1 DEF InSequence
  <2>2. CASE k > Len(s)
    <3>1. k - Len(s) \in 1 .. Len(t)
      BY <2>2
    <3>2. (s \o t)[k] = t[k - Len(s)]
      BY <3>1, ConcatSecond
    <3> QED BY <3>1, <3>2
  <2> QED BY <2>1, <2>2
<1> QED BY <1>1, <1>2 DEF InSequence

LEMMA ConcatFirst ==
  ASSUME NEW s \in Seq(Octets), NEW t \in Seq(Octets), NEW k \in 1 .. Len(s)
  PROVE  (s \o t)[k] = s[k]
OBVIOUS

(* The lemmas are about the operators that the driver uses.                *)
LEMMA SendSame ==
  /\ SendLemmas!CyclicAssumption
  /\ SendLemmas!Cyclic = Send!Cyclic
  /\ SendLemmas!Cleared = Send!Cleared
  /\ \A b : SendLemmas!Available(b) = Send!Available(b)
  /\ \A b : SendLemmas!Contents(b) = Send!Contents(b)
  /\ \A b, i, n : SendLemmas!PeekedFrom(b, i, n) = Send!PeekedFrom(b, i, n)
  /\ \A b, s : SendLemmas!InFrom(b, s) = Send!InFrom(b, s)
  /\ \A b, n : SendLemmas!OutTo(b, n) = Send!OutTo(b, n)
  /\ \A b : SendLemmas!Agree(b) <=> SendAgrees(b)
<1>1. SendLemmas!CyclicAssumption
  BY UartAssumption DEF SendLemmas!CyclicAssumption, Octets
<1>2. SendLemmas!Cyclic = Send!Cyclic
  BY DEF SendLemmas!Cyclic, Send!Cyclic, SendLemmas!Index, Send!Index
<1>3. SendLemmas!Cleared = Send!Cleared
  BY DEF SendLemmas!Cleared, Send!Cleared, SendLemmas!Index, Send!Index
<1>4. \A b : SendLemmas!Available(b) = Send!Available(b)
  BY DEF SendLemmas!Available, Send!Available
<1>5. \A b, i, n : SendLemmas!PeekedFrom(b, i, n) = Send!PeekedFrom(b, i, n)
  BY DEF SendLemmas!PeekedFrom, Send!PeekedFrom
<1>6. \A b : SendLemmas!Contents(b) = Send!Contents(b)
  BY <1>5 DEF SendLemmas!Contents, Send!Contents
<1>7. \A b, s : SendLemmas!Written(b, s) = Send!Written(b, s)
  BY DEF SendLemmas!Written, Send!Written, SendLemmas!Index, Send!Index
<1>8. \A b, n : SendLemmas!ElementsAfter(b, n) = Send!ElementsAfter(b, n)
  BY <1>4 DEF SendLemmas!ElementsAfter, Send!ElementsAfter
<1>9. \A b, s : SendLemmas!InFrom(b, s) = Send!InFrom(b, s)
  BY <1>7, <1>8 DEF SendLemmas!InFrom, Send!InFrom
<1>10. \A b, n : SendLemmas!OutTo(b, n) = Send!OutTo(b, n)
  BY DEF SendLemmas!OutTo, Send!OutTo
<1>11. \A b : SendLemmas!Agree(b) <=> SendAgrees(b)
  BY DEF SendLemmas!Agree, SendAgrees
<1> QED BY <1>1, <1>2, <1>3, <1>4, <1>5, <1>6, <1>9, <1>10, <1>11

(* What is known of the send buffer.                                       *)
LEMMA SendBuffer ==
  ASSUME NEW b \in Send!Cyclic
  PROVE  /\ b.elements \in 0 .. SendCapacity
         /\ Send!Contents(b) \in Seq(Octets)
         /\ Len(Send!Contents(b)) = b.elements
<1>1. b \in SendLemmas!Cyclic
  BY SendSame
<1>2. SendLemmas!Contents(b) \in Seq(Octets)
      /\ Len(SendLemmas!Contents(b)) = b.elements
  BY <1>1, SendSame, SendLemmas!ContentsType
<1> QED BY <1>1, <1>2, SendSame, UartAssumption DEF Send!Cyclic

LEMMA SendTyped ==
  ASSUME NEW b \in Send!Cyclic
  PROVE  /\ \A s \in Seq(Octets) :
              /\ Send!InFrom(b, s) \in Send!Cyclic
              /\ Send!InFrom(b, s).elements >= b.elements
              /\ Send!InFrom(b, s).elements <= b.elements + Len(s)
         /\ b.elements > 0 => Send!OutTo(b, 1) \in Send!Cyclic
         /\ Send!OutTo(b, 1).elements = b.elements - 1
         /\ Send!PeekedFrom(b, 0, 1) \in Seq(Octets)
         /\ Len(Send!PeekedFrom(b, 0, 1)) = 1
<1>1. b \in SendLemmas!Cyclic /\ 0 \in Nat /\ 1 \in Nat
      /\ b.elements \in 0 .. SendCapacity
  BY SendSame, SendBuffer
<1>2. ASSUME NEW s \in Seq(Octets)
      PROVE  /\ Send!InFrom(b, s) \in Send!Cyclic
             /\ Send!InFrom(b, s).elements >= b.elements
             /\ Send!InFrom(b, s).elements <= b.elements + Len(s)
  <2>1. SendLemmas!InFrom(b, s) \in SendLemmas!Cyclic
    BY <1>1, SendSame, SendLemmas!InFromType
  <2>2. Send!InFrom(b, s).elements = Send!ElementsAfter(b, Len(s))
    BY DEF Send!InFrom, Send!Cyclic
  <2>3. Send!ElementsAfter(b, Len(s)) >= b.elements
        /\ Send!ElementsAfter(b, Len(s)) <= b.elements + Len(s)
    BY <1>1, UartAssumption DEF Send!ElementsAfter, Send!Available
  <2> QED BY <2>1, <2>2, <2>3, SendSame
<1>3. b.elements > 0 => SendLemmas!OutTo(b, 1) \in SendLemmas!Cyclic
  <2>1. b.elements > 0 => 1 <= b.elements
    BY <1>1, UartAssumption
  <2> QED BY <1>1, <2>1, SendSame, SendLemmas!OutToType
<1>4. Send!OutTo(b, 1).elements = b.elements - 1
  BY DEF Send!OutTo, Send!Cyclic
<1>5. SendLemmas!PeekedFrom(b, 0, 1) \in [1 .. 1 -> Octets]
  BY <1>1, SendSame, SendLemmas!PeekedType
<1>6. Send!PeekedFrom(b, 0, 1) \in [1 .. 1 -> Octets]
  BY <1>5, SendSame
<1>7. Send!PeekedFrom(b, 0, 1) \in Seq(Octets)
      /\ Len(Send!PeekedFrom(b, 0, 1)) = 1
  BY <1>1, <1>6, FunctionIsSequence
<1>8. b.elements > 0 => Send!OutTo(b, 1) \in Send!Cyclic
  BY <1>3, SendSame
<1> QED BY <1>2, <1>4, <1>7, <1>8

LEMMA SendInserted ==
  ASSUME NEW b \in Send!Cyclic, SendAgrees(b), NEW s \in Seq(Octets),
         Len(s) <= Send!Available(b)
  PROVE  /\ Send!InFrom(b, s) \in Send!Cyclic
         /\ SendAgrees(Send!InFrom(b, s))
         /\ Send!InFrom(b, s).elements = b.elements + Len(s)
         /\ Send!Contents(Send!InFrom(b, s)) = Send!Contents(b) \o s
<1>1. b \in SendLemmas!Cyclic /\ SendLemmas!Agree(b)
      /\ Len(s) <= SendLemmas!Available(b)
  BY SendSame
<1>2. SendLemmas!InFrom(b, s) \in SendLemmas!Cyclic
  BY <1>1, SendSame, SendLemmas!InFromType
<1>3. SendLemmas!Agree(SendLemmas!InFrom(b, s))
  BY <1>1, SendSame, SendLemmas!InFromAgrees
<1>4. SendLemmas!Contents(SendLemmas!InFrom(b, s)) = SendLemmas!Contents(b) \o s
  BY <1>1, SendSame, SendLemmas!InsertedContents
<1>5. Send!InFrom(b, s).elements = b.elements + Len(s)
  BY SendBuffer, UartAssumption
     DEF Send!InFrom, Send!ElementsAfter, Send!Available, Send!Cyclic
<1> QED BY <1>2, <1>3, <1>4, <1>5, SendSame

LEMMA SendConsumed ==
  ASSUME NEW b \in Send!Cyclic, SendAgrees(b), b.elements > 0
  PROVE  /\ Send!OutTo(b, 1) \in Send!Cyclic
         /\ SendAgrees(Send!OutTo(b, 1))
         /\ Send!OutTo(b, 1).elements = b.elements - 1
         /\ Send!PeekedFrom(b, 0, 1) = <<Send!Contents(b)[1]>>
         /\ \A k \in 1 .. b.elements - 1 :
              Send!Contents(Send!OutTo(b, 1))[k] = Send!Contents(b)[k + 1]
<1>1. b \in SendLemmas!Cyclic /\ SendLemmas!Agree(b) /\ 1 \in Nat
      /\ 0 \in Nat /\ 0 + 1 <= b.elements /\ 1 <= b.elements
      /\ b.elements \in Nat
  BY SendSame, SendBuffer, UartAssumption
<1>2. SendLemmas!OutTo(b, 1) \in SendLemmas!Cyclic
  BY <1>1, SendSame, SendLemmas!OutToType
<1>3. SendLemmas!Agree(SendLemmas!OutTo(b, 1))
  BY <1>1, SendSame, SendLemmas!OutToAgrees
<1>4. SendLemmas!Contents(SendLemmas!OutTo(b, 1))
        = SubSeq(SendLemmas!Contents(b), 1 + 1, Len(SendLemmas!Contents(b)))
  BY <1>1, SendSame, SendLemmas!ConsumedContents
<1>5. SendLemmas!PeekedFrom(b, 0, 1) = SubSeq(SendLemmas!Contents(b), 0 + 1, 0 + 1)
  BY <1>1, SendSame, SendLemmas!PeekedElements
<1>6. Send!OutTo(b, 1).elements = b.elements - 1
  BY DEF Send!OutTo, Send!Cyclic
<1>7. Send!Contents(b) \in Seq(Octets) /\ Len(Send!Contents(b)) = b.elements
  BY SendBuffer
<1>8. Send!PeekedFrom(b, 0, 1) = <<Send!Contents(b)[1]>>
  BY <1>1, <1>5, <1>7, SendSame
<1>9. \A k \in 1 .. b.elements - 1 :
        Send!Contents(Send!OutTo(b, 1))[k] = Send!Contents(b)[k + 1]
  BY <1>1, <1>4, <1>7, SendSame
<1> QED BY <1>2, <1>3, <1>6, <1>8, <1>9, SendSame

(* The same of the receive buffer.                                         *)
LEMMA RecvSame ==
  /\ RecvLemmas!CyclicAssumption
  /\ RecvLemmas!Cyclic = Recv!Cyclic
  /\ RecvLemmas!Cleared = Recv!Cleared
  /\ \A b : RecvLemmas!Available(b) = Recv!Available(b)
  /\ \A b : RecvLemmas!Contents(b) = Recv!Contents(b)
  /\ \A b, i, n : RecvLemmas!PeekedFrom(b, i, n) = Recv!PeekedFrom(b, i, n)
  /\ \A b, s : RecvLemmas!InFrom(b, s) = Recv!InFrom(b, s)
  /\ \A b, n : RecvLemmas!OutTo(b, n) = Recv!OutTo(b, n)
  /\ \A b : RecvLemmas!Agree(b) <=> RecvAgrees(b)
<1>1. RecvLemmas!CyclicAssumption
  BY UartAssumption DEF RecvLemmas!CyclicAssumption, Octets
<1>2. RecvLemmas!Cyclic = Recv!Cyclic
  BY DEF RecvLemmas!Cyclic, Recv!Cyclic, RecvLemmas!Index, Recv!Index
<1>3. RecvLemmas!Cleared = Recv!Cleared
  BY DEF RecvLemmas!Cleared, Recv!Cleared, RecvLemmas!Index, Recv!Index
<1>4. \A b : RecvLemmas!Available(b) = Recv!Available(b)
  BY DEF RecvLemmas!Available, Recv!Available
<1>5. \A b, i, n : RecvLemmas!PeekedFrom(b, i, n) = Recv!PeekedFrom(b, i, n)
  BY DEF RecvLemmas!PeekedFrom, Recv!PeekedFrom
<1>6. \A b : RecvLemmas!Contents(b) = Recv!Contents(b)
  BY <1>5 DEF RecvLemmas!Contents, Recv!Contents
<1>7. \A b, s : RecvLemmas!Written(b, s) = Recv!Written(b, s)
  BY DEF RecvLemmas!Written, Recv!Written, RecvLemmas!Index, Recv!Index
<1>8. \A b, n : RecvLemmas!ElementsAfter(b, n) = Recv!ElementsAfter(b, n)
  BY <1>4 DEF RecvLemmas!ElementsAfter, Recv!ElementsAfter
<1>9. \A b, s : RecvLemmas!InFrom(b, s) = Recv!InFrom(b, s)
  BY <1>7, <1>8 DEF RecvLemmas!InFrom, Recv!InFrom
<1>10. \A b, n : RecvLemmas!OutTo(b, n) = Recv!OutTo(b, n)
  BY DEF RecvLemmas!OutTo, Recv!OutTo
<1>11. \A b : RecvLemmas!Agree(b) <=> RecvAgrees(b)
  BY DEF RecvLemmas!Agree, RecvAgrees
<1> QED BY <1>1, <1>2, <1>3, <1>4, <1>5, <1>6, <1>9, <1>10, <1>11

LEMMA RecvBuffer ==
  ASSUME NEW b \in Recv!Cyclic
  PROVE  /\ b.elements \in 0 .. RecvCapacity
         /\ Recv!Contents(b) \in Seq(Octets)
         /\ Len(Recv!Contents(b)) = b.elements
<1>1. b \in RecvLemmas!Cyclic
  BY RecvSame
<1>2. RecvLemmas!Contents(b) \in Seq(Octets)
      /\ Len(RecvLemmas!Contents(b)) = b.elements
  BY <1>1, RecvSame, RecvLemmas!ContentsType
<1> QED BY <1>1, <1>2, RecvSame, UartAssumption DEF Recv!Cyclic

LEMMA RecvTyped ==
  ASSUME NEW b \in Recv!Cyclic
  PROVE  /\ \A s \in Seq(Octets) :
              /\ Recv!InFrom(b, s) \in Recv!Cyclic
              /\ Recv!InFrom(b, s).elements >= b.elements
              /\ Recv!InFrom(b, s).elements <= b.elements + Len(s)
         /\ b.elements > 0 => Recv!OutTo(b, 1) \in Recv!Cyclic
         /\ Recv!OutTo(b, 1).elements = b.elements - 1
         /\ Recv!PeekedFrom(b, 0, 1) \in Seq(Octets)
         /\ Len(Recv!PeekedFrom(b, 0, 1)) = 1
<1>1. b \in RecvLemmas!Cyclic /\ 0 \in Nat /\ 1 \in Nat
      /\ b.elements \in 0 .. RecvCapacity
  BY RecvSame, RecvBuffer
<1>2. ASSUME NEW s \in Seq(Octets)
      PROVE  /\ Recv!InFrom(b, s) \in Recv!Cyclic
             /\ Recv!InFrom(b, s).elements >= b.elements
             /\ Recv!InFrom(b, s).elements <= b.elements + Len(s)
  <2>1. RecvLemmas!InFrom(b, s) \in RecvLemmas!Cyclic
    BY <1>1, RecvSame, RecvLemmas!InFromType
  <2>2. Recv!InFrom(b, s).elements = Recv!ElementsAfter(b, Len(s))
    BY DEF Recv!InFrom, Recv!Cyclic
  <2>3. Recv!ElementsAfter(b, Len(s)) >= b.elements
        /\ Recv!ElementsAfter(b, Len(s)) <= b.elements + Len(s)
    BY <1>1, UartAssumption DEF Recv!ElementsAfter, Recv!Available
  <2> QED BY <2>1, <2>2, <2>3, RecvSame
<1>3. b.elements > 0 => RecvLemmas!OutTo(b, 1) \in RecvLemmas!Cyclic
  <2>1. b.elements > 0 => 1 <= b.elements
    BY <1>1, UartAssumption
  <2> QED BY <1>1, <2>1, RecvSame, RecvLemmas!OutToType
<1>4. Recv!OutTo(b, 1).elements = b.elements - 1
  BY DEF Recv!OutTo, Recv!Cyclic
<1>5. RecvLemmas!PeekedFrom(b, 0, 1) \in [1 .. 1 -> Octets]
  BY <1>1, RecvSame, RecvLemmas!PeekedType
<1>6. Recv!PeekedFrom(b, 0, 1) \in [1 .. 1 -> Octets]
  BY <1>5, RecvSame
<1>7. Recv!PeekedFrom(b, 0, 1) \in Seq(Octets)
      /\ Len(Recv!PeekedFrom(b, 0, 1)) = 1
  BY <1>1, <1>6, FunctionIsSequence
<1>8. b.elements > 0 => Recv!OutTo(b, 1) \in Recv!Cyclic
  BY <1>3, RecvSame
<1> QED BY <1>2, <1>4, <1>7, <1>8

LEMMA RecvInserted ==
  ASSUME NEW b \in Recv!Cyclic, RecvAgrees(b), NEW s \in Seq(Octets),
         Len(s) <= Recv!Available(b)
  PROVE  /\ Recv!InFrom(b, s) \in Recv!Cyclic
         /\ RecvAgrees(Recv!InFrom(b, s))
         /\ Recv!InFrom(b, s).elements = b.elements + Len(s)
         /\ Recv!Contents(Recv!InFrom(b, s)) = Recv!Contents(b) \o s
<1>1. b \in RecvLemmas!Cyclic /\ RecvLemmas!Agree(b)
      /\ Len(s) <= RecvLemmas!Available(b)
  BY RecvSame
<1>2. RecvLemmas!InFrom(b, s) \in RecvLemmas!Cyclic
  BY <1>1, RecvSame, RecvLemmas!InFromType
<1>3. RecvLemmas!Agree(RecvLemmas!InFrom(b, s))
  BY <1>1, RecvSame, RecvLemmas!InFromAgrees
<1>4. RecvLemmas!Contents(RecvLemmas!InFrom(b, s)) = RecvLemmas!Contents(b) \o s
  BY <1>1, RecvSame, RecvLemmas!InsertedContents
<1>5. Recv!InFrom(b, s).elements = b.elements + Len(s)
  BY RecvBuffer, UartAssumption
     DEF Recv!InFrom, Recv!ElementsAfter, Recv!Available, Recv!Cyclic
<1> QED BY <1>2, <1>3, <1>4, <1>5, RecvSame

LEMMA RecvConsumed ==
  ASSUME NEW b \in Recv!Cyclic, RecvAgrees(b), b.elements > 0
  PROVE  /\ Recv!OutTo(b, 1) \in Recv!Cyclic
         /\ RecvAgrees(Recv!OutTo(b, 1))
         /\ Recv!OutTo(b, 1).elements = b.elements - 1
         /\ Recv!PeekedFrom(b, 0, 1) = <<Recv!Contents(b)[1]>>
         /\ \A k \in 1 .. b.elements - 1 :
              Recv!Contents(Recv!OutTo(b, 1))[k] = Recv!Contents(b)[k + 1]
<1>1. b \in RecvLemmas!Cyclic /\ RecvLemmas!Agree(b) /\ 1 \in Nat
      /\ 0 \in Nat /\ 0 + 1 <= b.elements /\ 1 <= b.elements
      /\ b.elements \in Nat
  BY RecvSame, RecvBuffer, UartAssumption
<1>2. RecvLemmas!OutTo(b, 1) \in RecvLemmas!Cyclic
  BY <1>1, RecvSame, RecvLemmas!OutToType
<1>3. RecvLemmas!Agree(RecvLemmas!OutTo(b, 1))
  BY <1>1, RecvSame, RecvLemmas!OutToAgrees
<1>4. RecvLemmas!Contents(RecvLemmas!OutTo(b, 1))
        = SubSeq(RecvLemmas!Contents(b), 1 + 1, Len(RecvLemmas!Contents(b)))
  BY <1>1, RecvSame, RecvLemmas!ConsumedContents
<1>5. RecvLemmas!PeekedFrom(b, 0, 1) = SubSeq(RecvLemmas!Contents(b), 0 + 1, 0 + 1)
  BY <1>1, RecvSame, RecvLemmas!PeekedElements
<1>6. Recv!OutTo(b, 1).elements = b.elements - 1
  BY DEF Recv!OutTo, Recv!Cyclic
<1>7. Recv!Contents(b) \in Seq(Octets) /\ Len(Recv!Contents(b)) = b.elements
  BY RecvBuffer
<1>8. Recv!PeekedFrom(b, 0, 1) = <<Recv!Contents(b)[1]>>
  BY <1>1, <1>5, <1>7, RecvSame
<1>9. \A k \in 1 .. b.elements - 1 :
        Recv!Contents(Recv!OutTo(b, 1))[k] = Recv!Contents(b)[k + 1]
  BY <1>1, <1>4, <1>7, RecvSame
<1> QED BY <1>2, <1>3, <1>6, <1>8, <1>9, RecvSame

-----------------------------------------------------------------------------
(* Types, and where the task is in a transfer.                             *)

Sending == {"DisableTxe", "Store", "LoadSend", "CountSend", "TrySend",
            "EnableTxe", "Sent"}

(* Where the handler is kept out of the send buffer.                       *)
Quiet == {"Store", "LoadSend", "CountSend", "TrySend", "EnableTxe"}

TransferOK ==
  /\ task.pc # "Idle" => task.count + task.got <= task.octets
  /\ task.pc \in Sending => accepted + task.octets <= MaxSent
  /\ task.pc = "DisableTxe" => task.count < task.octets /\ task.got = 0
  /\ task.pc = "Store" => task.count + task.got < task.octets
  /\ task.pc \in {"LoadSend", "CountSend"} =>
       /\ task.step > 0
       /\ task.count + task.got + task.step <= task.octets
       /\ sendCb.elements + task.step <= SendCapacity
  /\ task.pc = "CountSend" => task.loaded = sendCb.elements
  /\ task.pc \in Quiet => ~txeie
  /\ task.pc \in {"LoadRecv", "CountRecv"} =>
       /\ task.step > 0 /\ task.got = 0
       /\ task.count + task.step <= task.octets
       /\ task.step <= recvCb.elements
  /\ task.pc = "CountRecv" =>
       task.step <= task.loaded /\ task.loaded <= recvCb.elements
  /\ task.pc = "Copy" =>
       task.got < task.step /\ task.count + task.step <= task.octets

TypeInv == TypeOK /\ TransferOK

Pc == {"Idle", "DisableTxe", "Store", "LoadSend", "CountSend",
       "TrySend", "EnableTxe", "Sent", "CheckContents",
       "LoadRecv", "CountRecv", "Copy", "Received"}

LEMMA PcValues ==
  /\ "Idle" \in Pc /\ "DisableTxe" \in Pc /\ "Store" \in Pc
  /\ "LoadSend" \in Pc /\ "CountSend" \in Pc /\ "TrySend" \in Pc
  /\ "EnableTxe" \in Pc /\ "Sent" \in Pc /\ "CheckContents" \in Pc
  /\ "LoadRecv" \in Pc /\ "CountRecv" \in Pc /\ "Copy" \in Pc
  /\ "Received" \in Pc
BY DEF Pc

TaskType ==
  [pc : Pc,
   octets : 0 .. MaxTransfer, count : 0 .. MaxTransfer,
   got : 0 .. MaxTransfer, step : 0 .. MaxTransfer,
   loaded : 0 .. SendCapacity + RecvCapacity]

LEMMA IdleTyped == Idle \in TaskType
BY PcValues, UartAssumption DEF Idle, TaskType

LEMMA TypedTask ==
  ASSUME TypeOK
  PROVE  /\ task \in TaskType
         /\ task.octets \in Nat /\ task.octets <= MaxTransfer
         /\ task.count \in Nat /\ task.count <= MaxTransfer
         /\ task.got \in Nat /\ task.got <= MaxTransfer
         /\ task.step \in Nat /\ task.step <= MaxTransfer
         /\ task.loaded \in Nat /\ task.loaded <= SendCapacity + RecvCapacity
         /\ sendCb.elements \in Nat /\ sendCb.elements <= SendCapacity
         /\ recvCb.elements \in Nat /\ recvCb.elements <= RecvCapacity
         /\ SendCapacity \in Nat /\ SendCapacity > 0
         /\ RecvCapacity \in Nat /\ RecvCapacity > 0
         /\ MaxTransfer \in Nat /\ MaxSent \in Nat /\ MaxArrived \in Nat
         /\ accepted \in Nat /\ accepted <= MaxSent
         /\ arrived \in Nat /\ arrived <= MaxArrived
BY UartAssumption, SendBuffer, RecvBuffer DEF TypeOK, TaskType, Pc

(* The handler, while it is kept out of the send buffer and otherwise.     *)
LEMMA AfterSendQuiet ==
  ASSUME ~txeie \/ dr # <<>> \/ ~(sendCb.elements > 0)
  PROVE  AfterSend = [dr |-> dr, sendCb |-> sendCb, txeie |-> txeie]
BY DEF AfterSend

LEMMA AfterSendTakes ==
  ASSUME txeie, dr = <<>>, sendCb.elements > 0
  PROVE  AfterSend = [dr |-> Send!PeekedFrom(sendCb, 0, 1),
                      sendCb |-> Send!OutTo(sendCb, 1),
                      txeie |-> sendCb.elements > 1]
BY DEF AfterSend

LEMMA IrqSendTyped ==
  ASSUME TypeOK, UartIrqSend
  PROVE  /\ sendCb' \in Send!Cyclic
         /\ txeie' \in BOOLEAN
         /\ dr' \in Seq(Octets) /\ Len(dr') <= 1
         /\ ~txeie => sendCb' = sendCb /\ dr' = dr /\ ~txeie'
<1>1. CASE txeie /\ dr = <<>> /\ sendCb.elements > 0
  <2>1. /\ dr' = Send!PeekedFrom(sendCb, 0, 1)
        /\ sendCb' = Send!OutTo(sendCb, 1)
        /\ txeie' = (sendCb.elements > 1)
    BY <1>1, AfterSendTakes DEF UartIrqSend
  <2>2. sendCb \in Send!Cyclic
    BY DEF TypeOK
  <2>3. Len(dr') = 1 /\ dr' \in Seq(Octets)
    BY <2>1, <2>2, SendTyped
  <2>4. sendCb' \in Send!Cyclic
    BY <1>1, <2>1, <2>2, SendTyped
  <2>5. txeie' \in BOOLEAN
    BY <2>1
  <2> QED BY <1>1, <2>3, <2>4, <2>5
<1>2. CASE ~(txeie /\ dr = <<>> /\ sendCb.elements > 0)
  <2>1. dr' = dr /\ sendCb' = sendCb /\ txeie' = txeie
    BY <1>2, AfterSendQuiet DEF UartIrqSend
  <2> QED BY <2>1 DEF TypeOK
<1> QED BY <1>1, <1>2

LEMMA IrqRecvTyped ==
  ASSUME TypeOK, UartIrqRecv
  PROVE  /\ recvCb' \in Recv!Cyclic
         /\ recvCb'.elements >= recvCb.elements
         /\ recvCb'.elements <= recvCb.elements + Len(rdr)
         /\ rdr' = <<>>
<1>1. CASE rdr = <<>>
  <2>1. recvCb' = recvCb /\ rdr' = <<>>
    BY <1>1 DEF UartIrqRecv
  <2>2. recvCb \in Recv!Cyclic /\ Len(rdr) \in Nat
    BY DEF TypeOK
  <2>3. recvCb.elements \in Nat
    BY <2>2, RecvBuffer
  <2>4. /\ recvCb.elements >= recvCb.elements
        /\ recvCb.elements <= recvCb.elements + Len(rdr)
    BY <2>2, <2>3
  <2> QED BY <2>1, <2>2, <2>4
<1>2. CASE rdr # <<>>
  <2>1. recvCb' = Recv!InFrom(recvCb, rdr) /\ rdr' = <<>>
    BY <1>2 DEF UartIrqRecv
  <2>2. recvCb \in Recv!Cyclic /\ rdr \in Seq(Octets)
    BY DEF TypeOK
  <2> QED BY <2>1, <2>2, RecvTyped
<1> QED BY <1>1, <1>2

(* The variables but task.                                                 *)
BuffersOK ==
  /\ sendCb \in Send!Cyclic
  /\ recvCb \in Recv!Cyclic
  /\ txeie \in BOOLEAN
  /\ dr \in Seq(Octets) /\ Len(dr) <= 1
  /\ rdr \in Seq(Octets) /\ Len(rdr) <= 1
  /\ wire \in Seq(Octets)
  /\ arrived \in 0 .. MaxArrived
  /\ accepted \in 0 .. MaxSent
  /\ delivered \in Seq(Octets)

LEMMA TypeParts == TypeOK <=> BuffersOK /\ task \in TaskType
BY DEF TypeOK, BuffersOK, TaskType, Pc

(* The task sends.                                                         *)
LEMMA SendingTypes ==
  ASSUME TypeInv
  PROVE  /\ \A n \in 1 .. MaxTransfer : StartSend(n) => TypeInv'
         /\ DisableTxe => TypeInv'
         /\ Store => TypeInv'
         /\ LoadSend => TypeInv'
         /\ CountSend => TypeInv'
         /\ TrySend => TypeInv'
         /\ EnableTxe => TypeInv'
         /\ \A timedout \in BOOLEAN : Sent(timedout) => TypeInv'
<1>0. TypeOK /\ TransferOK
  BY DEF TypeInv
<1>1. ASSUME NEW n \in 1 .. MaxTransfer, StartSend(n) PROVE TypeInv'
  <2>1. TypeOK'
    <3>1. task' \in TaskType
      <4>1. task' = [Idle EXCEPT !.pc = "DisableTxe", !.octets = n]
        BY <1>0, <1>1 DEF StartSend, Idle
      <4>2. Idle \in TaskType /\ n \in 0 .. MaxTransfer
        BY <1>0, <1>1, TypedTask, IdleTyped, UartAssumption DEF StartSend, Idle
      <4> QED BY <4>1, <4>2, PcValues DEF TaskType
    <3>2. BuffersOK'
      BY <1>0, <1>1, TypedTask, TypeParts DEF StartSend, sending, receiving, BuffersOK
    <3> QED BY <3>1, <3>2 DEF TypeOK, BuffersOK, TaskType, Pc
  <2>2. TransferOK'
    BY <1>0, <1>1, TypedTask
       DEF StartSend, Idle, TransferOK, Sending, Quiet, sending, receiving
  <2> QED BY <2>1, <2>2 DEF TypeInv
<1>2. ASSUME DisableTxe PROVE TypeInv'
  <2>1. TypeOK'
    <3>1. task' \in TaskType
      <4>1. task' = [task EXCEPT !.pc = "Store", !.got = 0]
        BY <1>0, <1>2 DEF DisableTxe
      <4>2. task \in TaskType /\ 0 \in 0 .. MaxTransfer
        BY <1>0, <1>2, TypedTask DEF DisableTxe
      <4> QED BY <4>1, <4>2, PcValues DEF TaskType
    <3>2. BuffersOK'
      BY <1>0, <1>2, TypedTask, TypeParts DEF DisableTxe, receiving, BuffersOK
    <3> QED BY <3>1, <3>2 DEF TypeOK, BuffersOK, TaskType, Pc
  <2>2. TransferOK'
    BY <1>0, <1>2, TypedTask
       DEF DisableTxe, TransferOK, TaskType, Sending, Quiet, receiving
  <2> QED BY <2>1, <2>2 DEF TypeInv
<1>3. ASSUME Store PROVE TypeInv'
  <2> DEFINE available == Min2(Remaining, Send!Available(sendCb))
             filled == Send!InFrom(sendCb, NextSent(available))
  <2>1. /\ available \in Nat
        /\ available <= task.octets - task.count - task.got
        /\ available <= SendCapacity - sendCb.elements
    BY <1>0, <1>3, TypedTask
       DEF Store, Min2, Remaining, Send!Available, TransferOK
  <2>2. CASE available = 0
    <3>1. task' = [task EXCEPT !.pc = "EnableTxe"] /\ sendCb' = sendCb
      BY <1>3, <2>2 DEF Store, Goto
    <3>2. TypeOK'
      <4>1. task' \in TaskType
        <5>1. task' = [task EXCEPT !.pc = "EnableTxe"]
          BY <1>0, <1>3, <3>1 DEF Store
        <5>2. task \in TaskType
          BY <1>0, <1>3, <3>1, TypedTask DEF Store
        <5> QED BY <5>1, <5>2, PcValues DEF TaskType
      <4>2. BuffersOK'
        BY <1>0, <1>3, <3>1, TypedTask, TypeParts DEF Store, receiving, BuffersOK
      <4> QED BY <4>1, <4>2 DEF TypeOK, BuffersOK, TaskType, Pc
    <3>3. TransferOK'
      BY <1>0, <1>3, <3>1, TypedTask
         DEF Store, TransferOK, TaskType, Sending, Quiet, receiving
    <3> QED BY <3>2, <3>3 DEF TypeInv
  <2>3. CASE available # 0
    <3> HIDE DEF available
    <3>1. task' = [task EXCEPT !.pc = "LoadSend", !.step = available]
          /\ sendCb' = [filled EXCEPT !.elements = sendCb.elements]
      BY <1>3, <2>3 DEF Store, available
    <3>2. NextSent(available) \in Seq(Octets)
      <4> SUFFICES NextSent(available) \in [1 .. available -> Octets]
        BY <2>1, FunctionIsSequence
      <4>1. /\ accepted + task.octets <= MaxSent
            /\ task.count + task.got + available <= task.octets
        <5>1. accepted + task.octets <= MaxSent
          BY <1>0, <1>3 DEF Store, TransferOK, Sending
        <5>2. task.count + task.got + available <= task.octets
          BY <1>0, <2>1, TypedTask
        <5> QED BY <5>1, <5>2
      <4>2. ASSUME NEW k \in 1 .. available
            PROVE  accepted + task.count + task.got + k \in Octets
        BY <1>0, <2>1, <4>1, TypedTask DEF Octets
      <4> QED BY <4>2 DEF NextSent
    <3>3. filled \in Send!Cyclic
      BY <1>0, <3>2, SendTyped DEF TypeOK
    <3> HIDE DEF filled
    <3>4. sendCb' \in Send!Cyclic /\ sendCb'.elements = sendCb.elements
      BY <1>0, <3>1, <3>3, TypedTask DEF Send!Cyclic
    <3>5. TypeOK'
      <4>1. task' \in TaskType
        <5>1. task' = [task EXCEPT !.pc = "LoadSend", !.step = available]
          BY <1>0, <1>3, <2>1, <3>1, <3>4 DEF Store
        <5>2. task \in TaskType /\ available \in 0 .. MaxTransfer
          BY <1>0, <1>3, <2>1, <3>1, <3>4, TypedTask DEF Store
        <5> QED BY <5>1, <5>2, PcValues DEF TaskType
      <4>2. BuffersOK'
        BY <1>0, <1>3, <2>1, <3>1, <3>4, TypedTask, TypeParts DEF Store, receiving, BuffersOK
      <4> QED BY <4>1, <4>2 DEF TypeOK, BuffersOK, TaskType, Pc
    <3>6. TransferOK'
      BY <1>0, <1>3, <2>1, <2>3, <3>1, <3>4, TypedTask
         DEF Store, TransferOK, TaskType, Sending, Quiet, receiving
    <3> QED BY <3>5, <3>6 DEF TypeInv
  <2> QED BY <2>2, <2>3
<1>4. ASSUME LoadSend PROVE TypeInv'
  <2>1. TypeOK'
    <3>1. task' \in TaskType
      <4>1. task' = [task EXCEPT !.pc = "CountSend", !.loaded = sendCb.elements]
        BY <1>0, <1>4 DEF LoadSend
      <4>2. task \in TaskType
            /\ sendCb.elements \in 0 .. SendCapacity + RecvCapacity
        BY <1>0, <1>4, TypedTask DEF LoadSend
      <4> QED BY <4>1, <4>2, PcValues DEF TaskType
    <3>2. BuffersOK'
      BY <1>0, <1>4, TypedTask, TypeParts DEF LoadSend, sending, receiving, BuffersOK
    <3> QED BY <3>1, <3>2 DEF TypeOK, BuffersOK, TaskType, Pc
  <2>2. TransferOK'
    BY <1>0, <1>4, TypedTask
       DEF LoadSend, TransferOK, TaskType, Sending, Quiet, sending, receiving
  <2> QED BY <2>1, <2>2 DEF TypeInv
<1>5. ASSUME CountSend PROVE TypeInv'
  <2>1. sendCb' = [sendCb EXCEPT !.elements = sendCb.elements + task.step]
    <3>1. task.loaded = sendCb.elements
          /\ sendCb.elements + task.step <= SendCapacity
      BY <1>0, <1>5 DEF CountSend, TransferOK
    <3>2. [sendCb EXCEPT !.elements = task.loaded] = sendCb
      BY <1>0, <3>1 DEF TypeOK, Send!Cyclic
    <3>3. Send!ElementsAfter(sendCb, task.step) = sendCb.elements + task.step
      BY <1>0, <3>1, TypedTask DEF Send!ElementsAfter, Send!Available
    <3> QED BY <1>5, <3>2, <3>3 DEF CountSend
  <2>2. sendCb' \in Send!Cyclic
    <3>1. sendCb.elements + task.step \in 0 .. SendCapacity
      BY <1>0, <1>5, TypedTask DEF CountSend, TransferOK
    <3>2. sendCb \in Send!Cyclic
      BY <1>0 DEF TypeOK
    <3> QED BY <2>1, <3>1, <3>2 DEF Send!Cyclic
  <2>3. TypeOK'
    <3>1. task' \in TaskType
      <4>1. task' = [task EXCEPT !.pc = "TrySend", !.got = task.got + task.step]
        BY <1>0, <1>5, <2>2 DEF CountSend, TransferOK
      <4>2. task \in TaskType
            /\ task.got + task.step \in 0 .. MaxTransfer
        BY <1>0, <1>5, <2>2, TypedTask DEF CountSend, TransferOK
      <4> QED BY <4>1, <4>2, PcValues DEF TaskType
    <3>2. BuffersOK'
      BY <1>0, <1>5, <2>2, TypedTask, TypeParts DEF CountSend, TransferOK, receiving, BuffersOK
    <3> QED BY <3>1, <3>2 DEF TypeOK, BuffersOK, TaskType, Pc
  <2>4. TransferOK'
    BY <1>0, <1>5, TypedTask
       DEF CountSend, TransferOK, TaskType, Sending, Quiet, receiving
  <2> QED BY <2>3, <2>4 DEF TypeInv
<1>6. ASSUME TrySend PROVE TypeInv'
  <2>1. sendCb' = sendCb /\ dr' = dr /\ ~txeie' /\ ~txeie
    BY <1>0, <1>6, IrqSendTyped DEF TrySend, TransferOK, Quiet
  <2>2. \/ task' = [task EXCEPT !.pc = "Store"] /\ Remaining > 0
        \/ task' = [task EXCEPT !.pc = "EnableTxe"]
    BY <1>6 DEF TrySend, Goto
  <2>3. TypeOK'
    <3>1. task' \in TaskType
      <4>1. task \in TaskType
        BY <1>0, TypedTask
      <4> QED BY <2>2, <4>1, PcValues DEF TaskType
    <3>2. BuffersOK'
      BY <1>0, <1>6, IrqSendTyped, TypeParts DEF TrySend, receiving, BuffersOK
    <3> QED BY <3>1, <3>2 DEF TypeOK, BuffersOK, TaskType, Pc
  <2>4. TransferOK'
    BY <1>0, <1>6, <2>1, <2>2, TypedTask
       DEF TrySend, TransferOK, TaskType, Sending, Quiet, receiving, Remaining
  <2> QED BY <2>3, <2>4 DEF TypeInv
<1>7. ASSUME EnableTxe PROVE TypeInv'
  <2>1. TypeOK'
    <3>1. task' \in TaskType
      <4>1. task' = [task EXCEPT !.pc = "Sent"]
        BY <1>0, <1>7 DEF EnableTxe, Goto
      <4>2. task \in TaskType
        BY <1>0, <1>7, TypedTask DEF EnableTxe, Goto
      <4> QED BY <4>1, <4>2, PcValues DEF TaskType
    <3>2. BuffersOK'
      BY <1>0, <1>7, TypedTask, TypeParts DEF EnableTxe, Goto, receiving, BuffersOK
    <3> QED BY <3>1, <3>2 DEF TypeOK, BuffersOK, TaskType, Pc
  <2>2. TransferOK'
    BY <1>0, <1>7, TypedTask
       DEF EnableTxe, Goto, TransferOK, TaskType, Sending, Quiet, receiving
  <2> QED BY <2>1, <2>2 DEF TypeInv
<1>8. ASSUME NEW timedout \in BOOLEAN, Sent(timedout) PROVE TypeInv'
  <2> DEFINE count == task.count + task.got
  <2>0. count \in Nat /\ count <= task.octets
    BY <1>0, <1>8, TypedTask DEF Sent, TransferOK
  <2>1. CASE count < task.octets /\ ~timedout
    <3>1. task' = [task EXCEPT !.pc = "DisableTxe", !.count = count, !.got = 0]
          /\ accepted' = accepted
      BY <1>8, <2>1 DEF Sent
    <3>2. TypeOK'
      <4>1. task' \in TaskType
        <5>1. task' = [task EXCEPT !.pc = "DisableTxe", !.count = count, !.got = 0]
          BY <1>0, <1>8, <2>0, <3>1 DEF Sent
        <5>2. task \in TaskType
              /\ count \in 0 .. MaxTransfer /\ 0 \in 0 .. MaxTransfer
          BY <1>0, <1>8, <2>0, <3>1, TypedTask DEF Sent
        <5> QED BY <5>1, <5>2, PcValues DEF TaskType
      <4>2. BuffersOK'
        BY <1>0, <1>8, <2>0, <3>1, TypedTask, TypeParts DEF Sent, receiving, BuffersOK
      <4> QED BY <4>1, <4>2 DEF TypeOK, BuffersOK, TaskType, Pc
    <3>3. TransferOK'
      BY <1>0, <1>8, <2>0, <2>1, <3>1, TypedTask
         DEF Sent, TransferOK, TaskType, Sending, Quiet, receiving
    <3> QED BY <3>2, <3>3 DEF TypeInv
  <2>2. CASE ~(count < task.octets /\ ~timedout)
    <3>1. task' = Idle /\ accepted' = accepted + count
      BY <1>8, <2>2 DEF Sent
    <3>2. accepted + count <= MaxSent
      BY <1>0, <1>8, <2>0, TypedTask DEF Sent, TransferOK, Sending
    <3>3. TypeOK'
      <4>1. task' \in TaskType
        BY <3>1, IdleTyped
      <4>2. BuffersOK'
        <5>1. accepted' \in 0 .. MaxSent
          BY <1>0, <2>0, <3>1, <3>2, TypedTask
        <5> QED BY <1>0, <1>8, <5>1, TypeParts DEF Sent, receiving, BuffersOK
      <4> QED BY <4>1, <4>2 DEF TypeOK, BuffersOK, TaskType, Pc
    <3>4. TransferOK'
      BY <1>0, <3>1 DEF TransferOK, Idle, Sending, Quiet
    <3> QED BY <3>3, <3>4 DEF TypeInv
  <2> QED BY <2>1, <2>2
<1> QED BY <1>1, <1>2, <1>3, <1>4, <1>5, <1>6, <1>7, <1>8

(* The task receives.                                                      *)
LEMMA ReceivingTypes ==
  ASSUME TypeInv
  PROVE  /\ \A n \in 1 .. MaxTransfer : StartReceive(n) => TypeInv'
         /\ CheckContents => TypeInv'
         /\ LoadRecv => TypeInv'
         /\ CountRecv => TypeInv'
         /\ Copy => TypeInv'
         /\ \A timedout \in BOOLEAN : Received(timedout) => TypeInv'
<1>0. /\ TypeOK /\ TransferOK
      /\ task \in TaskType /\ 0 \in 0 .. MaxTransfer
  BY TypedTask DEF TypeInv
<1>1. ASSUME NEW n \in 1 .. MaxTransfer, StartReceive(n) PROVE TypeInv'
  <2>1. task' = [Idle EXCEPT !.pc = "CheckContents", !.octets = n]
    BY <1>1 DEF StartReceive
  <2>2. task' \in TaskType
    <3>1. Idle \in TaskType /\ n \in 0 .. MaxTransfer
      BY IdleTyped, UartAssumption
    <3> QED BY <2>1, <3>1, PcValues DEF TaskType
  <2>3. TypeOK'
    <3>1. BuffersOK'
      BY <1>0, <1>1, TypeParts DEF StartReceive, sending, receiving, BuffersOK
    <3> QED BY <2>2, <3>1 DEF TypeOK, BuffersOK, TaskType, Pc
  <2>4. TransferOK'
    BY <1>0, <1>1, <2>1, TypedTask
       DEF StartReceive, Idle, TransferOK, Sending, Quiet, sending, receiving
  <2> QED BY <2>3, <2>4 DEF TypeInv
<1>2. ASSUME CheckContents PROVE TypeInv'
  <2> DEFINE contents == Min2(task.octets - task.count, recvCb.elements)
  <2>1. /\ contents \in 0 .. MaxTransfer
        /\ contents <= task.octets - task.count
        /\ contents <= recvCb.elements
    BY <1>0, <1>2, TypedTask DEF CheckContents, Min2, TransferOK
  <2>2. \/ /\ contents = 0
           /\ task' = [task EXCEPT !.pc = "Received", !.step = contents, !.got = 0]
        \/ /\ contents # 0
           /\ task' = [task EXCEPT !.pc = "LoadRecv", !.step = contents, !.got = 0]
    BY <1>2 DEF CheckContents
  <2> HIDE DEF contents
  <2>3. task' \in TaskType
    BY <1>0, <2>1, <2>2, PcValues DEF TaskType
  <2>4. TypeOK'
    <3>1. BuffersOK'
      BY <1>0, <1>2, TypeParts DEF CheckContents, sending, receiving, BuffersOK
    <3> QED BY <2>3, <3>1 DEF TypeOK, BuffersOK, TaskType, Pc
  <2>5. TransferOK'
    <3>1. /\ UNCHANGED <<sendCb, recvCb, txeie, accepted>>
          /\ task'.count = task.count /\ task'.octets = task.octets
          /\ task'.step = contents /\ task'.got = 0
          /\ \/ task'.pc = "Received"
             \/ contents # 0 /\ task'.pc = "LoadRecv"
      BY <1>0, <1>2, <2>2 DEF CheckContents, TaskType, sending, receiving
    <3>2. contents \in Nat /\ task.count + contents <= task.octets
          /\ task.count + 0 <= task.octets
      BY <1>0, <2>1, TypedTask
    <3>3. contents # 0 => contents > 0
      BY <3>2
    <3> QED BY <2>1, <3>1, <3>2, <3>3 DEF TransferOK, Sending, Quiet
  <2> QED BY <2>4, <2>5 DEF TypeInv
<1>3. ASSUME LoadRecv PROVE TypeInv'
  <2>1. task' = [task EXCEPT !.pc = "CountRecv", !.loaded = recvCb.elements]
    BY <1>3 DEF LoadRecv
  <2>2. task' \in TaskType
    <3>1. recvCb.elements \in 0 .. SendCapacity + RecvCapacity
      BY <1>0, TypedTask
    <3> QED BY <1>0, <2>1, <3>1, PcValues DEF TaskType
  <2>3. TypeOK'
    <3>1. BuffersOK'
      BY <1>0, <1>3, TypeParts DEF LoadRecv, sending, receiving, BuffersOK
    <3> QED BY <2>2, <3>1 DEF TypeOK, BuffersOK, TaskType, Pc
  <2>4. TransferOK'
    BY <1>0, <1>3, <2>1, TypedTask
       DEF LoadRecv, TransferOK, TaskType, Sending, Quiet, sending, receiving
  <2> QED BY <2>3, <2>4 DEF TypeInv
<1>4. ASSUME CountRecv PROVE TypeInv'
  <2>1. /\ task' = [task EXCEPT !.pc = "Copy"]
        /\ recvCb' = [recvCb EXCEPT !.elements = task.loaded - task.step]
    BY <1>4 DEF CountRecv, Goto
  <2>2. task' \in TaskType
    BY <1>0, <2>1, PcValues DEF TaskType
  <2>3. recvCb' \in Recv!Cyclic
    <3>1. task.loaded - task.step \in 0 .. RecvCapacity
      BY <1>0, <1>4, TypedTask DEF CountRecv, TransferOK
    <3>2. recvCb \in Recv!Cyclic
      BY <1>0 DEF TypeOK
    <3> QED BY <2>1, <3>1, <3>2 DEF Recv!Cyclic
  <2>4. TypeOK'
    <3>1. BuffersOK'
      BY <1>0, <1>4, <2>3, TypeParts DEF CountRecv, sending, BuffersOK
    <3> QED BY <2>2, <3>1 DEF TypeOK, BuffersOK, TaskType, Pc
  <2>5. TransferOK'
    BY <1>0, <1>4, <2>1, TypedTask
       DEF CountRecv, TransferOK, TaskType, Sending, Quiet, sending
  <2> QED BY <2>4, <2>5 DEF TypeInv
<1>5. ASSUME Copy PROVE TypeInv'
  <2>0. /\ task.got + 1 \in 0 .. MaxTransfer /\ task.got + 1 <= task.step
        /\ task.count + task.step <= task.octets
    <3>1. task.got < task.step /\ task.count + task.step <= task.octets
      BY <1>0, <1>5 DEF Copy, TransferOK
    <3> QED BY <1>0, <3>1, TypedTask
  <2>1. \/ /\ task.got + 1 = task.step
           /\ task' = [task EXCEPT !.pc = "Received", !.got = task.got + 1]
        \/ /\ task.got + 1 # task.step
           /\ task' = [task EXCEPT !.pc = "Copy", !.got = task.got + 1]
    BY <1>5 DEF Copy
  <2>2. task' \in TaskType
    BY <1>0, <2>0, <2>1, PcValues DEF TaskType
  <2>3. recvCb' \in Recv!Cyclic /\ recvCb'.elements = recvCb.elements
    <3>1. recvCb \in Recv!Cyclic
      BY <1>0 DEF TypeOK
    <3>2. Recv!OutTo(recvCb, 1).outIndex \in Recv!Index
      <4>1. Recv!OutTo(recvCb, 1).outIndex = (recvCb.outIndex + 1) % RecvCapacity
        BY <3>1 DEF Recv!OutTo, Recv!Cyclic
      <4>2. recvCb.outIndex + 1 \in Int
        BY <3>1, UartAssumption DEF Recv!Cyclic, Recv!Index
      <4>3. RecvLemmas!CyclicAssumption
        BY RecvSame
      <4>4. (recvCb.outIndex + 1) % RecvCapacity \in RecvLemmas!Index
        BY <4>2, <4>3, RecvLemmas!ModFacts
      <4> QED BY <4>1, <4>4 DEF Recv!Index, RecvLemmas!Index
    <3> QED BY <1>5, <3>1, <3>2 DEF Copy, Recv!Cyclic
  <2>4. delivered' \in Seq(Octets)
    <3>1. recvCb \in Recv!Cyclic /\ delivered \in Seq(Octets)
      BY <1>0 DEF TypeOK
    <3>2. Recv!PeekedFrom(recvCb, 0, 1) \in Seq(Octets)
      BY <3>1, RecvTyped
    <3> QED BY <1>5, <3>1, <3>2 DEF Copy
  <2>5. TypeOK'
    <3>1. BuffersOK'
      BY <1>0, <1>5, <2>3, <2>4, TypeParts DEF Copy, sending, BuffersOK
    <3> QED BY <2>2, <3>1 DEF TypeOK, BuffersOK, TaskType, Pc
  <2>6. TransferOK'
    <3>1. /\ UNCHANGED <<sendCb, txeie, accepted>>
          /\ task'.count = task.count /\ task'.octets = task.octets
          /\ task'.step = task.step /\ task'.got = task.got + 1
          /\ \/ task'.pc = "Received"
             \/ task.got + 1 # task.step /\ task'.pc = "Copy"
      BY <1>0, <1>5, <2>1 DEF Copy, TaskType, sending
    <3>2. /\ task.count + (task.got + 1) <= task.octets
          /\ task.got + 1 # task.step => task.got + 1 < task.step
      BY <1>0, <2>0, TypedTask
    <3> QED BY <2>0, <3>1, <3>2 DEF TransferOK, Sending, Quiet
  <2> QED BY <2>5, <2>6 DEF TypeInv
<1>6. ASSUME NEW timedout \in BOOLEAN, Received(timedout) PROVE TypeInv'
  <2> DEFINE count == task.count + task.got
  <2>0. count \in 0 .. MaxTransfer /\ count <= task.octets
    BY <1>0, <1>6, TypedTask DEF Received, TransferOK
  <2>1. \/ /\ count < task.octets
           /\ task' = [task EXCEPT !.pc = "CheckContents", !.count = count,
                                   !.got = 0]
        \/ task' = Idle
    BY <1>6 DEF Received
  <2>2. task' \in TaskType
    <3> HIDE DEF count
    <3> QED BY <1>0, <2>0, <2>1, PcValues, IdleTyped DEF TaskType
  <2>3. TypeOK'
    <3>1. BuffersOK'
      BY <1>0, <1>6, TypeParts DEF Received, sending, receiving, BuffersOK
    <3> QED BY <2>2, <3>1 DEF TypeOK, BuffersOK, TaskType, Pc
  <2>4. TransferOK'
    BY <1>0, <1>6, <2>0, <2>1, TypedTask
       DEF Received, Idle, TransferOK, TaskType, Sending, Quiet, sending, receiving
  <2> QED BY <2>3, <2>4 DEF TypeInv
<1> QED BY <1>1, <1>2, <1>3, <1>4, <1>5, <1>6

(* The interrupt handler, the line, and all together.                      *)
LEMMA NextTypeInv == TypeInv /\ [Next]_vars => TypeInv'
<1> SUFFICES ASSUME TypeInv, [Next]_vars PROVE TypeInv'
  OBVIOUS
<1>0. TypeOK /\ TransferOK
  BY DEF TypeInv
<1>1. CASE Task \/ \E n \in 1 .. MaxTransfer : StartSend(n) \/ StartReceive(n)
  BY <1>1, SendingTypes, ReceivingTypes DEF Task
<1>2. CASE UartIrq
  <2>1. /\ sendCb' \in Send!Cyclic /\ txeie' \in BOOLEAN
        /\ dr' \in Seq(Octets) /\ Len(dr') <= 1
        /\ ~txeie => sendCb' = sendCb /\ ~txeie'
    BY <1>0, <1>2, IrqSendTyped DEF UartIrq
  <2>2. /\ recvCb' \in Recv!Cyclic /\ recvCb'.elements >= recvCb.elements
        /\ rdr' = <<>>
    BY <1>0, <1>2, IrqRecvTyped DEF UartIrq
  <2>3. task' = task /\ UNCHANGED <<wire, arrived, accepted, delivered>>
    BY <1>2 DEF UartIrq
  <2>4. TypeOK'
    <3>1. rdr' \in Seq(Octets) /\ Len(rdr') <= 1
      BY <2>2
    <3> QED BY <1>0, <2>1, <2>2, <2>3, <3>1 DEF TypeOK
  <2>5. TransferOK'
    <3>1. (sendCb' = sendCb /\ ~txeie') \/ task.pc \notin Quiet
      BY <1>0, <2>1 DEF TransferOK
    <3>2. recvCb'.elements \in Nat
      BY <2>2, RecvBuffer
    <3>3. /\ task.step <= recvCb.elements => task.step <= recvCb'.elements
          /\ task.loaded <= recvCb.elements => task.loaded <= recvCb'.elements
      BY <1>0, <2>2, <3>2, TypedTask
    <3> QED BY <1>0, <2>3, <3>1, <3>3 DEF TransferOK, Sending, Quiet
  <2> QED BY <2>4, <2>5 DEF TypeInv
<1>3. CASE Transmit
  <2>1. wire' \in Seq(Octets) /\ dr' = <<>>
    BY <1>0, <1>3 DEF Transmit, TypeOK
  <2>2. TypeOK'
    BY <1>0, <1>3, <2>1 DEF Transmit, TypeOK, receiving
  <2>3. TransferOK'
    BY <1>0, <1>3 DEF Transmit, TransferOK, receiving
  <2> QED BY <2>2, <2>3 DEF TypeInv
<1>4. CASE Arrive
  <2>1. arrived + 1 \in Octets /\ arrived' \in 0 .. MaxArrived
    <3>1. arrived < MaxArrived /\ arrived' = arrived + 1
      BY <1>4 DEF Arrive
    <3>2. arrived + 1 \in 0 .. MaxArrived /\ arrived + 1 \in 0 .. MaxSent + MaxArrived
      BY <1>0, <3>1, TypedTask
    <3> QED BY <3>1, <3>2 DEF Octets
  <2>2. TypeOK'
    BY <1>0, <1>4, <2>1 DEF Arrive, TypeOK, sending
  <2>3. TransferOK'
    BY <1>0, <1>4 DEF Arrive, TransferOK, sending
  <2> QED BY <2>2, <2>3 DEF TypeInv
<1>5. CASE UNCHANGED vars
  BY <1>5 DEF vars, TypeInv, TypeOK, TransferOK
<1> QED BY <1>1, <1>2, <1>3, <1>4, <1>5 DEF Next

LEMMA InitTypeInv == Init => TypeInv
<1> SUFFICES ASSUME Init PROVE TypeInv
  OBVIOUS
<1>1. Send!Cleared \in Send!Cyclic /\ Recv!Cleared \in Recv!Cyclic
  BY UartAssumption
     DEF Send!Cleared, Send!Cyclic, Send!Index, Octets,
         Recv!Cleared, Recv!Cyclic, Recv!Index
<1>2. TypeOK
  <2>1. BuffersOK
    <3>1. <<>> \in Seq(Octets) /\ Len(<<>>) = 0
      OBVIOUS
    <3>2. 0 \in 0 .. MaxArrived /\ 0 \in 0 .. MaxSent /\ 0 <= 1
      BY UartAssumption
    <3>3. FALSE \in BOOLEAN
      OBVIOUS
    <3> QED BY <1>1, <3>1, <3>2, <3>3 DEF Init, BuffersOK
  <2>2. task \in TaskType
    BY IdleTyped DEF Init
  <2> QED BY <2>1, <2>2, TypeParts
<1>3. TransferOK
  BY DEF Init, Idle, TransferOK, Sending, Quiet
<1> QED BY <1>2, <1>3 DEF TypeInv

(***************************************************************************)
(* Indices stay inside the buffers, transfers within what was asked for    *)
(* and the sums of the two contexts within the capacities.                 *)
(***************************************************************************)
THEOREM TypeCorrect == Spec => []TypeOK
<1>1. TypeInv => TypeOK
  BY DEF TypeInv
<1> QED BY <1>1, InitTypeInv, NextTypeInv, PTL DEF Spec

-----------------------------------------------------------------------------
(***************************************************************************)
(* Sending.  Between the store of the octets and the store of their number *)
(* the buffer holds more octets than it counts: Filled counts them all.    *)
(***************************************************************************)
Storing == task.pc \in {"LoadSend", "CountSend"}

Filled ==
  IF Storing THEN [sendCb EXCEPT !.elements = sendCb.elements + task.step]
             ELSE sendCb

(* The octets STREAM_IN_FromBuffer has taken from its callers.             *)
Taken ==
  accepted + (IF task.pc \in Sending
              THEN task.count + task.got + (IF Storing THEN task.step ELSE 0)
              ELSE 0)

(* The octets that left the buffer.                                        *)
Gone == Len(wire) + Len(dr)

SendInv ==
  /\ txeie => sendCb.elements > 0
  /\ task.pc \in {"TrySend", "EnableTxe"} => sendCb.elements > 0
  /\ SendAgrees(Filled)
  /\ Gone + Filled.elements = Taken
  /\ \A k \in 1 .. Len(wire) : wire[k] = k
  /\ \A k \in 1 .. Len(dr) : dr[k] = Len(wire) + k
  /\ \A k \in 1 .. Filled.elements : Send!Contents(Filled)[k] = Gone + k

LEMMA FilledTyped ==
  ASSUME TypeInv
  PROVE  /\ Filled \in Send!Cyclic
         /\ Filled.elements = IF Storing THEN sendCb.elements + task.step
                                         ELSE sendCb.elements
         /\ Filled.elements \in Nat
         /\ Gone \in Nat
<1>1. sendCb \in Send!Cyclic
  BY DEF TypeInv, TypeOK
<1>2. Storing => sendCb.elements + task.step \in 0 .. SendCapacity
  BY TypedTask DEF TypeInv, TransferOK, Storing
<1>3. Filled \in Send!Cyclic
  BY <1>1, <1>2 DEF Filled, Send!Cyclic
<1>4. Filled.elements = IF Storing THEN sendCb.elements + task.step
                                   ELSE sendCb.elements
  BY <1>1 DEF Filled, Send!Cyclic
<1>5. Gone \in Nat
  BY DEF Gone, TypeInv, TypeOK
<1> QED BY <1>2, <1>3, <1>4, <1>5, TypedTask DEF TypeInv

(* Steps that leave the octets where they are.                             *)
LEMMA SendInvKept ==
  ASSUME SendInv, Filled' = Filled, dr' = dr, wire' = wire, Taken' = Taken,
         txeie' => sendCb'.elements > 0,
         task'.pc \in {"TrySend", "EnableTxe"} => sendCb'.elements > 0
  PROVE  SendInv'
BY DEF SendInv, Gone, SendAgrees

(* The task sends.                                                         *)
LEMMA SendingInv ==
  ASSUME TypeInv, TypeInv', SendInv
  PROVE  /\ \A n \in 1 .. MaxTransfer : StartSend(n) => SendInv'
         /\ DisableTxe => SendInv'
         /\ Store => SendInv'
         /\ LoadSend => SendInv'
         /\ CountSend => SendInv'
         /\ TrySend => SendInv'
         /\ EnableTxe => SendInv'
         /\ \A timedout \in BOOLEAN : Sent(timedout) => SendInv'
<1>0. /\ TypeOK /\ TransferOK /\ task \in TaskType
      /\ txeie => sendCb.elements > 0
  BY TypedTask DEF TypeInv, SendInv
<1>1. ASSUME NEW n \in 1 .. MaxTransfer, StartSend(n) PROVE SendInv'
  <2>1. task.pc = "Idle" /\ task' = [Idle EXCEPT !.pc = "DisableTxe", !.octets = n]
        /\ UNCHANGED <<sendCb, txeie, dr, wire, accepted>>
    BY <1>1 DEF StartSend, sending
  <2>2. Taken' = Taken
    BY <1>0, <2>1, TypedTask DEF Taken, Storing, Sending, Idle
  <2>3. Filled' = Filled
    BY <2>1 DEF Filled, Storing, Idle
  <2>4. task'.pc = "DisableTxe"
    BY <2>1 DEF Idle
  <2> QED BY <1>0, <2>1, <2>2, <2>3, <2>4, SendInvKept
<1>2. ASSUME DisableTxe PROVE SendInv'
  <2>1. /\ task.pc = "DisableTxe" /\ task'.pc = "Store" /\ ~txeie'
        /\ task'.count = task.count /\ task'.got = 0
        /\ UNCHANGED <<sendCb, dr, wire, accepted>>
    BY <1>0, <1>2 DEF DisableTxe, TaskType
  <2>2. task.got = 0
    BY <1>0, <2>1 DEF TransferOK
  <2>3. Taken' = Taken
    BY <2>1, <2>2 DEF Taken, Storing, Sending
  <2>4. Filled' = Filled
    BY <2>1 DEF Filled, Storing
  <2> QED BY <2>1, <2>3, <2>4, SendInvKept
<1>3. ASSUME Store PROVE SendInv'
  <2> DEFINE available == Min2(Remaining, Send!Available(sendCb))
             next == NextSent(available)
             filled == Send!InFrom(sendCb, next)
  <2>1. /\ task.pc = "Store" /\ ~txeie
        /\ UNCHANGED <<txeie, dr, wire, accepted>>
    BY <1>0, <1>3 DEF Store, TransferOK, Quiet
  <2>2. /\ available \in Nat
        /\ Remaining > 0
        /\ available <= Send!Available(sendCb)
        /\ available = 0 => sendCb.elements > 0
    BY <1>0, <2>1, TypedTask DEF Min2, Remaining, Send!Available, TransferOK
  <2>3. CASE available = 0
    <3>1. task' = [task EXCEPT !.pc = "EnableTxe"] /\ sendCb' = sendCb
      BY <1>3, <2>3 DEF Store, Goto
    <3>2. task'.pc = "EnableTxe" /\ task'.count = task.count /\ task'.got = task.got
      BY <1>0, <3>1 DEF TaskType
    <3>3. Taken' = Taken
      BY <2>1, <3>2 DEF Taken, Storing, Sending
    <3>4. Filled' = Filled
      BY <2>1, <3>1, <3>2 DEF Filled, Storing
    <3> QED BY <2>1, <2>2, <2>3, <3>1, <3>3, <3>4, SendInvKept
  <2>4. CASE available # 0
    <3> HIDE DEF available
    <3>1. task' = [task EXCEPT !.pc = "LoadSend", !.step = available]
          /\ sendCb' = [filled EXCEPT !.elements = sendCb.elements]
      BY <1>3, <2>4 DEF Store, available
    <3>2. /\ task'.pc = "LoadSend" /\ task'.step = available
          /\ task'.count = task.count /\ task'.got = task.got
      BY <1>0, <3>1 DEF TaskType
    <3>3. Filled = sendCb /\ sendCb \in Send!Cyclic
      BY <1>0, <2>1 DEF Filled, Storing, TypeOK
    <3>4. next \in Seq(Octets) /\ Len(next) = available
          /\ \A k \in 1 .. available : next[k] = Taken + k
      <4>1. /\ accepted + task.octets <= MaxSent
            /\ task.count + task.got + available <= task.octets
        <5>1. accepted + task.octets <= MaxSent
          BY <1>0, <2>1 DEF TransferOK, Sending
        <5>2. available <= Remaining
          BY <1>0, <2>1, TypedTask DEF available, Min2, Remaining, Send!Available
        <5> QED BY <1>0, <2>2, <5>1, <5>2, TypedTask DEF Remaining
      <4>2. ASSUME NEW k \in 1 .. available
            PROVE  accepted + task.count + task.got + k \in Octets
        BY <1>0, <2>2, <4>1, TypedTask DEF Octets
      <4>3. next \in [1 .. available -> Octets]
        BY <4>2 DEF NextSent
      <4>4. Taken = accepted + task.count + task.got
        BY <1>0, <2>1, TypedTask DEF Taken, Storing, Sending
      <4>5. \A k \in 1 .. available : next[k] = Taken + k
        BY <4>4 DEF NextSent
      <4> QED BY <2>2, <4>3, <4>5, FunctionIsSequence
    <3> HIDE DEF next
    <3>5. SendAgrees(sendCb) /\ Len(next) <= Send!Available(sendCb)
      BY <2>2, <3>3, <3>4 DEF SendInv
    <3>6. /\ filled \in Send!Cyclic /\ SendAgrees(filled)
          /\ filled.elements = sendCb.elements + available
          /\ Send!Contents(filled) = Send!Contents(sendCb) \o next
      BY <3>3, <3>4, <3>5, SendInserted
    <3> HIDE DEF filled
    <3>7. Filled' = filled
      BY <3>1, <3>2, <3>6 DEF Filled, Storing, Send!Cyclic
    <3>8. /\ Taken' = Taken + available /\ Gone' = Gone
          /\ Taken \in Nat /\ Gone \in Nat /\ sendCb.elements \in Nat
      <4>1. Gone' = Gone /\ Gone \in Nat /\ sendCb.elements \in Nat
        BY <1>0, <2>1, FilledTyped, TypedTask DEF Gone
      <4>2. /\ Taken = accepted + (task.count + task.got + 0)
            /\ Taken' = accepted + (task.count + task.got + available)
        BY <2>1, <3>2 DEF Taken, Storing, Sending
      <4>3. Taken \in Nat /\ Taken' = Taken + available
        BY <1>0, <2>2, <4>2, TypedTask
      <4> QED BY <4>1, <4>3
    <3>9. /\ Gone + sendCb.elements = Taken
          /\ \A k \in 1 .. sendCb.elements : Send!Contents(sendCb)[k] = Gone + k
      BY <3>3 DEF SendInv
    <3>10. ASSUME NEW k \in 1 .. filled.elements
           PROVE  Send!Contents(filled)[k] = Gone + k
      <4>1. /\ Send!Contents(sendCb) \in Seq(Octets)
            /\ Len(Send!Contents(sendCb)) = sendCb.elements
            /\ sendCb.elements \in Nat
        BY <1>0, <3>3, SendBuffer, TypedTask
      <4>2. CASE k <= sendCb.elements
        BY <3>4, <3>6, <3>9, <4>1, <4>2
      <4>3. CASE k > sendCb.elements
        <5>1. k - sendCb.elements \in 1 .. available
          BY <2>2, <3>6, <4>1, <4>3
        <5>2. Send!Contents(filled)[k] = next[k - sendCb.elements]
          BY <2>2, <3>4, <3>6, <4>1, <5>1, ConcatSecond
        <5>3. next[k - sendCb.elements] = Taken + (k - sendCb.elements)
          BY <3>4, <5>1
        <5>4. Taken + (k - sendCb.elements) = Gone + k
          BY <3>8, <3>9, <4>3
        <5> QED BY <5>2, <5>3, <5>4
      <4> QED BY <4>1, <4>2, <4>3
    <3>11. Gone + filled.elements = Taken + available
      <4>1. /\ filled.elements = sendCb.elements + available
            /\ Gone + sendCb.elements = Taken
        BY <3>6, <3>9
      <4> QED BY <2>2, <3>8, <4>1
    <3> QED BY <2>1, <3>2, <3>6, <3>7, <3>8, <3>10, <3>11 DEF SendInv, SendAgrees
  <2> QED BY <2>3, <2>4
<1>4. ASSUME LoadSend PROVE SendInv'
  <2>1. /\ task.pc = "LoadSend" /\ task'.pc = "CountSend"
        /\ task'.step = task.step
        /\ task'.count = task.count /\ task'.got = task.got
        /\ UNCHANGED <<sendCb, txeie, dr, wire, accepted>>
    BY <1>0, <1>4 DEF LoadSend, TaskType, sending
  <2>2. Taken' = Taken
    BY <2>1 DEF Taken, Storing, Sending
  <2>3. Filled' = Filled
    BY <2>1 DEF Filled, Storing
  <2> QED BY <1>0, <2>1, <2>2, <2>3, SendInvKept
<1>5. ASSUME CountSend PROVE SendInv'
  <2>1. /\ task.pc = "CountSend" /\ task'.pc = "TrySend"
        /\ task'.count = task.count /\ task'.got = task.got + task.step
        /\ UNCHANGED <<txeie, dr, wire, accepted>>
    BY <1>0, <1>5 DEF CountSend, TaskType
  <2>2. task.loaded = sendCb.elements /\ task.step > 0
        /\ sendCb.elements + task.step <= SendCapacity /\ ~txeie
    BY <1>0, <2>1 DEF TransferOK, Quiet
  <2>3. sendCb' = [sendCb EXCEPT !.elements = sendCb.elements + task.step]
    <3>1. [sendCb EXCEPT !.elements = task.loaded] = sendCb
      BY <1>0, <2>2 DEF TypeOK, Send!Cyclic
    <3>2. Send!ElementsAfter(sendCb, task.step) = sendCb.elements + task.step
      BY <1>0, <2>2, TypedTask DEF Send!ElementsAfter, Send!Available
    <3> QED BY <1>5, <3>1, <3>2 DEF CountSend
  <2>4. Filled' = Filled
    BY <2>1, <2>3 DEF Filled, Storing
  <2>5. Taken' = Taken
    BY <1>0, <2>1, TypedTask DEF Taken, Storing, Sending
  <2>6. sendCb'.elements > 0
    BY <1>0, <2>2, <2>3, TypedTask DEF TypeOK, Send!Cyclic
  <2> QED BY <2>1, <2>4, <2>5, <2>6, SendInvKept
<1>6. ASSUME TrySend PROVE SendInv'
  <2>1. /\ task.pc = "TrySend" /\ task'.pc \in {"Store", "EnableTxe"}
        /\ task'.count = task.count /\ task'.got = task.got
        /\ UNCHANGED <<wire, accepted>>
    BY <1>0, <1>6 DEF TrySend, Goto, TaskType
  <2>2. sendCb' = sendCb /\ dr' = dr /\ ~txeie'
    BY <1>0, <1>6, <2>1, IrqSendTyped DEF TrySend, TransferOK, Quiet
  <2>3. sendCb.elements > 0
    BY <2>1 DEF SendInv
  <2>4. Taken' = Taken
    BY <2>1 DEF Taken, Storing, Sending
  <2>5. Filled' = Filled
    BY <2>1, <2>2 DEF Filled, Storing
  <2> QED BY <2>1, <2>2, <2>3, <2>4, <2>5, SendInvKept
<1>7. ASSUME EnableTxe PROVE SendInv'
  <2>1. /\ task.pc = "EnableTxe" /\ task'.pc = "Sent"
        /\ task'.count = task.count /\ task'.got = task.got
        /\ UNCHANGED <<sendCb, dr, wire, accepted>>
    BY <1>0, <1>7 DEF EnableTxe, Goto, TaskType
  <2>2. sendCb.elements > 0
    BY <2>1 DEF SendInv
  <2>3. Taken' = Taken
    BY <2>1 DEF Taken, Storing, Sending
  <2>4. Filled' = Filled
    BY <2>1 DEF Filled, Storing
  <2> QED BY <2>1, <2>2, <2>3, <2>4, SendInvKept
<1>8. ASSUME NEW timedout \in BOOLEAN, Sent(timedout) PROVE SendInv'
  <2> DEFINE count == task.count + task.got
  <2>1. task.pc = "Sent" /\ UNCHANGED <<sendCb, txeie, dr, wire>>
    BY <1>8 DEF Sent
  <2>2. \/ task' = Idle /\ accepted' = accepted + count
        \/ /\ task' = [task EXCEPT !.pc = "DisableTxe", !.count = count, !.got = 0]
           /\ accepted' = accepted
    BY <1>8 DEF Sent
  <2>3. \/ task'.pc = "Idle" /\ accepted' = accepted + count
        \/ /\ task'.pc = "DisableTxe" /\ task'.count = count /\ task'.got = 0
           /\ accepted' = accepted
    <3>1. Idle.pc = "Idle"
      BY DEF Idle
    <3> HIDE DEF count
    <3>2. LET t == [task EXCEPT !.pc = "DisableTxe", !.count = count, !.got = 0]
          IN  t.pc = "DisableTxe" /\ t.count = count /\ t.got = 0
      BY <1>0 DEF TaskType
    <3> QED BY <2>2, <3>1, <3>2
  <2>4. Taken' = Taken
    <3>1. Taken = accepted + count
      BY <1>0, <2>1, TypedTask DEF Taken, Storing, Sending
    <3> QED BY <1>0, <2>3, <3>1, TypedTask DEF Taken, Storing, Sending
  <2>5. Filled' = Filled
    BY <2>1, <2>3 DEF Filled, Storing
  <2> QED BY <1>0, <2>1, <2>3, <2>4, <2>5, SendInvKept
<1> QED BY <1>1, <1>2, <1>3, <1>4, <1>5, <1>6, <1>7, <1>8

(* The task receives.                                                      *)
LEMMA ReceivingKeepsSent ==
  ASSUME TypeInv, SendInv
  PROVE  /\ \A n \in 1 .. MaxTransfer : StartReceive(n) => SendInv'
         /\ CheckContents => SendInv'
         /\ LoadRecv => SendInv'
         /\ CountRecv => SendInv'
         /\ Copy => SendInv'
         /\ \A timedout \in BOOLEAN : Received(timedout) => SendInv'
<1>0. task \in TaskType /\ (txeie => sendCb.elements > 0)
  BY TypedTask DEF TypeInv, SendInv
<1> DEFINE Receiving == {"Idle", "CheckContents", "LoadRecv", "CountRecv",
                         "Copy", "Received"}
<1>1. ASSUME UNCHANGED sending, task.pc \in Receiving, task'.pc \in Receiving
      PROVE  SendInv'
  <2>1. ~Storing /\ ~Storing' /\ task.pc \notin Sending /\ task'.pc \notin Sending
    BY <1>1 DEF Storing, Sending
  <2>2. Filled' = Filled /\ Taken' = Taken
    BY <1>1, <2>1 DEF Filled, Taken, sending
  <2> QED BY <1>0, <1>1, <2>2, SendInvKept DEF sending
<1>2. ASSUME NEW n \in 1 .. MaxTransfer, StartReceive(n) PROVE SendInv'
  BY <1>1, <1>2 DEF StartReceive, Idle
<1>3. ASSUME CheckContents PROVE SendInv'
  BY <1>0, <1>1, <1>3 DEF CheckContents, TaskType
<1>4. ASSUME LoadRecv PROVE SendInv'
  BY <1>0, <1>1, <1>4 DEF LoadRecv, TaskType
<1>5. ASSUME CountRecv PROVE SendInv'
  BY <1>0, <1>1, <1>5 DEF CountRecv, Goto, TaskType
<1>6. ASSUME Copy PROVE SendInv'
  BY <1>0, <1>1, <1>6 DEF Copy, TaskType
<1>7. ASSUME NEW timedout \in BOOLEAN, Received(timedout) PROVE SendInv'
  BY <1>0, <1>1, <1>7 DEF Received, Idle, TaskType
<1> QED BY <1>2, <1>3, <1>4, <1>5, <1>6, <1>7

(* The handler takes an octet: the next one.                               *)
LEMMA HandlerTakesNext ==
  ASSUME TypeInv, SendInv, UartIrqSend, task' = task, wire' = wire,
         accepted' = accepted
  PROVE  SendInv'
<1>0. /\ TypeOK /\ TransferOK /\ (txeie => sendCb.elements > 0)
      /\ sendCb \in Send!Cyclic
  BY DEF TypeInv, SendInv, TypeOK
<1>1. CASE ~(txeie /\ dr = <<>> /\ sendCb.elements > 0)
  <2>1. dr' = dr /\ sendCb' = sendCb /\ txeie' = txeie
    BY <1>1, AfterSendQuiet DEF UartIrqSend
  <2>2. Filled' = Filled /\ Taken' = Taken
    BY <2>1 DEF Filled, Taken, Storing
  <2> QED BY <1>0, <2>1, <2>2, SendInvKept DEF SendInv
<1>2. CASE txeie /\ dr = <<>> /\ sendCb.elements > 0
  <2> DEFINE rest == Send!OutTo(sendCb, 1)
  <2>1. /\ dr' = Send!PeekedFrom(sendCb, 0, 1) /\ sendCb' = rest
        /\ txeie' = (sendCb.elements > 1)
    BY <1>2, AfterSendTakes DEF UartIrqSend
  <2>2. task.pc \notin Quiet /\ ~Storing /\ ~Storing'
    BY <1>0, <1>2 DEF TransferOK, Quiet, Storing
  <2>3. Filled = sendCb /\ Filled' = rest /\ Taken' = Taken
    BY <2>1, <2>2 DEF Filled, Taken
  <2>4. /\ SendAgrees(sendCb)
        /\ Gone + sendCb.elements = Taken
        /\ \A k \in 1 .. sendCb.elements : Send!Contents(sendCb)[k] = Gone + k
        /\ \A k \in 1 .. Len(wire) : wire[k] = k
    BY <2>3 DEF SendInv
  <2>5. /\ rest \in Send!Cyclic /\ SendAgrees(rest)
        /\ rest.elements = sendCb.elements - 1
        /\ dr' = <<Send!Contents(sendCb)[1]>>
        /\ \A k \in 1 .. sendCb.elements - 1 :
             Send!Contents(rest)[k] = Send!Contents(sendCb)[k + 1]
    BY <1>0, <1>2, <2>1, <2>4, SendConsumed
  <2> HIDE DEF rest
  <2>6. /\ sendCb.elements \in Nat /\ Len(wire) \in Nat
        /\ Gone = Len(wire) /\ Len(dr') = 1 /\ Gone' = Gone + 1
    BY <1>0, <1>2, <2>5, TypedTask DEF Gone, TypeOK
  <2>7. \A k \in 1 .. Len(dr') : dr'[k] = Len(wire) + k
    <3>1. Send!Contents(sendCb)[1] = Gone + 1
      BY <1>2, <2>4, <2>6
    <3> QED BY <2>5, <2>6, <3>1
  <2>8. ASSUME NEW k \in 1 .. rest.elements
        PROVE  Send!Contents(rest)[k] = Gone' + k
    <3>1. k \in 1 .. sendCb.elements - 1 /\ k + 1 \in 1 .. sendCb.elements
      BY <2>5, <2>6
    <3>2. Send!Contents(rest)[k] = Gone + (k + 1)
      BY <2>4, <2>5, <3>1
    <3> QED BY <2>6, <3>2
  <2>9. Gone' + rest.elements = Taken'
    <3>1. /\ Gone \in Nat /\ Gone + sendCb.elements = Taken
          /\ rest.elements = sendCb.elements - 1 /\ Taken' = Taken
      BY <2>3, <2>4, <2>5, <2>6
    <3> QED BY <2>6, <3>1
  <2>10. txeie' => rest.elements > 0
    <3>1. sendCb.elements > 1 => rest.elements > 0
      BY <2>5, <2>6
    <3> QED BY <2>1, <3>1
  <2>11. task'.pc \notin {"TrySend", "EnableTxe"}
    BY <2>2 DEF Quiet
  <2> QED BY <2>1, <2>3, <2>4, <2>5, <2>7, <2>8, <2>9, <2>10, <2>11
          DEF SendInv, SendAgrees
<1> QED BY <1>1, <1>2

(* Everything that can happen keeps the octets in their order.             *)
LEMMA NextSendInv == TypeInv /\ TypeInv' /\ SendInv /\ [Next]_vars => SendInv'
<1> SUFFICES ASSUME TypeInv, TypeInv', SendInv, [Next]_vars PROVE SendInv'
  OBVIOUS
<1>0. /\ TypeOK /\ (txeie => sendCb.elements > 0)
  BY DEF TypeInv, SendInv
<1>1. CASE Task \/ \E n \in 1 .. MaxTransfer : StartSend(n) \/ StartReceive(n)
  BY <1>1, SendingInv, ReceivingKeepsSent DEF Task
<1>2. CASE UartIrq
  BY <1>2, HandlerTakesNext DEF UartIrq
<1>3. CASE Transmit
  <2>1. /\ wire \in Seq(Octets) /\ dr \in Seq(Octets)
        /\ wire' = wire \o dr /\ dr' = <<>>
    BY <1>0, <1>3 DEF Transmit, TypeOK
  <2>2. UNCHANGED <<sendCb, txeie, accepted, task>>
    BY <1>3 DEF Transmit
  <2>3. Filled' = Filled /\ Taken' = Taken
    BY <2>2 DEF Filled, Taken, Storing
  <2>4. /\ InSequence(wire)
        /\ \A k \in 1 .. Len(dr) : dr[k] = Len(wire) + k
    BY DEF SendInv, InSequence
  <2>5. Len(wire') = Len(wire) + Len(dr) /\ InSequence(wire')
    BY <2>1, <2>4, CountOn
  <2>6. Len(wire') + Len(dr') = Len(wire) + Len(dr) /\ Len(dr') = 0
    BY <2>1, <2>5
  <2>7. /\ Gone' = Gone
        /\ \A k \in 1 .. Len(wire') : wire'[k] = k
        /\ \A k \in 1 .. Len(dr') : dr'[k] = Len(wire') + k
    BY <2>5, <2>6 DEF Gone, InSequence
  <2> QED BY <2>2, <2>3, <2>4, <2>7 DEF SendInv, SendAgrees
<1>4. CASE Arrive
  BY <1>0, <1>4, SendInvKept DEF Arrive, sending, Filled, Taken, Storing, SendInv
<1>5. CASE UNCHANGED vars
  BY <1>0, <1>5, SendInvKept DEF vars, Filled, Taken, Storing, SendInv
<1> QED BY <1>1, <1>2, <1>3, <1>4, <1>5 DEF Next

LEMMA InitSendInv == Init => SendInv
<1> SUFFICES ASSUME Init PROVE SendInv
  OBVIOUS
<1>1. /\ sendCb = Send!Cleared /\ task.pc = "Idle" /\ ~txeie
      /\ dr = <<>> /\ wire = <<>> /\ accepted = 0
  BY DEF Init, Idle
<1>2. Filled = sendCb /\ Taken = 0 /\ Gone = 0
  BY <1>1 DEF Filled, Taken, Storing, Sending, Gone
<1>3. sendCb.elements = 0 /\ SendAgrees(sendCb)
  BY <1>1, UartAssumption DEF Send!Cleared, SendAgrees
<1> QED BY <1>1, <1>2, <1>3 DEF SendInv

LEMMA SpecInv == Spec => [](TypeInv /\ SendInv)
<1>1. Init => TypeInv /\ SendInv
  BY InitTypeInv, InitSendInv
<1>2. TypeInv /\ SendInv /\ [Next]_vars => TypeInv' /\ SendInv'
  BY NextTypeInv, NextSendInv
<1> QED BY <1>1, <1>2, PTL DEF Spec

(***************************************************************************)
(* Octets are transmitted in order, none is lost and none repeated, however*)
(* the handler and the task interleave; and between two transfers what     *)
(* STREAM_IN_FromBuffer reported is what was taken.                        *)
(***************************************************************************)
THEOREM SentOctetsInOrder == Spec => []SentInOrder
<1>1. ASSUME TypeInv, SendInv PROVE SentInOrder
  <2> DEFINE contents == Send!Contents(sendCb)
             out == wire \o dr
             sent == out \o contents
  <2>1. /\ contents \in Seq(Octets) /\ Len(contents) = sendCb.elements
        /\ wire \in Seq(Octets) /\ dr \in Seq(Octets)
        /\ sendCb.elements \in Nat
    BY <1>1, SendBuffer, TypedTask DEF TypeInv, TypeOK
  <2>2. ASSUME NEW k \in 1 .. sendCb.elements PROVE contents[k] = Gone + k
    <3>1. sendCb.elements <= Filled.elements /\ Filled.elements \in Nat
      BY <1>1, FilledTyped, TypedTask DEF TypeInv
    <3>2. k \in 1 .. Filled.elements
      BY <2>1, <3>1
    <3>3. Send!Contents(Filled)[k] = Gone + k
      BY <1>1, <3>2 DEF SendInv
    <3>4. Filled.data = sendCb.data /\ Filled.outIndex = sendCb.outIndex
      BY <1>1 DEF Filled, TypeInv, TypeOK, Send!Cyclic
    <3>5. contents[k] = Send!Contents(Filled)[k]
      BY <3>2, <3>4 DEF Send!Contents, Send!PeekedFrom
    <3> QED BY <3>3, <3>5
  <2> HIDE DEF contents
  <2>3. /\ \A k \in 1 .. Len(wire) : wire[k] = k
        /\ \A k \in 1 .. Len(dr) : dr[k] = Len(wire) + k
        /\ Gone = Len(wire) + Len(dr)
    BY <1>1 DEF SendInv, Gone
  <2>4. out \in Seq(Octets) /\ Len(out) = Gone /\ InSequence(out)
    BY <2>1, <2>3, CountOn DEF InSequence
  <2> HIDE DEF out
  <2>5. Len(sent) = Gone + sendCb.elements /\ InSequence(sent)
    <3>1. \A k \in 1 .. Len(contents) : contents[k] = Len(out) + k
      BY <2>1, <2>2, <2>4
    <3>2. contents \in Seq(Octets) /\ out \in Seq(Octets)
      BY <2>1, <2>4
    <3>3. Len(sent) = Len(out) + Len(contents) /\ InSequence(sent)
      BY <2>4, <3>1, <3>2, CountOn
    <3> QED BY <2>1, <2>4, <3>3
  <2>6. task.pc = "Idle" => Len(sent) = accepted
    <3> SUFFICES ASSUME task.pc = "Idle" PROVE Len(sent) = accepted
      OBVIOUS
    <3>1. ~Storing /\ task.pc \notin Sending
      BY DEF Storing, Sending
    <3>2. Filled = sendCb /\ Taken = accepted + 0
      BY <3>1 DEF Filled, Taken
    <3>3. Gone + sendCb.elements = accepted
      BY <1>1, <3>2, TypedTask DEF SendInv, TypeInv
    <3> QED BY <2>5, <3>3
  <2> QED BY <2>5, <2>6 DEF SentInOrder, contents, out
<1> QED BY <1>1, SpecInv, PTL

(***************************************************************************)
(* The transmit interrupt is on only with an octet to transmit.            *)
(***************************************************************************)
THEOREM InterruptNotIdle == Spec => []NoIdleInterrupt
<1>1. TypeInv /\ SendInv => NoIdleInterrupt
  BY DEF SendInv, NoIdleInterrupt
<1> QED BY <1>1, SpecInv, PTL

-----------------------------------------------------------------------------
(***************************************************************************)
(* Receiving.  The task and the handler both count elements, and octets    *)
(* that the handler inserts between the task's load and its store are not  *)
(* counted, so elements says little.  The octets themselves stay where they*)
(* are: Held of them are between outIndex and inIndex.                     *)
(***************************************************************************)
Held == arrived - Len(rdr) - Len(delivered)

InRing == [recvCb EXCEPT !.elements = Held]

(* What the task has taken from elements, and has yet to copy.             *)
ToCopy == IF task.pc = "Copy" THEN task.step - task.got ELSE 0

RecvInv ==
  /\ arrived - Len(delivered) <= RecvCapacity
  /\ recvCb.elements + ToCopy <= Held
  /\ RecvAgrees(InRing)
  /\ \A k \in 1 .. Held : Recv!Contents(InRing)[k] = Len(delivered) + k
  /\ \A k \in 1 .. Len(rdr) : rdr[k] = arrived
  /\ InSequence(delivered)

LEMMA HeldNumbers ==
  ASSUME TypeInv, RecvInv
  PROVE  /\ Held \in Nat /\ Held <= RecvCapacity
         /\ Held = arrived - Len(rdr) - Len(delivered)
         /\ Len(rdr) \in Nat /\ Len(delivered) \in Nat /\ arrived \in Nat
         /\ ToCopy \in Nat /\ recvCb.elements \in Nat
         /\ recvCb.elements + ToCopy <= Held
         /\ RecvCapacity \in Nat
<1>1. Len(rdr) \in Nat /\ Len(delivered) \in Nat
  BY DEF TypeInv, TypeOK
<1>2. /\ recvCb.elements \in Nat /\ arrived \in Nat /\ RecvCapacity \in Nat
      /\ task.step \in Nat /\ task.got \in Nat
  BY TypedTask DEF TypeInv
<1>3. ToCopy \in Nat
  <2>1. task.pc = "Copy" => task.got < task.step
    BY DEF TypeInv, TransferOK
  <2> QED BY <1>2, <2>1 DEF ToCopy
<1>4. /\ arrived - Len(delivered) <= RecvCapacity
      /\ recvCb.elements + ToCopy <= Held
  BY DEF RecvInv
<1>5. Held = arrived - Len(rdr) - Len(delivered)
  BY DEF Held
<1>6. Held \in Nat /\ Held <= RecvCapacity
  BY <1>1, <1>2, <1>3, <1>4, <1>5
<1> QED BY <1>1, <1>2, <1>3, <1>4, <1>5, <1>6

LEMMA RingTyped ==
  ASSUME TypeInv, RecvInv
  PROVE  /\ InRing \in Recv!Cyclic
         /\ InRing.elements = Held
         /\ InRing.data = recvCb.data
         /\ InRing.inIndex = recvCb.inIndex
         /\ InRing.outIndex = recvCb.outIndex
<1>1. recvCb \in Recv!Cyclic
  BY DEF TypeInv, TypeOK
<1>2. Held \in 0 .. RecvCapacity
  BY HeldNumbers
<1> QED BY <1>1, <1>2 DEF InRing, Recv!Cyclic

(* Steps that leave the octets where they are.                             *)
LEMMA RecvInvKept ==
  ASSUME RecvInv, UNCHANGED receiving, ToCopy' = ToCopy
  PROVE  RecvInv'
BY DEF RecvInv, Held, InRing, RecvAgrees, receiving

LEMMA NotCopying ==
  ASSUME RecvInv, UNCHANGED receiving, task.pc # "Copy", task'.pc # "Copy"
  PROVE  RecvInv'
BY RecvInvKept DEF ToCopy

(* The task sends.                                                         *)
LEMMA SendingKeepsReceived ==
  ASSUME TypeInv, RecvInv
  PROVE  /\ \A n \in 1 .. MaxTransfer : StartSend(n) => RecvInv'
         /\ DisableTxe => RecvInv'
         /\ Store => RecvInv'
         /\ LoadSend => RecvInv'
         /\ CountSend => RecvInv'
         /\ TrySend => RecvInv'
         /\ EnableTxe => RecvInv'
         /\ \A timedout \in BOOLEAN : Sent(timedout) => RecvInv'
<1>0. task \in TaskType
  BY TypedTask DEF TypeInv
<1>1. ASSUME NEW n \in 1 .. MaxTransfer, StartSend(n) PROVE RecvInv'
  BY <1>1, NotCopying DEF StartSend, Idle
<1>2. ASSUME DisableTxe PROVE RecvInv'
  BY <1>0, <1>2, NotCopying DEF DisableTxe, TaskType
<1>3. ASSUME Store PROVE RecvInv'
  <2>1. task.pc = "Store" /\ UNCHANGED receiving
    BY <1>3 DEF Store
  <2>2. \/ task' = [task EXCEPT !.pc = "EnableTxe"]
        \/ \E available : task' = [task EXCEPT !.pc = "LoadSend",
                                               !.step = available]
    BY <1>3 DEF Store, Goto
  <2>3. task'.pc # "Copy"
    BY <1>0, <2>2 DEF TaskType
  <2> QED BY <2>1, <2>3, NotCopying
<1>4. ASSUME LoadSend PROVE RecvInv'
  BY <1>0, <1>4, NotCopying DEF LoadSend, TaskType
<1>5. ASSUME CountSend PROVE RecvInv'
  BY <1>0, <1>5, NotCopying DEF CountSend, TaskType
<1>6. ASSUME TrySend PROVE RecvInv'
  BY <1>0, <1>6, NotCopying DEF TrySend, Goto, TaskType
<1>7. ASSUME EnableTxe PROVE RecvInv'
  BY <1>0, <1>7, NotCopying DEF EnableTxe, Goto, TaskType
<1>8. ASSUME NEW timedout \in BOOLEAN, Sent(timedout) PROVE RecvInv'
  <2>1. task.pc = "Sent" /\ UNCHANGED receiving
    BY <1>8 DEF Sent
  <2>2. \/ task' = Idle
        \/ \E count : task' = [task EXCEPT !.pc = "DisableTxe",
                                           !.count = count, !.got = 0]
    BY <1>8 DEF Sent
  <2>3. task'.pc # "Copy"
    <3>1. CASE task' = Idle
      BY <3>1 DEF Idle
    <3>2. CASE task' # Idle
      BY <1>0, <2>2, <3>2 DEF TaskType
    <3> QED BY <3>1, <3>2
  <2> QED BY <2>1, <2>3, NotCopying
<1> QED BY <1>1, <1>2, <1>3, <1>4, <1>5, <1>6, <1>7, <1>8

(* The task receives.                                                      *)
LEMMA ReceivingInv ==
  ASSUME TypeInv, TypeInv', RecvInv
  PROVE  /\ \A n \in 1 .. MaxTransfer : StartReceive(n) => RecvInv'
         /\ CheckContents => RecvInv'
         /\ LoadRecv => RecvInv'
         /\ CountRecv => RecvInv'
         /\ Copy => RecvInv'
         /\ \A timedout \in BOOLEAN : Received(timedout) => RecvInv'
<1>0. task \in TaskType /\ recvCb \in Recv!Cyclic
  BY TypedTask DEF TypeInv, TypeOK
<1>1. ASSUME NEW n \in 1 .. MaxTransfer, StartReceive(n) PROVE RecvInv'
  BY <1>1, NotCopying DEF StartReceive, Idle
<1>2. ASSUME CheckContents PROVE RecvInv'
  BY <1>0, <1>2, NotCopying DEF CheckContents, TaskType
<1>3. ASSUME LoadRecv PROVE RecvInv'
  BY <1>0, <1>3, NotCopying DEF LoadRecv, TaskType
<1>4. ASSUME CountRecv PROVE RecvInv'
  <2>1. /\ recvCb' = [recvCb EXCEPT !.elements = task.loaded - task.step]
        /\ UNCHANGED <<rdr, arrived, delivered>>
        /\ task'.pc = "Copy" /\ task'.step = task.step /\ task'.got = task.got
    BY <1>0, <1>4 DEF CountRecv, Goto, TaskType
  <2>2. task.pc # "Copy" /\ task.got = 0 /\ task.loaded <= recvCb.elements
    BY <1>4 DEF CountRecv, TypeInv, TransferOK
  <2>3. Held' = Held /\ InRing' = InRing
    BY <1>0, <2>1 DEF Held, InRing, Recv!Cyclic
  <2>4. recvCb'.elements + ToCopy' <= Held
    <3>1. recvCb'.elements = task.loaded - task.step
      BY <1>0, <2>1 DEF Recv!Cyclic
    <3>2. ToCopy' = task.step - 0
      BY <2>1, <2>2 DEF ToCopy
    <3>3. recvCb.elements + 0 <= Held
      BY <2>2 DEF RecvInv, ToCopy
    <3>4. /\ Held \in Nat /\ recvCb.elements \in Nat
          /\ task.loaded \in Nat /\ task.step \in Nat
      BY HeldNumbers, TypedTask DEF TypeInv
    <3> QED BY <2>2, <3>1, <3>2, <3>3, <3>4
  <2> QED BY <2>1, <2>3, <2>4 DEF RecvInv, RecvAgrees
<1>5. ASSUME Copy PROVE RecvInv'
  <2>1. /\ task.pc = "Copy" /\ task.got < task.step
        /\ UNCHANGED <<rdr, arrived>>
    BY <1>5 DEF Copy, TypeInv, TransferOK
  <2>2. /\ delivered' = delivered \o Recv!PeekedFrom(recvCb, 0, 1)
        /\ recvCb' = [recvCb EXCEPT !.outIndex =
                                      (recvCb.outIndex + 1) % RecvCapacity]
    BY <1>0, <1>5 DEF Copy, Recv!OutTo, Recv!Cyclic
  <2>3. ToCopy' = ToCopy - 1
    <3>1. /\ task'.step = task.step /\ task'.got = task.got + 1
          /\ task'.pc = IF task.got + 1 = task.step THEN "Received" ELSE "Copy"
      BY <1>0, <1>5 DEF Copy, TaskType
    <3> QED BY <2>1, <3>1, TypedTask DEF ToCopy, TypeInv
  <2>4. /\ arrived - Len(delivered) <= RecvCapacity
        /\ recvCb.elements + ToCopy <= Held
        /\ RecvAgrees(InRing)
        /\ \A k \in 1 .. Held : Recv!Contents(InRing)[k] = Len(delivered) + k
        /\ \A k \in 1 .. Len(rdr) : rdr[k] = arrived
        /\ InSequence(delivered)
    BY DEF RecvInv
  <2>5. InRing.elements > 0 /\ Held > 0
    <3>1. ToCopy > 0
      BY <2>1, TypedTask DEF ToCopy, TypeInv
    <3>2. Held > 0
      BY <3>1, HeldNumbers
    <3> QED BY <3>2, RingTyped
  <2> DEFINE rest == Recv!OutTo(InRing, 1)
  <2>6. /\ rest \in Recv!Cyclic /\ RecvAgrees(rest)
        /\ rest.elements = Held - 1
        /\ Recv!PeekedFrom(InRing, 0, 1) = <<Recv!Contents(InRing)[1]>>
        /\ \A k \in 1 .. Held - 1 :
             Recv!Contents(rest)[k] = Recv!Contents(InRing)[k + 1]
    BY <2>4, <2>5, RingTyped, RecvConsumed
  <2>7. Recv!PeekedFrom(recvCb, 0, 1) = <<Len(delivered) + 1>>
    <3>1. Recv!PeekedFrom(recvCb, 0, 1) = Recv!PeekedFrom(InRing, 0, 1)
      BY RingTyped DEF Recv!PeekedFrom
    <3>2. Recv!Contents(InRing)[1] = Len(delivered) + 1
      BY <2>4, <2>5, HeldNumbers
    <3> QED BY <2>6, <3>1, <3>2
  <2>8. Len(delivered') = Len(delivered) + 1 /\ InSequence(delivered')
    <3>1. /\ delivered \in Seq(Octets)
          /\ Recv!PeekedFrom(recvCb, 0, 1) \in Seq(Octets)
      BY <1>0, RecvTyped DEF TypeInv, TypeOK
    <3>2. /\ Len(Recv!PeekedFrom(recvCb, 0, 1)) = 1
          /\ \A k \in 1 .. 1 :
               Recv!PeekedFrom(recvCb, 0, 1)[k] = Len(delivered) + k
      BY <2>7
    <3> QED BY <2>2, <2>4, <3>1, <3>2, CountOn
  <2>9. Held' = Held - 1
    BY <2>1, <2>8, HeldNumbers DEF Held
  <2>10. InRing' = rest
    BY <1>0, <2>2, <2>9, RingTyped DEF InRing, Recv!OutTo, Recv!Cyclic
  <2> HIDE DEF rest
  <2>11. ASSUME NEW k \in 1 .. Held'
         PROVE  Recv!Contents(rest)[k] = Len(delivered') + k
    <3>1. k \in 1 .. Held - 1 /\ k + 1 \in 1 .. Held
      BY <2>9, HeldNumbers
    <3>2. Recv!Contents(rest)[k] = Len(delivered) + (k + 1)
      BY <2>4, <2>6, <3>1
    <3> QED BY <2>8, <3>1, <3>2, HeldNumbers
  <2>12. recvCb'.elements + ToCopy' <= Held'
    <3>1. recvCb'.elements = recvCb.elements
      BY <1>0, <2>2 DEF Recv!Cyclic
    <3> QED BY <2>3, <2>9, <3>1, HeldNumbers
  <2>13. arrived' - Len(delivered') <= RecvCapacity
    <3>1. arrived - Len(delivered) <= RecvCapacity
      BY <2>4
    <3> QED BY <2>1, <2>8, <3>1, HeldNumbers
  <2> QED BY <2>1, <2>4, <2>6, <2>8, <2>10, <2>11, <2>12, <2>13
          DEF RecvInv, RecvAgrees
<1>6. ASSUME NEW timedout \in BOOLEAN, Received(timedout) PROVE RecvInv'
  BY <1>0, <1>6, NotCopying DEF Received, Idle, TaskType
<1> QED BY <1>1, <1>2, <1>3, <1>4, <1>5, <1>6

(* What is written depends on where it is, not on the number of elements.  *)
WrittenAt(data, inIndex, s) ==
  LET WrittenTo(i) == {k \in 1 .. Len(s) :
                         /\ k > Len(s) - RecvCapacity
                         /\ (inIndex + k - 1) % RecvCapacity = i}
  IN  [i \in Recv!Index |-> IF WrittenTo(i) = {} THEN data[i]
                            ELSE s[CHOOSE k \in WrittenTo(i) : TRUE]]

LEMMA WrittenOfFields ==
  \A b, s : Recv!Written(b, s) = WrittenAt(b.data, b.inIndex, s)
BY DEF Recv!Written, WrittenAt

(* The handler inserts an octet behind those it inserted before.           *)
LEMMA HandlerInsertsNext ==
  ASSUME TypeInv, RecvInv, UartIrqRecv, task' = task, arrived' = arrived,
         delivered' = delivered
  PROVE  RecvInv'
<1>0. recvCb \in Recv!Cyclic /\ rdr \in Seq(Octets) /\ Len(rdr) <= 1
  BY DEF TypeInv, TypeOK
<1>1. CASE rdr = <<>>
  BY <1>1, RecvInvKept DEF UartIrqRecv, receiving, ToCopy
<1>2. CASE rdr # <<>>
  <2>1. recvCb' = Recv!InFrom(recvCb, rdr) /\ rdr' = <<>>
    BY <1>2 DEF UartIrqRecv
  <2>2. /\ arrived - Len(delivered) <= RecvCapacity
        /\ recvCb.elements + ToCopy <= Held
        /\ RecvAgrees(InRing)
        /\ \A k \in 1 .. Held : Recv!Contents(InRing)[k] = Len(delivered) + k
        /\ \A k \in 1 .. Len(rdr) : rdr[k] = arrived
        /\ InSequence(delivered)
    BY DEF RecvInv
  <2>3. Len(rdr) = 1 /\ Len(rdr') = 0
    BY <1>0, <1>2, <2>1, OneOctet
  <2>4. Held' = Held + 1 /\ arrived = Len(delivered) + (Held + 1)
    <3>1. Held' = arrived - Len(rdr') - Len(delivered)
      BY DEF Held
    <3> QED BY <2>3, <3>1, HeldNumbers
  <2> DEFINE filled == Recv!InFrom(InRing, rdr)
  <2>5. Len(rdr) <= Recv!Available(InRing)
    <3>1. arrived - Len(delivered) <= RecvCapacity
      BY <2>2
    <3>2. Recv!Available(InRing) = RecvCapacity - Held
      BY RingTyped DEF Recv!Available
    <3> QED BY <2>3, <2>4, <3>1, <3>2, HeldNumbers
  <2>6. /\ filled \in Recv!Cyclic /\ RecvAgrees(filled)
        /\ filled.elements = Held + 1
        /\ Recv!Contents(filled) = Recv!Contents(InRing) \o rdr
    BY <1>0, <2>2, <2>3, <2>5, RingTyped, RecvInserted
  <2>7. InRing' = filled
    <3>1. Recv!Written(recvCb, rdr) = Recv!Written(InRing, rdr)
      <4>1. recvCb.inIndex = InRing.inIndex /\ recvCb.data = InRing.data
        BY RingTyped
      <4> QED BY <4>1, WrittenOfFields
    <3> HIDE DEF filled
    <3>2. /\ recvCb'.data = filled.data
          /\ recvCb'.inIndex = filled.inIndex
          /\ recvCb'.outIndex = filled.outIndex
          /\ recvCb'.lastIn = filled.lastIn
      BY <1>0, <2>1, <3>1, RingTyped
         DEF Recv!InFrom, InRing, Recv!Cyclic, filled
    <3>3. recvCb' \in Recv!Cyclic
      BY <1>0, <2>1, RecvTyped
    <3> QED BY <2>4, <2>6, <3>2, <3>3 DEF InRing, Recv!Cyclic
  <2> HIDE DEF filled
  <2>8. ASSUME NEW k \in 1 .. Held + 1
        PROVE  Recv!Contents(filled)[k] = Len(delivered) + k
    <3>1. /\ Recv!Contents(InRing) \in Seq(Octets)
          /\ Len(Recv!Contents(InRing)) = Held
      BY RingTyped, RecvBuffer
    <3>2. CASE k <= Held
      <4>1. k \in 1 .. Held
        BY <3>2, HeldNumbers
      <4>2. Recv!Contents(filled)[k] = Recv!Contents(InRing)[k]
        BY <1>0, <2>6, <3>1, <4>1, ConcatFirst
      <4> QED BY <2>2, <4>1, <4>2
    <3>3. CASE k > Held
      <4>1. k = Held + 1
        BY <3>3, HeldNumbers
      <4>2. k - Held = 1 /\ k - Held \in 1 .. Len(rdr) /\ k \in Nat
        BY <2>3, <4>1, HeldNumbers
      <4>3. Recv!Contents(filled)[k] = rdr[1]
        BY <1>0, <2>6, <3>1, <4>2, ConcatSecond
      <4>4. rdr[1] = arrived
        BY <2>2, <2>3
      <4> QED BY <2>4, <4>1, <4>3, <4>4
    <3> QED BY <3>2, <3>3, HeldNumbers
  <2>9. recvCb'.elements + ToCopy' <= Held'
    <3>1. /\ recvCb'.elements <= recvCb.elements + 1
          /\ recvCb'.elements \in Nat
      <4>1. recvCb' \in Recv!Cyclic /\ recvCb'.elements <= recvCb.elements + Len(rdr)
        BY <1>0, <2>1, RecvTyped
      <4>2. recvCb'.elements \in Nat
        BY <4>1, RecvBuffer
      <4> QED BY <2>3, <4>1, <4>2
    <3>2. ToCopy' = ToCopy
      BY DEF ToCopy
    <3>3. recvCb'.elements + ToCopy <= Held + 1
      BY <3>1, HeldNumbers
    <3> QED BY <2>4, <3>2, <3>3
  <2>10. \A k \in 1 .. Len(rdr') : rdr'[k] = arrived'
    BY <2>3
  <2> QED BY <2>2, <2>4, <2>6, <2>7, <2>8, <2>9, <2>10 DEF RecvInv, RecvAgrees
<1> QED BY <1>1, <1>2

LEMMA NextRecvInv == TypeInv /\ TypeInv' /\ RecvInv /\ [Next]_vars => RecvInv'
<1> SUFFICES ASSUME TypeInv, TypeInv', RecvInv, [Next]_vars PROVE RecvInv'
  OBVIOUS
<1>1. CASE Task \/ \E n \in 1 .. MaxTransfer : StartSend(n) \/ StartReceive(n)
  BY <1>1, SendingKeepsReceived, ReceivingInv DEF Task
<1>2. CASE UartIrq
  BY <1>2, HandlerInsertsNext DEF UartIrq
<1>3. CASE Transmit
  BY <1>3, RecvInvKept DEF Transmit, ToCopy
<1>4. CASE Arrive
  <2>1. /\ rdr = <<>> /\ arrived - Len(delivered) < RecvCapacity
        /\ rdr' = <<arrived + 1>> /\ arrived' = arrived + 1
        /\ UNCHANGED <<recvCb, delivered, task>>
    BY <1>4 DEF Arrive
  <2>2. Len(rdr) = 0 /\ Len(rdr') = 1 /\ rdr'[1] = arrived'
    BY <2>1
  <2>3. Held' = Held
    BY <2>1, <2>2, HeldNumbers DEF Held
  <2>4. InRing' = InRing /\ ToCopy' = ToCopy
    BY <2>1, <2>3 DEF InRing, ToCopy
  <2>5. arrived' - Len(delivered') <= RecvCapacity
    BY <2>1, HeldNumbers
  <2>6. \A k \in 1 .. Len(rdr') : rdr'[k] = arrived'
    BY <2>2
  <2> QED BY <2>1, <2>3, <2>4, <2>5, <2>6 DEF RecvInv, RecvAgrees
<1>5. CASE UNCHANGED vars
  BY <1>5, RecvInvKept DEF vars, receiving, ToCopy
<1> QED BY <1>1, <1>2, <1>3, <1>4, <1>5 DEF Next

LEMMA InitRecvInv == Init => RecvInv
<1> SUFFICES ASSUME Init PROVE RecvInv
  OBVIOUS
<1>1. /\ recvCb = Recv!Cleared /\ task.pc = "Idle"
      /\ rdr = <<>> /\ arrived = 0 /\ delivered = <<>>
  BY DEF Init, Idle
<1>2. Held = 0 /\ ToCopy = 0
  <2>1. arrived = 0 /\ Len(rdr) = 0 /\ Len(delivered) = 0
    BY <1>1
  <2>2. Held = 0
    BY <2>1 DEF Held
  <2>3. ToCopy = 0
    BY <1>1 DEF ToCopy
  <2> QED BY <2>2, <2>3
<1>3. recvCb.elements = 0 /\ RecvAgrees(InRing)
  BY <1>1, <1>2, UartAssumption DEF Recv!Cleared, InRing, RecvAgrees
<1>4. arrived - Len(delivered) <= RecvCapacity
  BY <1>1, UartAssumption
<1> QED BY <1>1, <1>2, <1>3, <1>4 DEF RecvInv, InSequence

(***************************************************************************)
(* Octets are delivered in order, none is lost on the way to those that    *)
(* were delivered and none repeated, whatever the handler inserts while    *)
(* the task updates elements.                                              *)
(***************************************************************************)
THEOREM ReceivedOctetsInOrder == Spec => []DeliveredInOrder
<1>1. Init => TypeInv /\ RecvInv
  BY InitTypeInv, InitRecvInv
<1>2. TypeInv /\ RecvInv /\ [Next]_vars => TypeInv' /\ RecvInv'
  BY NextTypeInv, NextRecvInv
<1>3. RecvInv => DeliveredInOrder
  BY DEF RecvInv, DeliveredInOrder
<1> QED BY <1>1, <1>2, <1>3, PTL DEF Spec

=============================================================================

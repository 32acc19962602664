----------------------------- MODULE QueueProofs -----------------------------
(***************************************************************************)
(* What holds of the queues of core/queue.c for any number of queues and   *)
(* nodes: the queues stay well linked, no assertion about them fails and a *)
(* traversal stays in its queue; and the queues implement the ones of      *)
(* Deque.  The inductive invariant gathers the first facts and the one     *)
(* they need, that free nodes have no links; the refinement reads the      *)
(* chain of links as a sequence, which the invariant determines.           *)
(***************************************************************************)
EXTENDS Queue, SequenceTheorems, WellFoundedInduction, TLAPS

IInv ==
  /\ TypeOK
  /\ WellLinked
  /\ FreeNodesUnlinked
  /\ CursorInQueue
  /\ HaltsOnEmptyOnly

(* The nodes of a queue after one is pushed at the back or at the front,   *)
(* and after the j-th is detached.                                         *)
Pushed(s, m, n) == [i \in 1 .. m + 1 |-> IF i = m + 1 THEN n ELSE s[i]]
Preceded(s, m, n) == [i \in 1 .. m + 1 |-> IF i = 1 THEN n ELSE s[i - 1]]
Dropped(s, m, j) == [i \in 1 .. m - 1 |-> IF i < j THEN s[i] ELSE s[i + 1]]

-----------------------------------------------------------------------------
(* Initially every queue is empty, which no nodes in order describe.       *)
LEMMA InitIInv == Init => IInv
<1> SUFFICES ASSUME Init PROVE IInv
  OBVIOUS
<1> USE NilAssumption
<1>1. TypeOK
  BY DEF Init, TypeOK, EmptyQueue, NodeOrNil, Traversal
<1>2. WellLinked
  <2> SUFFICES ASSUME NEW k \in Queues
               PROVE  \E s \in [1 .. q[k].elements -> Node] : InOrder(k, s)
    BY DEF WellLinked
  <2>1. q[k].elements = 0 /\ q[k].front = Nil /\ q[k].back = Nil
    BY DEF Init, EmptyQueue
  <2>2. [i \in 1 .. 0 |-> Nil] \in [1 .. 0 -> Node]
    OBVIOUS
  <2>3. \A n \in Node : holder[n] # k
    BY DEF Init
  <2>4. InOrder(k, [i \in 1 .. 0 |-> Nil])
    BY <2>1, <2>3 DEF InOrder
  <2> QED
    BY <2>1, <2>2, <2>4
<1>3. FreeNodesUnlinked /\ CursorInQueue /\ HaltsOnEmptyOnly
  BY DEF Init, FreeNodesUnlinked, CursorInQueue, HaltsOnEmptyOnly, Running
<1> QED
  BY <1>1, <1>2, <1>3 DEF IInv

(* A queue has a front and a back node unless it has no elements.          *)
LEMMA EndsAgree ==
  ASSUME TypeOK, WellLinked, NEW k \in Queues
  PROVE  /\ q[k].front = Nil <=> q[k].elements = 0
         /\ q[k].back = Nil <=> q[k].elements = 0
<1>1. PICK s \in [1 .. q[k].elements -> Node] : InOrder(k, s)
  BY DEF WellLinked
<1>2. q[k].elements \in Nat
  BY DEF TypeOK
<1>3. CASE q[k].elements = 0
  BY <1>1, <1>3 DEF InOrder
<1>4. CASE q[k].elements # 0
  <2>1. s[1] \in Node /\ s[q[k].elements] \in Node
    BY <1>1, <1>2, <1>4
  <2> QED
    BY <1>1, <1>4, <2>1, NilAssumption DEF InOrder
<1> QED
  BY <1>3, <1>4

(* A node in a queue has its links to nodes of the same queue.             *)
LEMMA LinksStayInQueue ==
  ASSUME TypeOK, WellLinked, NEW k \in Queues, NEW m \in Node, holder[m] = k
  PROVE  /\ prev[m] # Nil => holder[prev[m]] = k
         /\ next[m] # Nil => holder[next[m]] = k
         /\ q[k].elements # 0
         /\ q[k].front = m => next[m] = Nil
         /\ q[k].back = m => prev[m] = Nil
         /\ q[k].front # m => next[m] # Nil
         /\ q[k].back # m => prev[m] # Nil
         /\ next[m] # Nil => prev[next[m]] = m
         /\ prev[m] # Nil => next[prev[m]] = m
<1>1. PICK s \in [1 .. q[k].elements -> Node] : InOrder(k, s)
  BY DEF WellLinked
<1>2. q[k].elements \in Nat
  BY DEF TypeOK
<1>3. PICK i \in 1 .. q[k].elements : s[i] = m
  BY <1>1 DEF InOrder
<1>4. \A j \in 1 .. q[k].elements : s[j] \in Node /\ holder[s[j]] = k
  BY <1>1 DEF InOrder
<1>5. /\ prev[m] = IF i = q[k].elements THEN Nil ELSE s[i + 1]
      /\ next[m] = IF i = 1 THEN Nil ELSE s[i - 1]
  BY <1>1, <1>3 DEF InOrder
<1>6. CASE i = q[k].elements
  BY <1>1, <1>2, <1>3, <1>4, <1>5, <1>6, NilAssumption DEF InOrder
<1>7. CASE i # q[k].elements
  <2>1. i + 1 \in 1 .. q[k].elements /\ s[i + 1] \in Node
    BY <1>2, <1>4, <1>7
  <2>2. next[s[i + 1]] = m
    BY <1>1, <1>2, <1>3, <2>1 DEF InOrder
  <2>3. s[i + 1] # m /\ q[k].back # m
    BY <1>1, <1>2, <1>3, <1>7, <2>1 DEF InOrder
  <2> QED
    BY <1>1, <1>2, <1>3, <1>4, <1>5, <1>7, <2>1, <2>2, <2>3, NilAssumption
    DEF InOrder
<1> QED
  BY <1>6, <1>7

(* A step that touches neither queue k nor its nodes.                      *)
Untouched(k) ==
  /\ q'[k] = q[k]
  /\ \A m \in Node : holder'[m] = k <=> holder[m] = k
  /\ \A m \in Node : holder[m] = k => prev'[m] = prev[m] /\ next'[m] = next[m]

(* It leaves the queue in the same order.                                  *)
LEMMA OtherQueues ==
  ASSUME NEW k \in Queues, Untouched(k),
         NEW s \in [1 .. q[k].elements -> Node], InOrder(k, s)
  PROVE  InOrder(k, s)'
<1>1. /\ q'[k] = q[k]
      /\ \A m \in Node : holder'[m] = k <=> holder[m] = k
      /\ \A m \in Node : holder[m] = k => prev'[m] = prev[m] /\ next'[m] = next[m]
  BY DEF Untouched
<1>2. \A i \in 1 .. q[k].elements : s[i] \in Node /\ holder[s[i]] = k
  BY DEF InOrder
<1>3. \A i \in 1 .. q[k].elements :
        prev'[s[i]] = prev[s[i]] /\ next'[s[i]] = next[s[i]]
  BY <1>1, <1>2
<1>4. \A i, j \in 1 .. q[k].elements : s[i] = s[j] => i = j
  BY DEF InOrder
<1>5. \A n \in Node :
        holder'[n] = k <=> \E i \in 1 .. q[k].elements : s[i] = n
  BY <1>1 DEF InOrder
<1>6. /\ q[k].front = IF q[k].elements = 0 THEN Nil ELSE s[1]
      /\ q[k].back = IF q[k].elements = 0 THEN Nil ELSE s[q[k].elements]
  BY DEF InOrder
<1>7. \A i \in 1 .. q[k].elements :
        /\ prev'[s[i]] = IF i = q[k].elements THEN Nil ELSE s[i + 1]
        /\ next'[s[i]] = IF i = 1 THEN Nil ELSE s[i - 1]
  BY <1>3 DEF InOrder
<1> QED
  BY <1>1, <1>4, <1>5, <1>6, <1>7 DEF InOrder

(* The queues are well linked after a step that touches only queue k and   *)
(* leaves the nodes t in order in it.                                      *)
LEMMA OneQueue ==
  ASSUME WellLinked, NEW k \in Queues,
         \A j \in Queues : j # k => Untouched(j),
         NEW m, q'[k].elements = m, NEW t \in [1 .. m -> Node], InOrder(k, t)'
  PROVE  WellLinked'
<1> SUFFICES ASSUME NEW j \in Queues
             PROVE  \E u \in [1 .. q'[j].elements -> Node] : InOrder(j, u)'
  BY DEF WellLinked
<1>1. CASE j = k
  BY <1>1
<1>2. CASE j # k
  <2>1. PICK u \in [1 .. q[j].elements -> Node] : InOrder(j, u)
    BY DEF WellLinked
  <2>2. InOrder(j, u)'
    BY <1>2, <2>1, OtherQueues
  <2>3. q'[j] = q[j]
    BY <1>2 DEF Untouched
  <2> QED
    BY <2>2, <2>3
<1> QED
  BY <1>1, <1>2

-----------------------------------------------------------------------------
(* A push at the back appends the node to those of its queue.              *)
LEMMA PushBackLinks ==
  ASSUME IInv, NEW k \in Queues, NEW n \in Node, NodePushBack(k, n)
  PROVE  /\ \A j \in Queues : j # k => Untouched(j)
         /\ q'[k].elements = q[k].elements + 1
         /\ \E s \in [1 .. q[k].elements -> Node],
               t \in [1 .. q[k].elements + 1 -> Node] :
              /\ InOrder(k, s)
              /\ t = Pushed(s, q[k].elements, n)
              /\ InOrder(k, t)'
<1> USE NilAssumption
<1>1. TypeOK /\ WellLinked /\ FreeNodesUnlinked
  BY DEF IInv
<1>2. holder[n] = Nil /\ prev[n] = Nil /\ next[n] = Nil
  BY <1>1 DEF NodePushBack, FreeNodesUnlinked
<1>3. q[k].elements \in Nat
  BY <1>1 DEF TypeOK
<1>4. holder' = [holder EXCEPT ![n] = k] /\ holder \in [Node -> Queues \cup {Nil}]
  BY <1>1 DEF NodePushBack, TypeOK
<1>5. /\ prev \in [Node -> NodeOrNil] /\ next \in [Node -> NodeOrNil]
      /\ q \in [Queues -> [front : NodeOrNil, back : NodeOrNil, elements : Nat]]
  BY <1>1 DEF TypeOK
<1>6. PICK s \in [1 .. q[k].elements -> Node] : InOrder(k, s)
  BY <1>1 DEF WellLinked
<1> DEFINE last == q[k].elements
<1>7. PICK t \in [1 .. last + 1 -> Node] :
        t[last + 1] = n /\ \A i \in 1 .. last : t[i] = s[i]
  <2>1. Pushed(s, last, n) \in [1 .. last + 1 -> Node]
    BY <1>3 DEF Pushed
  <2>2. /\ Pushed(s, last, n)[last + 1] = n
        /\ \A i \in 1 .. last : Pushed(s, last, n)[i] = s[i]
    BY <1>3 DEF Pushed
  <2> QED
    BY <2>1, <2>2
<1>8. \A i \in 1 .. last : s[i] \in Node /\ holder[s[i]] = k /\ s[i] # n
  BY <1>2, <1>6 DEF InOrder
<1>9. \A i, j \in 1 .. last + 1 : t[i] = t[j] => i = j
  <2>1. \A i, j \in 1 .. last : s[i] = s[j] => i = j
    BY <1>6 DEF InOrder
  <2> QED
    BY <1>3, <1>7, <1>8, <2>1
<1>10. \A m \in Node : holder'[m] = k <=> \E i \in 1 .. last + 1 : t[i] = m
  <2>1. \A m \in Node : holder[m] = k <=> \E i \in 1 .. last : s[i] = m
    BY <1>6 DEF InOrder
  <2> QED
    BY <1>3, <1>4, <1>7, <2>1
<1>11. t = Pushed(s, last, n)
  BY <1>3, <1>7 DEF Pushed
<1>12. CASE last = 0
  <2>1. q[k].front = Nil
    BY <1>1, <1>12, EndsAgree
  <2>2. /\ q' = [q EXCEPT ![k].front = n, ![k].back = n, ![k].elements = @ + 1]
        /\ prev' = prev /\ next' = next
    BY <2>1 DEF NodePushBack
  <2>3. /\ q'[k].front = n /\ q'[k].back = n /\ q'[k].elements = 1
        /\ \A j \in Queues : j # k => q'[j] = q[j]
    BY <1>5, <1>12, <2>2
  <2> HIDE DEF last
  <2>4. last + 1 = 1 /\ q'[k].elements = last + 1 /\ t[1] = n
    BY <1>7, <1>12, <2>3
  <2>5. \A i \in 1 .. last + 1 : prev'[t[i]] = Nil /\ next'[t[i]] = Nil /\ i = 1
    BY <1>2, <2>2, <2>4
  <2>6. InOrder(k, t)'
    BY <1>9, <1>10, <2>3, <2>4, <2>5 DEF InOrder
  <2>7. \A j \in Queues : j # k => Untouched(j)
    BY <1>2, <1>4, <2>2, <2>3 DEF Untouched
  <2> QED
    BY <1>6, <1>7, <1>11, <2>4, <2>6, <2>7 DEF last
<1>13. CASE last # 0
  <2> DEFINE ref == q[k].back
  <2>1. q[k].front # Nil
    BY <1>1, <1>13, EndsAgree
  <2>2. ref = s[last] /\ last \in 1 .. last /\ 1 \in 1 .. last /\ ref \in Node
        /\ holder[ref] = k /\ ref # n /\ q[k].front = s[1]
    BY <1>3, <1>6, <1>8, <1>13 DEF InOrder
  <2>3. prev[ref] = Nil
    BY <1>6, <2>2 DEF InOrder
  <2>4. /\ q' = [q EXCEPT ![k].back = n, ![k].elements = @ + 1]
        /\ prev' = Beyond(prev, ref, n)
        /\ next' = Behind(prev, next, ref, n)
    BY <2>1 DEF NodePushBack
  <2>5. /\ q'[k].front = s[1] /\ q'[k].back = n /\ q'[k].elements = last + 1
        /\ \A j \in Queues : j # k => q'[j] = q[j]
    BY <1>5, <2>2, <2>4
  <2>6. /\ prev'[n] = Nil /\ prev'[ref] = n
        /\ \A m \in Node : m # n /\ m # ref => prev'[m] = prev[m]
    BY <1>5, <2>2, <2>3, <2>4 DEF Beyond
  <2>7. /\ next'[n] = ref
        /\ \A m \in Node : m # n => next'[m] = next[m]
    BY <2>2, <2>3, <2>4 DEF Behind
  <2>8. \A i \in 1 .. last :
          /\ prev'[s[i]] = IF i = last THEN n ELSE s[i + 1]
          /\ next'[s[i]] = IF i = 1 THEN Nil ELSE s[i - 1]
    BY <1>3, <1>6, <1>8, <2>2, <2>6, <2>7 DEF InOrder
  <2>9. \A i \in 1 .. last + 1 :
          /\ prev'[t[i]] = IF i = last + 1 THEN Nil ELSE t[i + 1]
          /\ next'[t[i]] = IF i = 1 THEN Nil ELSE t[i - 1]
    BY <1>3, <1>7, <1>13, <2>2, <2>6, <2>7, <2>8
  <2>10. InOrder(k, t)'
    BY <1>3, <1>7, <1>9, <1>10, <2>2, <2>5, <2>9 DEF InOrder
  <2>11. \A j \in Queues : j # k => Untouched(j)
    BY <1>2, <1>4, <2>2, <2>5, <2>6, <2>7 DEF Untouched
  <2> QED
    BY <1>6, <1>7, <1>11, <2>5, <2>10, <2>11
<1> QED
  BY <1>12, <1>13

(* A push at the front puts the node before those of its queue.            *)
LEMMA PushFrontLinks ==
  ASSUME IInv, NEW k \in Queues, NEW n \in Node, NodePushFront(k, n)
  PROVE  /\ \A j \in Queues : j # k => Untouched(j)
         /\ q'[k].elements = q[k].elements + 1
         /\ \E s \in [1 .. q[k].elements -> Node],
               t \in [1 .. q[k].elements + 1 -> Node] :
              /\ InOrder(k, s)
              /\ t = Preceded(s, q[k].elements, n)
              /\ InOrder(k, t)'
<1> USE NilAssumption
<1>1. TypeOK /\ WellLinked /\ FreeNodesUnlinked
  BY DEF IInv
<1>2. holder[n] = Nil /\ prev[n] = Nil /\ next[n] = Nil
  BY <1>1 DEF NodePushFront, FreeNodesUnlinked
<1>3. q[k].elements \in Nat
  BY <1>1 DEF TypeOK
<1>4. holder' = [holder EXCEPT ![n] = k] /\ holder \in [Node -> Queues \cup {Nil}]
  BY <1>1 DEF NodePushFront, TypeOK
<1>5. /\ prev \in [Node -> NodeOrNil] /\ next \in [Node -> NodeOrNil]
      /\ q \in [Queues -> [front : NodeOrNil, back : NodeOrNil, elements : Nat]]
  BY <1>1 DEF TypeOK
<1>6. PICK s \in [1 .. q[k].elements -> Node] : InOrder(k, s)
  BY <1>1 DEF WellLinked
<1> DEFINE last == q[k].elements
<1>7. PICK t \in [1 .. last + 1 -> Node] :
        t[1] = n /\ \A i \in 2 .. last + 1 : t[i] = s[i - 1]
  <2>1. Preceded(s, last, n) \in [1 .. last + 1 -> Node]
    BY <1>3 DEF Preceded
  <2>2. /\ Preceded(s, last, n)[1] = n
        /\ \A i \in 2 .. last + 1 : Preceded(s, last, n)[i] = s[i - 1]
    BY <1>3 DEF Preceded
  <2> QED
    BY <2>1, <2>2
<1>8. \A i \in 1 .. last :
        s[i] \in Node /\ holder[s[i]] = k /\ s[i] # n /\ t[i + 1] = s[i]
  <2>1. \A i \in 1 .. last : s[i] \in Node /\ holder[s[i]] = k /\ s[i] # n
    BY <1>2, <1>6 DEF InOrder
  <2>2. \A i \in 1 .. last : t[i + 1] = s[i]
    BY <1>3, <1>7
  <2> QED
    BY <2>1, <2>2
<1>9. \A i, j \in 1 .. last + 1 : t[i] = t[j] => i = j
  <2>1. \A i, j \in 1 .. last : s[i] = s[j] => i = j
    BY <1>6 DEF InOrder
  <2>2. \A i \in 2 .. last + 1 : i - 1 \in 1 .. last /\ t[i] = s[i - 1]
    BY <1>3, <1>7
  <2>3. \A i \in 2 .. last + 1 : t[i] # n
    BY <1>8, <2>2
  <2>4. \A i, j \in 2 .. last + 1 : t[i] = t[j] => i = j
    BY <1>3, <2>1, <2>2
  <2> QED
    BY <1>3, <1>7, <2>3, <2>4
<1>10. \A m \in Node : holder'[m] = k <=> \E i \in 1 .. last + 1 : t[i] = m
  <2>1. \A m \in Node : holder[m] = k <=> \E i \in 1 .. last : s[i] = m
    BY <1>6 DEF InOrder
  <2>2. \A m \in Node : holder'[m] = k <=> m = n \/ holder[m] = k
    BY <1>4
  <2> SUFFICES ASSUME NEW m \in Node
               PROVE  m = n \/ (\E i \in 1 .. last : s[i] = m)
                        <=> \E i \in 1 .. last + 1 : t[i] = m
    BY <2>1, <2>2
  <2>3. ASSUME NEW i \in 1 .. last, s[i] = m
        PROVE  \E l \in 1 .. last + 1 : t[l] = m
    <3>1. i + 1 \in 1 .. last + 1 /\ t[i + 1] = m
      BY <1>3, <1>8, <2>3
    <3> QED
      BY <3>1
  <2>4. ASSUME NEW i \in 1 .. last + 1, t[i] = m, i # 1
        PROVE  \E l \in 1 .. last : s[l] = m
    <3>1. i - 1 \in 1 .. last /\ s[i - 1] = m
      BY <1>3, <1>7, <2>4
    <3> QED
      BY <3>1
  <2>5. 1 \in 1 .. last + 1 /\ t[1] = n
    BY <1>3, <1>7
  <2> QED
    BY <2>3, <2>4, <2>5
<1>11. t = Preceded(s, last, n)
  <2>1. \A i \in 1 .. last + 1 : t[i] = IF i = 1 THEN n ELSE s[i - 1]
    BY <1>3, <1>7
  <2> QED
    BY <2>1 DEF Preceded
<1>12. CASE last = 0
  <2>1. q[k].back = Nil
    BY <1>1, <1>12, EndsAgree
  <2>2. /\ q' = [q EXCEPT ![k].front = n, ![k].back = n, ![k].elements = @ + 1]
        /\ prev' = prev /\ next' = next
    BY <2>1 DEF NodePushFront
  <2>3. /\ q'[k].front = n /\ q'[k].back = n /\ q'[k].elements = 1
        /\ \A j \in Queues : j # k => q'[j] = q[j]
    BY <1>5, <1>12, <2>2
  <2> HIDE DEF last
  <2>4. last + 1 = 1 /\ q'[k].elements = last + 1 /\ t[1] = n
    BY <1>7, <1>12, <2>3
  <2>5. \A i \in 1 .. last + 1 : prev'[t[i]] = Nil /\ next'[t[i]] = Nil /\ i = 1
    BY <1>2, <2>2, <2>4
  <2>6. InOrder(k, t)'
    BY <1>9, <1>10, <2>3, <2>4, <2>5 DEF InOrder
  <2>7. \A j \in Queues : j # k => Untouched(j)
    BY <1>2, <1>4, <2>2, <2>3 DEF Untouched
  <2> QED
    BY <1>6, <1>7, <1>11, <2>4, <2>6, <2>7 DEF last
<1>13. CASE last # 0
  <2> DEFINE ref == q[k].front
  <2>1. q[k].back # Nil
    BY <1>1, <1>13, EndsAgree
  <2>2. ref = s[1] /\ last \in 1 .. last /\ 1 \in 1 .. last /\ ref \in Node
        /\ holder[ref] = k /\ ref # n /\ q[k].back = s[last]
    BY <1>3, <1>6, <1>8, <1>13 DEF InOrder
  <2>3. next[ref] = Nil
    BY <1>6, <2>2 DEF InOrder
  <2>4. /\ q' = [q EXCEPT ![k].front = n, ![k].elements = @ + 1]
        /\ next' = Beyond(next, ref, n)
        /\ prev' = Behind(next, prev, ref, n)
    BY <2>1 DEF NodePushFront
  <2>5. /\ q'[k].back = s[last] /\ q'[k].front = n /\ q'[k].elements = last + 1
        /\ \A j \in Queues : j # k => q'[j] = q[j]
    BY <1>5, <2>2, <2>4
  <2>6. /\ next'[n] = Nil /\ next'[ref] = n
        /\ \A m \in Node : m # n /\ m # ref => next'[m] = next[m]
    BY <1>5, <2>2, <2>3, <2>4 DEF Beyond
  <2>7. /\ prev'[n] = ref
        /\ \A m \in Node : m # n => prev'[m] = prev[m]
    BY <2>2, <2>3, <2>4 DEF Behind
  <2>8. \A i \in 1 .. last :
          /\ prev'[s[i]] = IF i = last THEN Nil ELSE s[i + 1]
          /\ next'[s[i]] = IF i = 1 THEN n ELSE s[i - 1]
    BY <1>3, <1>6, <1>8, <2>2, <2>6, <2>7 DEF InOrder
  <2>9. \A i \in 1 .. last + 1 :
          /\ prev'[t[i]] = IF i = last + 1 THEN Nil ELSE t[i + 1]
          /\ next'[t[i]] = IF i = 1 THEN Nil ELSE t[i - 1]
    <3>1. prev'[t[1]] = t[2] /\ next'[t[1]] = Nil /\ last + 1 # 1
      BY <1>3, <1>7, <1>8, <1>13, <2>2, <2>6, <2>7
    <3>2. \A i \in 2 .. last + 1 :
            /\ i - 1 \in 1 .. last
            /\ t[i] = s[i - 1]
            /\ i # last + 1 => t[i + 1] = s[i]
            /\ i # 2 => t[i - 1] = s[i - 2]
      BY <1>3, <1>7
    <3>3. \A i \in 2 .. last + 1 :
            /\ prev'[t[i]] = IF i = last + 1 THEN Nil ELSE t[i + 1]
            /\ next'[t[i]] = t[i - 1]
      BY <1>3, <1>7, <2>8, <3>2
    <3> QED
      BY <1>3, <3>1, <3>3
  <2>10. InOrder(k, t)'
    <3>1. t[last + 1] = s[last]
      BY <1>3, <1>8, <2>2
    <3> QED
      BY <1>3, <1>7, <1>9, <1>10, <2>5, <2>9, <3>1 DEF InOrder
  <2>11. \A j \in Queues : j # k => Untouched(j)
    BY <1>2, <1>4, <2>2, <2>5, <2>6, <2>7 DEF Untouched
  <2> QED
    BY <1>6, <1>7, <1>11, <2>5, <2>10, <2>11
<1> QED
  BY <1>12, <1>13

(* A detached node leaves the others of its queue in the same order.       *)
LEMMA DetachLinks ==
  ASSUME IInv, NEW k \in Queues, NEW n \in Node, holder[n] = k,
         Detached(k, n), holder' = [holder EXCEPT ![n] = Nil]
  PROVE  /\ \A l \in Queues : l # k => Untouched(l)
         /\ q'[k].elements = q[k].elements - 1
         /\ \E s \in [1 .. q[k].elements -> Node], j \in 1 .. q[k].elements,
               t \in [1 .. q[k].elements - 1 -> Node] :
              /\ InOrder(k, s)
              /\ s[j] = n
              /\ t = Dropped(s, q[k].elements, j)
              /\ InOrder(k, t)'
<1> USE NilAssumption
<1>1. TypeOK /\ WellLinked
  BY DEF IInv
<1>2. q[k].elements \in Nat
  BY <1>1 DEF TypeOK
<1>3. /\ prev \in [Node -> NodeOrNil] /\ next \in [Node -> NodeOrNil]
      /\ q \in [Queues -> [front : NodeOrNil, back : NodeOrNil, elements : Nat]]
      /\ holder \in [Node -> Queues \cup {Nil}]
  BY <1>1 DEF TypeOK
<1>4. PICK s \in [1 .. q[k].elements -> Node] : InOrder(k, s)
  BY <1>1 DEF WellLinked
<1> DEFINE last == q[k].elements
<1>5. PICK j \in 1 .. last : s[j] = n
  BY <1>4 DEF InOrder
<1>6. last - 1 \in Nat
  BY <1>2, <1>5
<1>7. PICK t \in [1 .. last - 1 -> Node] :
        \A i \in 1 .. last - 1 : t[i] = IF i < j THEN s[i] ELSE s[i + 1]
  <2>1. Dropped(s, last, j) \in [1 .. last - 1 -> Node]
    BY <1>2, <1>5 DEF Dropped
  <2>2. \A i \in 1 .. last - 1 :
          Dropped(s, last, j)[i] = IF i < j THEN s[i] ELSE s[i + 1]
    BY DEF Dropped
  <2> QED
    BY <2>1, <2>2
<1>8. \A i \in 1 .. last : s[i] \in Node /\ holder[s[i]] = k
  BY <1>4 DEF InOrder
<1>9. \A i, l \in 1 .. last : s[i] = s[l] => i = l
  BY <1>4 DEF InOrder
<1>10. \A i \in 1 .. last - 1 :
         /\ i \in 1 .. last /\ i + 1 \in 1 .. last
         /\ i < j => t[i] = s[i] /\ i # j
         /\ ~ i < j => t[i] = s[i + 1] /\ i + 1 # j
  BY <1>2, <1>5, <1>7
<1>11. \A i, l \in 1 .. last - 1 : t[i] = t[l] => i = l
  BY <1>2, <1>5, <1>9, <1>10
<1>12. \A m \in Node : holder'[m] = k <=> \E i \in 1 .. last - 1 : t[i] = m
  <2> SUFFICES ASSUME NEW m \in Node
               PROVE  holder'[m] = k <=> \E i \in 1 .. last - 1 : t[i] = m
    OBVIOUS
  <2>1. holder'[m] = k <=> m # n /\ holder[m] = k
    BY <1>3
  <2>2. ASSUME NEW i \in 1 .. last - 1, t[i] = m PROVE m # n /\ holder[m] = k
    BY <1>5, <1>8, <1>9, <1>10, <2>2
  <2>3. ASSUME m # n, holder[m] = k PROVE \E i \in 1 .. last - 1 : t[i] = m
    <3>1. PICK i \in 1 .. last : s[i] = m
      BY <1>4, <2>3 DEF InOrder
    <3>2. CASE i < j
      <4>1. i \in 1 .. last - 1
        BY <1>2, <1>5, <3>2
      <4> QED
        BY <1>10, <3>1, <3>2, <4>1
    <3>3. CASE ~ i < j
      <4>1. i - 1 \in 1 .. last - 1 /\ ~ (i - 1) < j /\ (i - 1) + 1 = i
        BY <1>2, <1>5, <2>3, <3>1, <3>3
      <4> QED
        BY <1>10, <3>1, <4>1
    <3> QED
      BY <3>2, <3>3
  <2> QED
    BY <2>1, <2>2, <2>3
<1>13. /\ prev[n] = IF j = last THEN Nil ELSE s[j + 1]
       /\ next[n] = IF j = 1 THEN Nil ELSE s[j - 1]
  BY <1>4, <1>5 DEF InOrder
<1>14. /\ \A m \in Node : m # n =>
             /\ prev'[m] = IF m = next[n] THEN prev[n] ELSE prev[m]
             /\ next'[m] = IF m = prev[n] THEN next[n] ELSE next[m]
       /\ prev'[n] = Nil /\ next'[n] = Nil
  BY DEF Detached, Bypassed
<1>15. /\ q'[k].front = IF q[k].front = n THEN prev[n] ELSE q[k].front
       /\ q'[k].back = IF q[k].back = n THEN next[n] ELSE q[k].back
       /\ q'[k].elements = last - 1
       /\ \A l \in Queues : l # k => q'[l] = q[l]
  BY <1>3 DEF Detached
<1>16. \A i \in 1 .. last :
         /\ prev[s[i]] = IF i = last THEN Nil ELSE s[i + 1]
         /\ next[s[i]] = IF i = 1 THEN Nil ELSE s[i - 1]
  BY <1>4 DEF InOrder
<1>17. \A i \in 1 .. last - 1 :
         /\ prev'[t[i]] = IF i = last - 1 THEN Nil ELSE t[i + 1]
         /\ next'[t[i]] = IF i = 1 THEN Nil ELSE t[i - 1]
  <2> SUFFICES ASSUME NEW i \in 1 .. last - 1
               PROVE  /\ prev'[t[i]] = IF i = last - 1 THEN Nil ELSE t[i + 1]
                      /\ next'[t[i]] = IF i = 1 THEN Nil ELSE t[i - 1]
    OBVIOUS
  <2>1. CASE i < j
    <3>1. t[i] = s[i] /\ s[i] # n /\ i \in 1 .. last
      BY <1>5, <1>9, <1>10, <2>1
    <3>2. next'[s[i]] = next[s[i]]
      BY <1>2, <1>5, <1>8, <1>9, <1>13, <1>14, <2>1, <3>1
    <3>3. i # 1 => t[i - 1] = s[i - 1]
      BY <1>2, <1>10, <2>1
    <3>4. CASE i + 1 = j
      <4>1. s[i] = next[n]
        BY <1>2, <1>13, <3>4
      <4>2. prev'[s[i]] = prev[n]
        BY <1>8, <1>14, <3>1, <4>1
      <4>3. j # last => t[i + 1] = s[j + 1]
        BY <1>2, <1>10, <3>4
      <4> QED
        BY <1>2, <1>13, <1>16, <3>1, <3>2, <3>3, <3>4, <4>2, <4>3
    <3>5. CASE i + 1 # j
      <4>1. i + 1 < j /\ i # last - 1 /\ i + 1 \in 1 .. last - 1
        BY <1>2, <1>5, <2>1, <3>5
      <4>2. s[i] # next[n]
        BY <1>2, <1>5, <1>8, <1>9, <1>13, <3>1, <4>1
      <4>3. prev'[s[i]] = prev[s[i]]
        BY <1>8, <1>14, <3>1, <4>2
      <4>4. t[i + 1] = s[i + 1]
        BY <1>10, <4>1
      <4> QED
        BY <1>2, <1>16, <3>1, <3>2, <3>3, <4>1, <4>3, <4>4
    <3> QED
      BY <3>4, <3>5
  <2>2. CASE ~ i < j
    <3>1. t[i] = s[i + 1] /\ s[i + 1] # n /\ i + 1 \in 1 .. last
      BY <1>5, <1>9, <1>10, <2>2
    <3>2. prev'[s[i + 1]] = prev[s[i + 1]]
      BY <1>2, <1>5, <1>8, <1>9, <1>13, <1>14, <2>2, <3>1
    <3>3. i # last - 1 => t[i + 1] = s[i + 2] /\ s[i + 2] = s[(i + 1) + 1]
      BY <1>2, <1>10, <2>2
    <3>4. CASE i = j
      <4>1. s[i + 1] = prev[n]
        BY <1>2, <1>13, <3>1, <3>4
      <4>2. next'[s[i + 1]] = next[n]
        BY <1>8, <1>14, <3>1, <4>1
      <4>3. i # 1 => t[i - 1] = s[i - 1]
        BY <1>2, <1>10, <3>4
      <4> QED
        BY <1>2, <1>13, <1>16, <3>1, <3>2, <3>3, <3>4, <4>2, <4>3
    <3>5. CASE i # j
      <4>1. j < i /\ i # 1 /\ i - 1 \in 1 .. last - 1 /\ ~ (i - 1) < j
        BY <1>2, <1>5, <2>2, <3>5
      <4>2. s[i + 1] # prev[n]
        BY <1>2, <1>5, <1>8, <1>9, <1>13, <3>1, <4>1
      <4>3. next'[s[i + 1]] = next[s[i + 1]]
        BY <1>8, <1>14, <3>1, <4>2
      <4>4. t[i - 1] = s[i] /\ s[i] = s[(i + 1) - 1]
        BY <1>2, <1>10, <4>1
      <4> QED
        BY <1>2, <1>16, <3>1, <3>2, <3>3, <4>1, <4>3, <4>4
    <3> QED
      BY <3>4, <3>5
  <2> QED
    BY <2>1, <2>2
<1>18. /\ q'[k].front = IF last - 1 = 0 THEN Nil ELSE t[1]
       /\ q'[k].back = IF last - 1 = 0 THEN Nil ELSE t[last - 1]
  <2>1. 1 \in 1 .. last /\ last \in 1 .. last /\ q[k].front = s[1] /\ q[k].back = s[last]
    BY <1>2, <1>4, <1>5 DEF InOrder
  <2>2. /\ q[k].front = n <=> j = 1
        /\ q[k].back = n <=> j = last
    BY <1>5, <1>9, <2>1
  <2>3. last - 1 # 0 => /\ t[1] = IF j = 1 THEN s[2] ELSE s[1]
                        /\ t[last - 1] = IF j = last THEN s[last - 1] ELSE s[last]
    BY <1>2, <1>5, <1>7, <1>10
  <2> QED
    BY <1>2, <1>5, <1>13, <1>15, <2>1, <2>2, <2>3
<1>19. InOrder(k, t)'
  BY <1>11, <1>12, <1>15, <1>17, <1>18 DEF InOrder
<1>20. \A l \in Queues : l # k => Untouched(l)
  <2>1. \A m \in Node : m # n /\ holder[m] # k =>
          prev'[m] = prev[m] /\ next'[m] = next[m]
    BY <1>1, <1>14, LinksStayInQueue
  <2> QED
    BY <1>3, <1>15, <2>1 DEF Untouched
<1>21. t = Dropped(s, last, j)
  BY <1>7 DEF Dropped
<1> QED
  BY <1>4, <1>5, <1>7, <1>15, <1>19, <1>20, <1>21

-----------------------------------------------------------------------------
(* A push never fails an assertion, and sets n's links or leaves it alone. *)
LEMMA PushBackIInv ==
  ASSUME IInv, NEW k \in Queues, NEW n \in Node, NodePushBack(k, n)
  PROVE  IInv'
<1> USE NilAssumption
<1>1. /\ TypeOK /\ WellLinked /\ FreeNodesUnlinked /\ CursorInQueue
      /\ holder[n] = Nil
  BY DEF IInv, NodePushBack
<1>2. q[k].front = Nil <=> q[k].back = Nil
  BY <1>1, EndsAgree
<1>3. Called("PushBack", n)
  BY <1>2 DEF NodePushBack, AssertState
<1>4. /\ holder' = [holder EXCEPT ![n] = k] /\ trv' = trv /\ current' = current
  BY DEF NodePushBack, traversal
<1>5. /\ prev' = prev \/ prev' = Beyond(prev, q[k].back, n)
      /\ next' = next \/ next' = Behind(prev, next, q[k].back, n)
      /\ q[k].front = Nil => prev' = prev /\ next' = next
      /\ q[k].front # Nil => q[k].back # Nil
  BY <1>2 DEF NodePushBack
<1>6. q[k].back # Nil => q[k].back \in Node /\ holder[q[k].back] = k
  <2>1. PICK s \in [1 .. q[k].elements -> Node] : InOrder(k, s)
    BY <1>1 DEF WellLinked
  <2>2. q[k].elements \in Nat
    BY <1>1 DEF TypeOK
  <2> QED
    BY <2>1, <2>2 DEF InOrder
<1>7. TypeOK'
  <2>1. prev' \in [Node -> NodeOrNil] /\ next' \in [Node -> NodeOrNil]
    BY <1>1, <1>5, <1>6 DEF TypeOK, Beyond, Behind, NodeOrNil
  <2>2. q' \in [Queues -> [front : NodeOrNil, back : NodeOrNil, elements : Nat]]
    <3>1. \/ q' = [q EXCEPT ![k].front = n, ![k].back = n, ![k].elements = @ + 1]
          \/ q' = [q EXCEPT ![k].back = n, ![k].elements = @ + 1]
      BY DEF NodePushBack
    <3> QED
      BY <1>1, <3>1 DEF TypeOK, NodeOrNil
  <2>3. /\ holder' \in [Node -> Queues \cup {Nil}]
        /\ trv' \in Traversal /\ current' \in NodeOrNil
    BY <1>1, <1>4 DEF TypeOK
  <2>4. call' \in [op : {"Init", "PushBack", "PushFront", "PopFront", "PopBack",
                     "Detach", "TrvInit", "TrvReset", "TrvStep", "Halt"},
               node : NodeOrNil]
    BY <1>3 DEF Called, NodeOrNil
  <2> QED
    BY <2>1, <2>2, <2>3, <2>4 DEF TypeOK
<1>8. FreeNodesUnlinked'
  <2> SUFFICES ASSUME NEW m \in Node, holder'[m] = Nil
               PROVE  prev'[m] = Nil /\ next'[m] = Nil
    BY DEF FreeNodesUnlinked
  <2>1. m # n /\ holder[m] = Nil /\ prev[m] = Nil /\ next[m] = Nil
    BY <1>1, <1>4 DEF TypeOK, FreeNodesUnlinked
  <2>2. CASE q[k].front = Nil
    BY <1>5, <2>1, <2>2
  <2>3. CASE q[k].front # Nil
    <3> DEFINE ref == q[k].back
    <3>1. ref \in Node /\ holder[ref] = k /\ m # ref
      BY <1>5, <1>6, <2>1, <2>3
    <3>2. m # prev[ref]
      BY <1>1, <2>1, <3>1, LinksStayInQueue
    <3>3. prev'[m] = prev[m]
      BY <1>1, <1>5, <2>1, <3>1 DEF Beyond, TypeOK
    <3>4. next'[m] = next[m]
      BY <1>5, <2>1, <3>2 DEF Behind
    <3> QED
      BY <2>1, <3>3, <3>4
  <2> QED
    BY <2>2, <2>3
<1>9. CursorInQueue'
  BY <1>1, <1>4 DEF CursorInQueue, TypeOK, NodeOrNil, Traversal
<1>10. HaltsOnEmptyOnly'
  BY <1>3 DEF HaltsOnEmptyOnly, Running, Called
<1>11. WellLinked'
  BY <1>1, PushBackLinks, OneQueue
<1> QED
  BY <1>7, <1>8, <1>9, <1>10, <1>11 DEF IInv

(* The same of a push at the front.                                        *)
LEMMA PushFrontIInv ==
  ASSUME IInv, NEW k \in Queues, NEW n \in Node, NodePushFront(k, n)
  PROVE  IInv'
<1> USE NilAssumption
<1>1. /\ TypeOK /\ WellLinked /\ FreeNodesUnlinked /\ CursorInQueue
      /\ holder[n] = Nil
  BY DEF IInv, NodePushFront
<1>2. q[k].back = Nil <=> q[k].front = Nil
  BY <1>1, EndsAgree
<1>3. Called("PushFront", n)
  BY <1>2 DEF NodePushFront, AssertState
<1>4. /\ holder' = [holder EXCEPT ![n] = k] /\ trv' = trv /\ current' = current
  BY DEF NodePushFront, traversal
<1>5. /\ next' = next \/ next' = Beyond(next, q[k].front, n)
      /\ prev' = prev \/ prev' = Behind(next, prev, q[k].front, n)
      /\ q[k].back = Nil => next' = next /\ prev' = prev
      /\ q[k].back # Nil => q[k].front # Nil
  BY <1>2 DEF NodePushFront
<1>6. q[k].front # Nil => q[k].front \in Node /\ holder[q[k].front] = k
  <2>1. PICK s \in [1 .. q[k].elements -> Node] : InOrder(k, s)
    BY <1>1 DEF WellLinked
  <2>2. q[k].elements \in Nat
    BY <1>1 DEF TypeOK
  <2> QED
    BY <2>1, <2>2 DEF InOrder
<1>7. TypeOK'
  <2>1. next' \in [Node -> NodeOrNil] /\ prev' \in [Node -> NodeOrNil]
    BY <1>1, <1>5, <1>6 DEF TypeOK, Beyond, Behind, NodeOrNil
  <2>2. q' \in [Queues -> [front : NodeOrNil, back : NodeOrNil, elements : Nat]]
    <3>1. \/ q' = [q EXCEPT ![k].front = n, ![k].back = n, ![k].elements = @ + 1]
          \/ q' = [q EXCEPT ![k].front = n, ![k].elements = @ + 1]
      BY DEF NodePushFront
    <3> QED
      BY <1>1, <3>1 DEF TypeOK, NodeOrNil
  <2>3. /\ holder' \in [Node -> Queues \cup {Nil}]
        /\ trv' \in Traversal /\ current' \in NodeOrNil
    BY <1>1, <1>4 DEF TypeOK
  <2>4. call' \in [op : {"Init", "PushBack", "PushFront", "PopFront", "PopBack",
                     "Detach", "TrvInit", "TrvReset", "TrvStep", "Halt"},
               node : NodeOrNil]
    BY <1>3 DEF Called, NodeOrNil
  <2> QED
    BY <2>1, <2>2, <2>3, <2>4 DEF TypeOK
<1>8. FreeNodesUnlinked'
  <2> SUFFICES ASSUME NEW m \in Node, holder'[m] = Nil
               PROVE  next'[m] = Nil /\ prev'[m] = Nil
    BY DEF FreeNodesUnlinked
  <2>1. m # n /\ holder[m] = Nil /\ next[m] = Nil /\ prev[m] = Nil
    BY <1>1, <1>4 DEF TypeOK, FreeNodesUnlinked
  <2>2. CASE q[k].back = Nil
    BY <1>5, <2>1, <2>2
  <2>3. CASE q[k].back # Nil
    <3> DEFINE ref == q[k].front
    <3>1. ref \in Node /\ holder[ref] = k /\ m # ref
      BY <1>5, <1>6, <2>1, <2>3
    <3>2. m # next[ref]
      BY <1>1, <2>1, <3>1, LinksStayInQueue
    <3>3. next'[m] = next[m]
      BY <1>1, <1>5, <2>1, <3>1 DEF Beyond, TypeOK
    <3>4. prev'[m] = prev[m]
      BY <1>5, <2>1, <3>2 DEF Behind
    <3> QED
      BY <2>1, <3>3, <3>4
  <2> QED
    BY <2>2, <2>3
<1>9. CursorInQueue'
  BY <1>1, <1>4 DEF CursorInQueue, TypeOK, NodeOrNil, Traversal
<1>10. HaltsOnEmptyOnly'
  BY <1>3 DEF HaltsOnEmptyOnly, Running, Called
<1>11. WellLinked'
  BY <1>1, PushFrontLinks, OneQueue
<1> QED
  BY <1>7, <1>8, <1>9, <1>10, <1>11 DEF IInv

(* Nor does a detach, which clears the links of the node it takes.         *)
LEMMA DetachIInv ==
  ASSUME IInv, NEW k \in Queues, NEW n \in Node, holder[n] = k,
         NEW op \in {"PopFront", "PopBack", "Detach"}, Detaches(k, n, op)
  PROVE  IInv'
<1> USE NilAssumption
<1>1. TypeOK /\ WellLinked /\ FreeNodesUnlinked /\ CursorInQueue
  BY DEF IInv
<1>2. /\ Detached(k, n) /\ n # current
      /\ holder' = [holder EXCEPT ![n] = Nil] /\ trv' = trv /\ current' = current
  BY DEF Detaches, traversal
<1>3. Called(op, n)
  <2>1. q[k].elements # 0 /\ q[k].front # Nil /\ q[k].back # Nil
    BY <1>1, EndsAgree, LinksStayInQueue
  <2>2. Detachable(k, n)
    BY <1>1, <2>1, LinksStayInQueue DEF Detachable
  <2> QED
    BY <2>2 DEF Detaches, AssertState
<1>4. TypeOK'
  <2>1. prev' \in [Node -> NodeOrNil] /\ next' \in [Node -> NodeOrNil]
    BY <1>1, <1>2 DEF TypeOK, Detached, Bypassed, NodeOrNil
  <2>2. q[k].elements - 1 \in Nat
    BY <1>1, LinksStayInQueue DEF TypeOK
  <2>3. q' \in [Queues -> [front : NodeOrNil, back : NodeOrNil, elements : Nat]]
    <3>1. prev[n] \in NodeOrNil /\ next[n] \in NodeOrNil
      BY <1>1 DEF TypeOK
    <3> DEFINE f == IF q[k].front = n THEN prev[n] ELSE q[k].front
               b == IF q[k].back = n THEN next[n] ELSE q[k].back
    <3>2. f \in NodeOrNil /\ b \in NodeOrNil
      BY <1>1, <3>1 DEF TypeOK
    <3>3. q' = [q EXCEPT ![k] = [front |-> f, back |-> b,
                                 elements |-> q[k].elements - 1]]
      BY <1>1, <1>2 DEF TypeOK, Detached
    <3> HIDE DEF f, b
    <3> QED
      BY <1>1, <2>2, <3>2, <3>3 DEF TypeOK
  <2>4. /\ holder' \in [Node -> Queues \cup {Nil}]
        /\ trv' \in Traversal /\ current' \in NodeOrNil
    BY <1>1, <1>2 DEF TypeOK
  <2>5. call' \in [op : {"Init", "PushBack", "PushFront", "PopFront", "PopBack",
                     "Detach", "TrvInit", "TrvReset", "TrvStep", "Halt"},
               node : NodeOrNil]
    BY <1>3 DEF Called, NodeOrNil
  <2> QED
    BY <2>1, <2>3, <2>4, <2>5 DEF TypeOK
<1>5. FreeNodesUnlinked'
  <2> SUFFICES ASSUME NEW m \in Node, holder'[m] = Nil
               PROVE  prev'[m] = Nil /\ next'[m] = Nil
    BY DEF FreeNodesUnlinked
  <2>1. CASE m = n
    BY <1>2, <2>1 DEF Detached, Bypassed
  <2>2. CASE m # n
    <3>1. holder[m] = Nil /\ prev[m] = Nil /\ next[m] = Nil
      BY <1>1, <1>2, <2>2 DEF TypeOK, FreeNodesUnlinked
    <3>2. m # prev[n] /\ m # next[n]
      BY <1>1, <3>1, LinksStayInQueue
    <3> QED
      BY <1>2, <2>2, <3>1, <3>2 DEF Detached, Bypassed
  <2> QED
    BY <2>1, <2>2
<1>6. CursorInQueue'
  BY <1>1, <1>2 DEF CursorInQueue, TypeOK, NodeOrNil
<1>7. HaltsOnEmptyOnly'
  BY <1>3 DEF HaltsOnEmptyOnly, Running, Called
<1>8. WellLinked'
  <2>1. /\ \A l \in Queues : l # k => Untouched(l)
        /\ q'[k].elements = q[k].elements - 1
        /\ \E t \in [1 .. q[k].elements - 1 -> Node] : InOrder(k, t)'
    BY <1>2, DetachLinks
  <2> QED
    BY <1>1, <2>1, OneQueue
<1> QED
  BY <1>4, <1>5, <1>6, <1>7, <1>8 DEF IInv

(* The node at an end of a queue is in it.                                 *)
LEMMA EndsInQueue ==
  ASSUME TypeOK, WellLinked, NEW k \in Queues
  PROVE  /\ q[k].front # Nil => q[k].front \in Node /\ holder[q[k].front] = k
         /\ q[k].back # Nil => q[k].back \in Node /\ holder[q[k].back] = k
<1>1. PICK s \in [1 .. q[k].elements -> Node] : InOrder(k, s)
  BY DEF WellLinked
<1>2. q[k].elements \in Nat
  BY DEF TypeOK
<1> QED
  BY <1>1, <1>2 DEF InOrder

(* A step of the traversal moves its cursor within the queue.              *)
LEMMA TraversalIInv ==
  ASSUME IInv, UNCHANGED <<links, holder>>, trv' \in Traversal,
         current' = Nil \/ (current' \in Node /\ holder[current'] = trv'.queue),
         NEW op \in {"TrvInit", "TrvReset", "TrvStep"},
         NEW n \in NodeOrNil, Called(op, n)
  PROVE  IInv'
<1>1. TypeOK'
  BY DEF IInv, TypeOK, links, Called, NodeOrNil
<1>2. WellLinked'
  BY DEF IInv, WellLinked, InOrder, links
<1>3. FreeNodesUnlinked' /\ CursorInQueue' /\ HaltsOnEmptyOnly'
  BY DEF IInv, FreeNodesUnlinked, CursorInQueue, HaltsOnEmptyOnly, Running, links, Called
<1> QED
  BY <1>1, <1>2, <1>3 DEF IInv

(* A pop that finds no node halts and changes nothing.                     *)
LEMMA HaltIInv ==
  ASSUME IInv, NEW k \in Queues, q[k].elements = 0, DetachesNone
  PROVE  IInv'
<1>1. /\ UNCHANGED <<q, prev, next, trv, current, holder>>
      /\ call' = [op |-> "Halt", node |-> Nil]
  BY DEF DetachesNone, links, traversal, Called
<1>2. TypeOK'
  BY <1>1 DEF IInv, TypeOK, NodeOrNil
<1>3. WellLinked'
  BY <1>1 DEF IInv, WellLinked, InOrder
<1>4. FreeNodesUnlinked' /\ CursorInQueue' /\ HaltsOnEmptyOnly'
  BY <1>1 DEF IInv, FreeNodesUnlinked, CursorInQueue, HaltsOnEmptyOnly
<1> QED
  BY <1>2, <1>3, <1>4 DEF IInv

LEMMA NextIInv == IInv /\ [Next]_vars => IInv'
<1> SUFFICES ASSUME IInv, [Next]_vars PROVE IInv'
  OBVIOUS
<1> USE NilAssumption
<1>0. TypeOK /\ WellLinked /\ CursorInQueue
  BY DEF IInv
<1>1. ASSUME NEW k \in Queues, NEW n \in Node, NodePushBack(k, n) PROVE IInv'
  BY <1>1, PushBackIInv
<1>2. ASSUME NEW k \in Queues, NEW n \in Node, NodePushFront(k, n) PROVE IInv'
  BY <1>2, PushFrontIInv
<1>3. ASSUME NEW k \in Queues, NEW n \in Node, NodeDetach(k, n) PROVE IInv'
  BY <1>3, DetachIInv DEF NodeDetach
<1>4. ASSUME NEW k \in Queues, NodePopFront(k) PROVE IInv'
  <2>1. CASE q[k].front # Nil
    <3>1. q[k].front \in Node /\ holder[q[k].front] = k
      BY <1>0, <2>1, EndsInQueue
    <3> QED
      BY <1>4, <2>1, <3>1, DetachIInv DEF NodePopFront
  <2>2. CASE q[k].front = Nil
    BY <1>0, <1>4, <2>2, EndsAgree, HaltIInv DEF NodePopFront
  <2> QED
    BY <2>1, <2>2
<1>5. ASSUME NEW k \in Queues, NodePopBack(k) PROVE IInv'
  <2>1. CASE q[k].back # Nil
    <3>1. q[k].back \in Node /\ holder[q[k].back] = k
      BY <1>0, <2>1, EndsInQueue
    <3> QED
      BY <1>5, <2>1, <3>1, DetachIInv DEF NodePopBack
  <2>2. CASE q[k].back = Nil
    BY <1>0, <1>5, <2>2, EndsAgree, HaltIInv DEF NodePopBack
  <2> QED
    BY <2>1, <2>2
<1>6. ASSUME NEW t \in Traversal, TrvInit(t) PROVE IInv'
  <2>1. t.queue \in Queues
    BY DEF Traversal
  <2>2. current' = Nil \/ (current' \in Node /\ holder[current'] = t.queue)
    BY <1>0, <1>6, <2>1, EndsInQueue DEF TrvInit, Start
  <2> QED
    BY <1>6, <2>2, TraversalIInv DEF TrvInit, NodeOrNil
<1>7. CASE TrvReset
  <2>1. trv \in Traversal /\ trv.queue \in Queues
    BY <1>0 DEF TypeOK, Traversal
  <2>2. current' = Nil \/ (current' \in Node /\ holder[current'] = trv.queue)
    BY <1>0, <1>7, <2>1, EndsInQueue DEF TrvReset, Start
  <2> QED
    BY <1>7, <2>1, <2>2, TraversalIInv DEF TrvReset, NodeOrNil
<1>8. CASE TrvStep
  <2>1. trv \in Traversal /\ trv.queue \in Queues /\ current \in NodeOrNil
    BY <1>0 DEF TypeOK, Traversal
  <2>2. ASSUME current # Nil
        PROVE  current' = Nil \/ (current' \in Node /\ holder[current'] = trv.queue)
    <3>1. current \in Node /\ holder[current] = trv.queue
      BY <1>0, <2>1, <2>2 DEF CursorInQueue, NodeOrNil
    <3>2. current' = prev[current] \/ current' = next[current]
      BY <1>8, <2>2 DEF TrvStep, Ahead
    <3>3. prev[current] \in NodeOrNil /\ next[current] \in NodeOrNil
      BY <1>0, <3>1 DEF TypeOK
    <3> QED
      BY <1>0, <2>1, <3>1, <3>2, <3>3, LinksStayInQueue DEF NodeOrNil
  <2>3. current = Nil => current' = Nil
    BY <1>8 DEF TrvStep
  <2> QED
    BY <1>8, <2>1, <2>2, <2>3, TraversalIInv DEF TrvStep
<1>9. CASE UNCHANGED vars
  <2>1. UNCHANGED <<q, prev, next, trv, current, holder, call>>
    BY <1>9 DEF vars, links, traversal
  <2>2. WellLinked'
    BY <1>0, <2>1 DEF WellLinked, InOrder
  <2> QED
    BY <2>1, <2>2 DEF IInv, TypeOK, FreeNodesUnlinked, CursorInQueue, HaltsOnEmptyOnly,
                      Running
<1> QED
  BY <1>1, <1>2, <1>3, <1>4, <1>5, <1>6, <1>7, <1>8, <1>9 DEF Next

-----------------------------------------------------------------------------
(* The inductive invariant, for any number of queues and nodes.            *)
THEOREM Invariance == Spec => []IInv
BY InitIInv, NextIInv, PTL DEF Spec

(* Type correctness of queues, links and traversal.                        *)
THEOREM TypeCorrect == Spec => []TypeOK
<1>1. IInv => TypeOK
  BY DEF IInv
<1> QED
  BY <1>1, Invariance, PTL

(***************************************************************************)
(* The queues of core/queue.c are well linked after every push, pop and    *)
(* detach, whichever nodes move between which queues.                      *)
(***************************************************************************)
THEOREM AlwaysWellLinked == Spec => []WellLinked
<1>1. IInv => WellLinked
  BY DEF IInv
<1> QED
  BY <1>1, Invariance, PTL

(* A node out of the queues can be pushed to an empty one: it is unlinked. *)
THEOREM FreeNodesAreUnlinked == Spec => []FreeNodesUnlinked
<1>1. IInv => FreeNodesUnlinked
  BY DEF IInv
<1> QED
  BY <1>1, Invariance, PTL

(* A traversal is never left on a node of no queue or of another one.      *)
THEOREM TraversalSafe == Spec => []CursorInQueue
<1>1. IInv => CursorInQueue
  BY DEF IInv
<1> QED
  BY <1>1, Invariance, PTL

(* The assertions of QUEUE_NodePush... and QUEUE_NodeDetach about the      *)
(* queue never fail, and no other pop than that of an empty queue halts.   *)
THEOREM AssertionsHold == Spec => []HaltsOnEmptyOnly
<1>1. IInv => HaltsOnEmptyOnly
  BY DEF IInv
<1> QED
  BY <1>1, Invariance, PTL

-----------------------------------------------------------------------------
(* Every set of natural numbers has a least member.                        *)
LEMMA LeastMember ==
  ASSUME NEW T, T \subseteq Nat, T # {}
  PROVE  \E x \in T : \A y \in T : x <= y
<1> DEFINE R == OpToRel(<, Nat)
<1>1. IsWellFoundedOn(R, Nat)
  BY NatLessThanWellFounded
<1> HIDE DEF R
<1>2. PICK x \in T : \A y \in T : ~ (<<y, x>> \in R)
  BY <1>1, WFMin
<1>3. \A y \in T : ~ (y < x)
  BY <1>2 DEF R, OpToRel
<1> QED
  BY <1>2, <1>3

(* f goes from `from' along the links `link', as Found does.               *)
Follows(f, m, from, link) ==
  f = [i \in 1 .. m |->
         IF i = 1 THEN from
         ELSE IF f[i - 1] = Nil THEN Nil ELSE link[f[i - 1]]]

(* Only one function does: two differ nowhere, as they do not differ first *)
(* at any index.                                                           *)
LEMMA FoundIs ==
  ASSUME NEW m \in Nat, NEW from, NEW link, NEW f, Follows(f, m, from, link)
  PROVE  Found(m, from, link) = f
<1> DEFINE g == Found(m, from, link)
           T == {i \in 1 .. m : f[i] # g[i]}
<1>1. Follows(g, m, from, link)
  <2>1. \E h : Follows(h, m, from, link)
    OBVIOUS
  <2>2. g = CHOOSE h : Follows(h, m, from, link)
    BY DEF Found, Follows
  <2> QED
    BY <2>1, <2>2
<1> HIDE DEF g
<1>2. T = {}
  <2> SUFFICES ASSUME T # {} PROVE FALSE
    OBVIOUS
  <2>1. PICK x \in T : \A y \in T : x <= y
    <3>1. T \subseteq Nat
      OBVIOUS
    <3> HIDE DEF T
    <3> QED
      BY <3>1, LeastMember
  <2>2. CASE x = 1
    BY <1>1, <2>1, <2>2 DEF Follows
  <2>3. CASE x # 1
    <3>1. x - 1 \in 1 .. m /\ x - 1 \notin T
      BY <2>1, <2>3
    <3>2. f[x - 1] = g[x - 1]
      BY <3>1
    <3> HIDE DEF T
    <3>3. x \in 1 .. m /\ f[x] # g[x]
      BY <2>1 DEF T
    <3>4. f[x] = IF f[x - 1] = Nil THEN Nil ELSE link[f[x - 1]]
      BY <2>3, <3>3 DEF Follows
    <3>5. g[x] = IF g[x - 1] = Nil THEN Nil ELSE link[g[x - 1]]
      BY <1>1, <2>3, <3>3 DEF Follows
    <3> QED
      BY <3>2, <3>3, <3>4, <3>5
  <2> QED
    BY <2>2, <2>3
<1>3. \A i \in 1 .. m : f[i] = g[i]
  BY <1>2
<1>4. /\ f = [i \in 1 .. m |-> f[i]]
      /\ g = [i \in 1 .. m |-> g[i]]
  BY <1>1 DEF Follows
<1>5. f = g
  BY <1>3, <1>4
<1> QED
  BY <1>5 DEF g

(* The l nodes of s are linked, from `from' to one without a link.         *)
Linked(s, l, from, link) ==
  /\ s \in [1 .. l -> Node]
  /\ from = IF l = 0 THEN Nil ELSE s[1]
  /\ \A i \in 1 .. l : link[s[i]] = IF i = l THEN Nil ELSE s[i + 1]

(* Such a sequence is the chain from its first node.                       *)
LEMMA ChainIs ==
  ASSUME NEW m \in Nat, NEW l \in Nat, l <= m, NEW s, NEW from, NEW link,
         Linked(s, l, from, link)
  PROVE  Chain(m, from, link) = s
<1>0. /\ s \in [1 .. l -> Node] /\ l \in 0 .. m
      /\ from = IF l = 0 THEN Nil ELSE s[1]
      /\ \A i \in 1 .. l : link[s[i]] = IF i = l THEN Nil ELSE s[i + 1]
  BY DEF Linked
<1> DEFINE f == [i \in 1 .. m |-> IF i <= l THEN s[i] ELSE Nil]
<1>1. Follows(f, m, from, link)
  <2>1. ASSUME NEW i \in 1 .. m
        PROVE  f[i] = IF i = 1 THEN from
                      ELSE IF f[i - 1] = Nil THEN Nil ELSE link[f[i - 1]]
    <3>1. CASE i = 1
      BY <1>0, <3>1
    <3>2. CASE i # 1 /\ i - 1 <= l
      <4>1. i - 1 \in 1 .. l /\ i - 1 \in 1 .. m /\ (i - 1) + 1 = i
        BY <3>2
      <4>2. f[i - 1] = s[i - 1] /\ f[i - 1] # Nil
        BY <1>0, <4>1, NilAssumption
      <4>3. link[s[i - 1]] = IF i - 1 = l THEN Nil ELSE s[i]
        BY <1>0, <4>1
      <4> QED
        BY <3>2, <4>1, <4>2, <4>3
    <3>3. CASE i # 1 /\ ~ i - 1 <= l
      BY <1>0, <3>3
    <3> QED
      BY <3>1, <3>2, <3>3
  <2> HIDE DEF f
  <2>2. f = [i \in 1 .. m |-> f[i]]
    BY DEF f
  <2> QED
    BY <2>1, <2>2 DEF Follows
<1>2. Found(m, from, link) = f
  BY <1>1, FoundIs
<1>3. \A i \in 1 .. m : i <= l <=> f[i] # Nil
  BY <1>0, NilAssumption
<1>4. ASSUME NEW k \in 0 .. m, \A i \in 1 .. m : i <= k <=> f[i] # Nil
      PROVE  k = l
  <2>1. \A i \in 1 .. m : i <= k <=> i <= l
    BY <1>3, <1>4
  <2> HIDE DEF f
  <2>2. k \in 1 .. m => k <= l
    BY <2>1, SMT
  <2>3. l \in 1 .. m => l <= k
    BY <2>1, SMT
  <2> QED
    BY <1>0, <2>2, <2>3
<1> HIDE DEF f
<1>5. (CHOOSE k \in 0 .. m : \A i \in 1 .. m : i <= k <=> f[i] # Nil) = l
  BY <1>0, <1>3, <1>4
<1>6. Chain(m, from, link) = [i \in 1 .. l |-> f[i]]
  BY <1>2, <1>5 DEF Chain
<1>7. \A i \in 1 .. l : f[i] = s[i]
  BY DEF f
<1> QED
  BY <1>0, <1>6, <1>7

-----------------------------------------------------------------------------
(* Sequences of nodes.                                                     *)

(* A function from 1 .. m to nodes is a sequence of length m.              *)
LEMMA NodesAreSequence ==
  ASSUME NEW m \in Nat, NEW s \in [1 .. m -> Node]
  PROVE  s \in Seq(Node) /\ Len(s) = m
OBVIOUS

(* A sequence is known by its length and its members.                      *)
LEMMA SameNodes ==
  ASSUME NEW m \in Nat, NEW s \in [1 .. m -> Node], NEW u \in Seq(Node),
         Len(u) = m, \A i \in 1 .. m : u[i] = s[i]
  PROVE  u = s
BY NodesAreSequence, SeqEqual

(* A node pushed at the back is appended to the sequence.                  *)
LEMMA PushedIs ==
  ASSUME NEW m \in Nat, NEW s \in [1 .. m -> Node], NEW n \in Node
  PROVE  Append(s, n) = Pushed(s, m, n)
<1>1. /\ Append(s, n) \in Seq(Node) /\ Len(Append(s, n)) = m + 1
      /\ \A i \in 1 .. m + 1 : Append(s, n)[i] = IF i = m + 1 THEN n ELSE s[i]
  BY NodesAreSequence, AppendProperties
<1>2. /\ Pushed(s, m, n) \in [1 .. m + 1 -> Node]
      /\ \A i \in 1 .. m + 1 : Pushed(s, m, n)[i] = IF i = m + 1 THEN n ELSE s[i]
  BY DEF Pushed
<1> QED
  BY <1>1, <1>2, SameNodes

(* A node pushed at the front is put before the sequence.                  *)
LEMMA PrecededIs ==
  ASSUME NEW m \in Nat, NEW s \in [1 .. m -> Node], NEW n \in Node
  PROVE  <<n>> \o s = Preceded(s, m, n)
<1>1. s \in Seq(Node) /\ Len(s) = m /\ <<n>> \in Seq(Node) /\ Len(<<n>>) = 1
  BY NodesAreSequence
<1>2. /\ <<n>> \o s \in Seq(Node) /\ Len(<<n>> \o s) = m + 1
      /\ \A i \in 1 .. m + 1 : (<<n>> \o s)[i] = IF i = 1 THEN n ELSE s[i - 1]
  BY <1>1, ConcatProperties
<1>3. /\ Preceded(s, m, n) \in [1 .. m + 1 -> Node]
      /\ \A i \in 1 .. m + 1 : Preceded(s, m, n)[i] = IF i = 1 THEN n ELSE s[i - 1]
  BY DEF Preceded
<1> QED
  BY <1>2, <1>3, SameNodes

(* The j-th node dropped, in no other place, is the first removed.         *)
LEMMA DroppedIs ==
  ASSUME NEW m \in Nat, NEW s \in [1 .. m -> Node], NEW j \in 1 .. m,
         \A i \in 1 .. m : s[i] = s[j] => i = j
  PROVE  Deques!RemoveFirst(s, s[j]) = Dropped(s, m, j)
<1>1. s \in Seq(Node) /\ Len(s) = m
  BY NodesAreSequence
<1>2. {i \in 1 .. Len(s) : s[i] = s[j]} = {j}
  BY <1>1
<1>3. Deques!Min({j}) = j
  BY DEF Deques!Min
<1>4. Deques!RemoveFirst(s, s[j]) = SubSeq(s, 1, j - 1) \o SubSeq(s, j + 1, m)
  BY <1>1, <1>2, <1>3 DEF Deques!RemoveFirst, Deques!SelectInSeq, Deques!RemoveAt
<1> DEFINE a == SubSeq(s, 1, j - 1)
           b == SubSeq(s, j + 1, m)
<1>5. /\ a \in Seq(Node) /\ Len(a) = j - 1
      /\ \A i \in 1 .. j - 1 : a[i] = s[i]
  BY <1>1, SubSeqProperties
<1>6. /\ b \in Seq(Node) /\ Len(b) = m - j
      /\ \A i \in 1 .. m - j : b[i] = s[j + i]
  BY <1>1, SubSeqProperties
<1> HIDE DEF a, b
<1>7. /\ a \o b \in Seq(Node) /\ Len(a \o b) = m - 1
      /\ \A i \in 1 .. m - 1 : (a \o b)[i] = IF i < j THEN s[i] ELSE s[i + 1]
  <2>1. /\ a \o b \in Seq(Node) /\ Len(a \o b) = (j - 1) + (m - j)
        /\ \A i \in 1 .. (j - 1) + (m - j) :
             (a \o b)[i] = IF i <= j - 1 THEN a[i] ELSE b[i - (j - 1)]
    <3>1. /\ a \o b \in Seq(Node)
          /\ Len(a \o b) = Len(a) + Len(b)
          /\ \A i \in 1 .. Len(a) + Len(b) :
               (a \o b)[i] = IF i <= Len(a) THEN a[i] ELSE b[i - Len(a)]
      BY <1>5, <1>6, ConcatProperties
    <3> QED
      BY <1>5, <1>6, <3>1
  <2>2. (j - 1) + (m - j) = m - 1
    OBVIOUS
  <2>3. ASSUME NEW i \in 1 .. m - 1
        PROVE  (a \o b)[i] = IF i < j THEN s[i] ELSE s[i + 1]
    <3>1. CASE i < j
      <4>1. i \in 1 .. j - 1 /\ i <= j - 1
        BY <3>1
      <4> QED
        BY <1>5, <2>1, <2>2, <3>1, <4>1
    <3>2. CASE ~ i < j
      <4>1. i - (j - 1) \in 1 .. m - j /\ ~ i <= j - 1
            /\ j + (i - (j - 1)) = i + 1
        BY <3>2
      <4> QED
        BY <1>6, <2>1, <2>2, <3>2, <4>1
    <3> QED
      BY <3>1, <3>2
  <2> QED
    BY <2>1, <2>2, <2>3
<1>8. /\ Dropped(s, m, j) \in [1 .. m - 1 -> Node]
      /\ \A i \in 1 .. m - 1 :
           Dropped(s, m, j)[i] = IF i < j THEN s[i] ELSE s[i + 1]
  BY DEF Dropped
<1>9. m - 1 \in Nat
  OBVIOUS
<1>10. a \o b = Dropped(s, m, j)
  BY <1>7, <1>8, <1>9, SameNodes
<1> QED
  BY <1>4, <1>10 DEF a, b

(* Nothing is removed of a sequence without the node.                      *)
LEMMA NothingDropped ==
  ASSUME NEW m \in Nat, NEW s \in [1 .. m -> Node], NEW n,
         \A i \in 1 .. m : s[i] # n
  PROVE  Deques!RemoveFirst(s, n) = s
BY NodesAreSequence DEF Deques!RemoveFirst

(* The empty sequence of nodes.                                            *)
LEMMA NoNodes ==
  ASSUME NEW s \in [1 .. 0 -> Node]
  PROVE  s = <<>>
BY NodesAreSequence, EmptySeq

-----------------------------------------------------------------------------
(* The nodes from the i-th on, to the back and to the front.               *)
Onward(s, m, i) == [j \in 1 .. m - i + 1 |-> s[i + j - 1]]
Backward(s, i) == [j \in 1 .. i |-> s[i - j + 1]]
Rest(s, m, dir, i) ==
  IF dir = "FrontToBack" THEN Onward(s, m, i) ELSE Backward(s, i)

(* The links `link' of the nodes of s go to the back, or to the front.     *)
LinksOnward(s, m, link) ==
  /\ s \in [1 .. m -> Node]
  /\ \A j \in 1 .. m : link[s[j]] = IF j = m THEN Nil ELSE s[j + 1]

LinksBackward(s, m, link) ==
  /\ s \in [1 .. m -> Node]
  /\ \A j \in 1 .. m : link[s[j]] = IF j = 1 THEN Nil ELSE s[j - 1]

(* The links to the back give the nodes from the i-th on.                  *)
LEMMA OnwardIs ==
  ASSUME NEW m \in Nat, NEW s, NEW i \in 1 .. m, NEW link,
         LinksOnward(s, m, link)
  PROVE  /\ Chain(m, s[i], link) = Onward(s, m, i)
         /\ Onward(s, m, i) \in [1 .. m - i + 1 -> Node]
<1>0. /\ s \in [1 .. m -> Node]
      /\ \A j \in 1 .. m : link[s[j]] = IF j = m THEN Nil ELSE s[j + 1]
  BY DEF LinksOnward
<1> DEFINE r == Onward(s, m, i)
           l == m - i + 1
<1>1. l \in 0 .. m /\ l # 0
  OBVIOUS
<1>2. \A j \in 1 .. l : /\ i + j - 1 \in 1 .. m /\ r[j] = s[i + j - 1]
                        /\ j = l <=> i + j - 1 = m
                        /\ j # l => r[j + 1] = s[(i + j - 1) + 1]
  BY DEF Onward
<1>3. r \in [1 .. l -> Node] /\ s[i] = r[1]
  BY <1>0, <1>2 DEF Onward
<1> HIDE DEF r, l
<1>4. \A j \in 1 .. l : link[r[j]] = IF j = l THEN Nil ELSE r[j + 1]
  BY <1>0, <1>2
<1>5. Linked(r, l, s[i], link)
  BY <1>1, <1>3, <1>4 DEF Linked
<1>6. Chain(m, s[i], link) = r
  BY <1>1, <1>5, ChainIs
<1> QED
  BY <1>3, <1>6 DEF r, l

(* The links to the front give them in the reverse order.                  *)
LEMMA BackwardIs ==
  ASSUME NEW m \in Nat, NEW s, NEW i \in 1 .. m, NEW link,
         LinksBackward(s, m, link)
  PROVE  /\ Chain(m, s[i], link) = Backward(s, i)
         /\ Backward(s, i) \in [1 .. i -> Node]
<1>0. /\ s \in [1 .. m -> Node]
      /\ \A j \in 1 .. m : link[s[j]] = IF j = 1 THEN Nil ELSE s[j - 1]
  BY DEF LinksBackward
<1> DEFINE r == Backward(s, i)
<1>1. i \in 0 .. m /\ i # 0
  OBVIOUS
<1>2. \A j \in 1 .. i : /\ i - j + 1 \in 1 .. m /\ r[j] = s[i - j + 1]
                        /\ j = i <=> i - j + 1 = 1
                        /\ j # i => r[j + 1] = s[(i - j + 1) - 1]
  BY DEF Backward
<1>3. r \in [1 .. i -> Node] /\ s[i] = r[1]
  BY <1>0, <1>2 DEF Backward
<1> HIDE DEF r
<1>4. \A j \in 1 .. i : link[r[j]] = IF j = i THEN Nil ELSE r[j + 1]
  <2> SUFFICES ASSUME NEW j \in 1 .. i
               PROVE  link[r[j]] = IF j = i THEN Nil ELSE r[j + 1]
    OBVIOUS
  <2> DEFINE n == i - j + 1
  <2>1. /\ n \in 1 .. m /\ r[j] = s[n]
        /\ j = i <=> n = 1
        /\ j # i => r[j + 1] = s[n - 1]
    BY <1>2
  <2> HIDE DEF n
  <2>2. link[s[n]] = IF n = 1 THEN Nil ELSE s[n - 1]
    BY <1>0, <2>1
  <2> QED
    BY <2>1, <2>2
<1>5. Linked(r, i, s[i], link)
  BY <1>1, <1>3, <1>4 DEF Linked
<1>6. Chain(m, s[i], link) = r
  BY <1>1, <1>5, ChainIs
<1> QED
  BY <1>3, <1>6 DEF r

(* No node, no chain.                                                      *)
LEMMA NoChain ==
  ASSUME NEW m \in Nat, NEW link
  PROVE  Chain(m, Nil, link) = <<>>
<1> DEFINE s == [i \in 1 .. 0 |-> Nil]
<1>1. s \in [1 .. 0 -> Node] /\ Linked(s, 0, Nil, link)
  BY DEF Linked
<1> HIDE DEF s
<1>2. Chain(m, Nil, link) = s
  BY <1>1, ChainIs
<1> QED
  BY <1>1, <1>2, NoNodes

-----------------------------------------------------------------------------
(* What the mapping gives for queues in order, before and after a step.    *)

(* The list of a queue in order is its nodes.                              *)
LEMMA ListedIs ==
  ASSUME TypeOK, NEW k \in Queues,
         NEW s \in [1 .. q[k].elements -> Node], InOrder(k, s)
  PROVE  Listed[k] = s
<1>1. q[k].elements \in Nat
  BY DEF TypeOK
<1>2. Linked(s, q[k].elements, q[k].front, prev)
  BY DEF InOrder, Linked
<1>3. Chain(q[k].elements, q[k].front, prev) = s
  BY <1>1, <1>2, ChainIs
<1> QED
  BY <1>3 DEF Listed

(* The same after a step.                                                  *)
LEMMA ListedNext ==
  ASSUME TypeOK', NEW k \in Queues,
         NEW s \in [1 .. q'[k].elements -> Node], InOrder(k, s)'
  PROVE  Listed'[k] = s
<1>1. q'[k].elements \in Nat
  BY DEF TypeOK
<1>2. Linked(s, q'[k].elements, q'[k].front, prev')
  BY DEF InOrder, Linked
<1>3. Chain(q'[k].elements, q'[k].front, prev') = s
  BY <1>1, <1>2, ChainIs
<1> QED
  BY <1>3 DEF Listed

(* A cursor at the i-th node has the rest of them to return.               *)
LEMMA RemainingIs ==
  ASSUME TypeOK, NEW s \in [1 .. q[trv.queue].elements -> Node],
         InOrder(trv.queue, s),
         NEW i \in 1 .. q[trv.queue].elements, current = s[i]
  PROVE  Remaining = Rest(s, q[trv.queue].elements, trv.dir, i)
<1> DEFINE m == q[trv.queue].elements
<1>1. m \in Nat /\ trv.queue \in Queues
  BY DEF TypeOK, Traversal
<1>2. LinksOnward(s, m, prev) /\ LinksBackward(s, m, next)
  BY DEF InOrder, LinksOnward, LinksBackward
<1>3. i \in 1 .. m
  OBVIOUS
<1> HIDE DEF m
<1>4. Chain(m, s[i], prev) = Onward(s, m, i)
  BY <1>1, <1>2, <1>3, OnwardIs
<1>5. Chain(m, s[i], next) = Backward(s, i)
  BY <1>1, <1>2, <1>3, BackwardIs
<1> QED
  BY <1>4, <1>5 DEF Remaining, Rest, Ahead, m

(* The same after a step.                                                  *)
LEMMA RemainingNext ==
  ASSUME TypeOK', NEW s \in [1 .. q'[trv'.queue].elements -> Node],
         InOrder(trv.queue, s)',
         NEW i \in 1 .. q'[trv'.queue].elements, current' = s[i]
  PROVE  Remaining' = Rest(s, q'[trv'.queue].elements, trv'.dir, i)
<1> DEFINE m == q'[trv'.queue].elements
<1>1. m \in Nat /\ trv'.queue \in Queues
  BY DEF TypeOK, Traversal
<1>2. LinksOnward(s, m, prev') /\ LinksBackward(s, m, next')
  BY DEF InOrder, LinksOnward, LinksBackward
<1>3. i \in 1 .. m
  OBVIOUS
<1> HIDE DEF m
<1>4. Chain(m, s[i], prev') = Onward(s, m, i)
  BY <1>1, <1>2, <1>3, OnwardIs
<1>5. Chain(m, s[i], next') = Backward(s, i)
  BY <1>1, <1>2, <1>3, BackwardIs
<1> QED
  BY <1>4, <1>5 DEF Remaining, Rest, Ahead, m

(* A traversal that is over has nothing left.                              *)
LEMMA NothingRemaining ==
  /\ TypeOK /\ current = Nil => Remaining = <<>>
  /\ TypeOK' /\ current' = Nil => Remaining' = <<>>
<1>1. ASSUME TypeOK, current = Nil PROVE Remaining = <<>>
  <2>1. q[trv.queue].elements \in Nat
    BY <1>1 DEF TypeOK, Traversal
  <2> QED
    BY <1>1, <2>1, NoChain DEF Remaining
<1>2. ASSUME TypeOK', current' = Nil PROVE Remaining' = <<>>
  <2>1. q'[trv'.queue].elements \in Nat
    BY <1>2 DEF TypeOK, Traversal
  <2> QED
    BY <1>2, <2>1, NoChain DEF Remaining
<1> QED
  BY <1>1, <1>2

(* The rest is a sequence of nodes that starts with the i-th.              *)
LEMMA RestNodes ==
  ASSUME NEW m \in Nat, NEW s \in [1 .. m -> Node], NEW i \in 1 .. m, NEW dir
  PROVE  LET r == Rest(s, m, dir, i)
             l == IF dir = "FrontToBack" THEN m - i + 1 ELSE i
         IN  /\ l \in Nat \ {0} /\ r \in [1 .. l -> Node] /\ r[1] = s[i]
             /\ \A j \in 1 .. l :
                  r[j] = IF dir = "FrontToBack" THEN s[i + j - 1] ELSE s[i - j + 1]
BY DEF Rest, Onward, Backward

-----------------------------------------------------------------------------
(* What a push and a detach do to the nodes ahead of the cursor.           *)

(* A node pushed at the back is the last the way to the back meets.        *)
LEMMA RestPushed ==
  ASSUME NEW m \in Nat, NEW s \in [1 .. m -> Node], NEW n \in Node,
         NEW i \in 1 .. m, NEW dir
  PROVE  Rest(Pushed(s, m, n), m + 1, dir, i)
           = IF dir = "FrontToBack" THEN Append(Rest(s, m, dir, i), n)
                                    ELSE Rest(s, m, dir, i)
<1> DEFINE t == Pushed(s, m, n)
           a == Onward(s, m, i)
           l == m - i + 1
<1>1. \A j \in 1 .. m + 1 : t[j] = IF j = m + 1 THEN n ELSE s[j]
  BY DEF Pushed
<1> HIDE DEF t
<1>2. Backward(t, i) = Backward(s, i)
  <2>1. \A j \in 1 .. i : t[i - j + 1] = s[i - j + 1]
    BY <1>1
  <2> QED
    BY <2>1 DEF Backward
<1>3. l \in Nat /\ a \in [1 .. l -> Node] /\ \A j \in 1 .. l : a[j] = s[i + j - 1]
  BY DEF Onward
<1> HIDE DEF a
<1>4. Append(a, n) = Pushed(a, l, n)
  BY <1>3, PushedIs
<1>5. (m + 1) - i + 1 = l + 1
  OBVIOUS
<1> HIDE DEF l
<1>6. \A j \in 1 .. l + 1 : t[i + j - 1] = IF j = l + 1 THEN n ELSE a[j]
  BY <1>1, <1>3 DEF l
<1>7. Onward(t, m + 1, i) = Pushed(a, l, n)
  BY <1>5, <1>6 DEF Onward, Pushed
<1> QED
  BY <1>2, <1>4, <1>7 DEF Rest, t, a

(* A node pushed at the front is the last the way to the front meets.      *)
LEMMA RestPreceded ==
  ASSUME NEW m \in Nat, NEW s \in [1 .. m -> Node], NEW n \in Node,
         NEW i \in 1 .. m, NEW dir
  PROVE  Rest(Preceded(s, m, n), m + 1, dir, i + 1)
           = IF dir = "FrontToBack" THEN Rest(s, m, dir, i)
                                    ELSE Append(Rest(s, m, dir, i), n)
<1> DEFINE t == Preceded(s, m, n)
           b == Backward(s, i)
<1>1. \A j \in 1 .. m + 1 : t[j] = IF j = 1 THEN n ELSE s[j - 1]
  BY DEF Preceded
<1> HIDE DEF t
<1>2. Onward(t, m + 1, i + 1) = Onward(s, m, i)
  <2>1. (m + 1) - (i + 1) + 1 = m - i + 1
    OBVIOUS
  <2>2. \A j \in 1 .. m - i + 1 : t[i + 1 + j - 1] = s[i + j - 1]
    BY <1>1
  <2> QED
    BY <2>1, <2>2 DEF Onward
<1>3. i \in Nat /\ b \in [1 .. i -> Node] /\ \A j \in 1 .. i : b[j] = s[i - j + 1]
  BY DEF Backward
<1> HIDE DEF b
<1>4. Append(b, n) = Pushed(b, i, n)
  BY <1>3, PushedIs
<1>5. \A j \in 1 .. i + 1 : t[(i + 1) - j + 1] = IF j = i + 1 THEN n ELSE b[j]
  BY <1>1, <1>3
<1>6. Backward(t, i + 1) = Pushed(b, i, n)
  BY <1>5 DEF Backward, Pushed
<1> QED
  BY <1>2, <1>4, <1>6 DEF Rest, t, b

(* A detached node is left out if it was ahead of the cursor.              *)
LEMMA RestDropped ==
  ASSUME NEW m \in Nat, NEW s \in [1 .. m -> Node],
         \A i, j \in 1 .. m : s[i] = s[j] => i = j,
         NEW j \in 1 .. m, NEW i \in 1 .. m, i # j, NEW dir
  PROVE  Rest(Dropped(s, m, j), m - 1, dir, IF i < j THEN i ELSE i - 1)
           = Deques!RemoveFirst(Rest(s, m, dir, i), s[j])
<1> DEFINE t == Dropped(s, m, j)
           a == Onward(s, m, i)
           b == Backward(s, i)
           l == m - i + 1
<1>1. \A x \in 1 .. m - 1 : t[x] = IF x < j THEN s[x] ELSE s[x + 1]
  BY DEF Dropped
<1>2. l \in Nat /\ a \in [1 .. l -> Node] /\ \A x \in 1 .. l : a[x] = s[i + x - 1]
  BY DEF Onward
<1>3. i \in Nat /\ b \in [1 .. i -> Node] /\ \A x \in 1 .. i : b[x] = s[i - x + 1]
  BY DEF Backward
<1> HIDE DEF t, a, b
<1>4. CASE i < j
  <2>1. Deques!RemoveFirst(b, s[j]) = b
    <3>1. \A x \in 1 .. i : b[x] # s[j]
      BY <1>3, <1>4
    <3> QED
      BY <1>3, <3>1, NothingDropped
  <2>2. Backward(t, i) = b
    <3>1. \A x \in 1 .. i : t[i - x + 1] = s[i - x + 1]
      BY <1>1, <1>4
    <3> QED
      BY <3>1 DEF Backward, b
  <2> DEFINE c == j - i + 1
  <2>3. c \in 1 .. l /\ a[c] = s[j]
    BY <1>2, <1>4
  <2>4. \A x \in 1 .. l : a[x] = a[c] => x = c
    BY <1>2, <2>3
  <2>5. Deques!RemoveFirst(a, a[c]) = Dropped(a, l, c)
    <3> HIDE DEF c, l
    <3> QED
      BY <1>2, <2>3, <2>4, DroppedIs
  <2>6. Onward(t, m - 1, i) = Dropped(a, l, c)
    <3>1. (m - 1) - i + 1 = l - 1
      OBVIOUS
    <3>2. \A x \in 1 .. l - 1 : t[i + x - 1] = IF x < c THEN a[x] ELSE a[x + 1]
      BY <1>1, <1>2, <1>4
    <3> HIDE DEF c, l
    <3> QED
      BY <3>1, <3>2 DEF Onward, Dropped
  <2> QED
    BY <1>4, <2>1, <2>2, <2>3, <2>5, <2>6 DEF Rest, t, a, b
<1>5. CASE j < i
  <2>1. Deques!RemoveFirst(a, s[j]) = a
    <3>1. \A x \in 1 .. l : a[x] # s[j]
      BY <1>2, <1>5
    <3> HIDE DEF l
    <3> QED
      BY <1>2, <3>1, NothingDropped
  <2>2. Onward(t, m - 1, i - 1) = a
    <3>1. (m - 1) - (i - 1) + 1 = l
      OBVIOUS
    <3>2. \A x \in 1 .. l : t[(i - 1) + x - 1] = s[i + x - 1]
      BY <1>1, <1>5
    <3> QED
      BY <3>1, <3>2 DEF Onward, a
  <2> DEFINE c == i - j + 1
  <2>3. c \in 1 .. i /\ b[c] = s[j]
    BY <1>3, <1>5
  <2>4. \A x \in 1 .. i : b[x] = b[c] => x = c
    BY <1>3, <2>3
  <2>5. Deques!RemoveFirst(b, b[c]) = Dropped(b, i, c)
    <3> HIDE DEF c
    <3> QED
      BY <1>3, <2>3, <2>4, DroppedIs
  <2>6. Backward(t, i - 1) = Dropped(b, i, c)
    <3>1. \A x \in 1 .. i - 1 : t[(i - 1) - x + 1] = IF x < c THEN b[x] ELSE b[x + 1]
      BY <1>1, <1>3, <1>5
    <3> HIDE DEF c
    <3> QED
      BY <3>1 DEF Backward, Dropped
  <2> QED
    BY <1>5, <2>1, <2>2, <2>3, <2>5, <2>6 DEF Rest, t, a, b
<1> QED
  BY <1>4, <1>5

-----------------------------------------------------------------------------
(* How each operation maps to the same one of the abstract queues.         *)

(* A queue lists the nodes the callers put in it.                          *)
LEMMA ListedNodes ==
  ASSUME TypeOK, WellLinked, NEW k \in Queues, NEW n \in Node
  PROVE  Deques!Contains(Listed[k], n) <=> holder[n] = k
<1>1. PICK s \in [1 .. q[k].elements -> Node] : InOrder(k, s)
  BY DEF WellLinked
<1>2. Listed[k] = s
  BY <1>1, ListedIs
<1>3. q[k].elements \in Nat
  BY DEF TypeOK
<1>4. Len(s) = q[k].elements
  BY <1>3, NodesAreSequence
<1>5. holder[n] = k <=> \E i \in 1 .. q[k].elements : s[i] = n
  BY <1>1 DEF InOrder
<1> QED
  BY <1>2, <1>4, <1>5 DEF Deques!Contains

(* A queue a step leaves untouched lists the same nodes.                   *)
LEMMA UntouchedListed ==
  ASSUME TypeOK, WellLinked, TypeOK', NEW k \in Queues, Untouched(k)
  PROVE  Listed'[k] = Listed[k]
<1>1. PICK s \in [1 .. q[k].elements -> Node] : InOrder(k, s)
  BY DEF WellLinked
<1>2. InOrder(k, s)' /\ q'[k].elements = q[k].elements
  BY <1>1, OtherQueues DEF Untouched
<1>3. Listed[k] = s
  BY <1>1, ListedIs
<1>4. Listed'[k] = s
  BY <1>2, ListedNext
<1> QED
  BY <1>3, <1>4

(* And it has the same nodes ahead of the cursor.                          *)
LEMMA UntouchedRemaining ==
  ASSUME TypeOK, WellLinked, CursorInQueue, TypeOK',
         trv' = trv, current' = current, Untouched(trv.queue)
  PROVE  Remaining' = Remaining
<1>1. CASE current = Nil
  BY <1>1, NothingRemaining
<1>2. CASE current # Nil
  <2>1. trv.queue \in Queues /\ current \in Node /\ holder[current] = trv.queue
    BY <1>2 DEF TypeOK, Traversal, NodeOrNil, CursorInQueue
  <2>2. PICK s \in [1 .. q[trv.queue].elements -> Node] : InOrder(trv.queue, s)
    BY <2>1 DEF WellLinked
  <2>3. PICK i \in 1 .. q[trv.queue].elements : s[i] = current
    BY <2>1, <2>2 DEF InOrder
  <2>4. Remaining = Rest(s, q[trv.queue].elements, trv.dir, i)
    BY <2>2, <2>3, RemainingIs
  <2>5. InOrder(trv.queue, s)' /\ q'[trv.queue].elements = q[trv.queue].elements
    <3>1. \A k \in Queues : k = trv.queue => InOrder(k, s)'
      BY <2>2, OtherQueues
    <3>2. q'[trv.queue] = q[trv.queue]
      BY DEF Untouched
    <3> QED
      BY <2>1, <3>1, <3>2
  <2>6. Remaining' = Rest(s, q'[trv'.queue].elements, trv'.dir, i)
    BY <2>3, <2>5, RemainingNext
  <2> QED
    BY <2>4, <2>5, <2>6
<1> QED
  BY <1>1, <1>2

(* Listed changes as its queue k does.                                     *)
LEMMA ListedExcept ==
  ASSUME TypeOK, WellLinked, TypeOK', NEW k \in Queues,
         \A j \in Queues : j # k => Untouched(j),
         NEW t \in [1 .. q'[k].elements -> Node], InOrder(k, t)'
  PROVE  Listed' = [Listed EXCEPT ![k] = t]
<1>1. Listed'[k] = t
  BY ListedNext
<1>2. \A j \in Queues : j # k => Listed'[j] = Listed[j]
  BY UntouchedListed
<1>3. /\ Listed = [j \in Queues |-> Listed[j]]
      /\ Listed' = [j \in Queues |-> Listed'[j]]
  BY DEF Listed
<1> QED
  BY <1>1, <1>2, <1>3

(* Where the cursor is in a queue in order, and what is left then.         *)
LEMMA CursorPlace ==
  ASSUME TypeOK, CursorInQueue, current # Nil,
         NEW s \in [1 .. q[trv.queue].elements -> Node], InOrder(trv.queue, s)
  PROVE  \E i \in 1 .. q[trv.queue].elements :
           /\ current = s[i]
           /\ Remaining = Rest(s, q[trv.queue].elements, trv.dir, i)
           /\ Remaining # <<>>
           /\ Head(Remaining) = current
<1>1. trv.queue \in Queues /\ current \in Node /\ holder[current] = trv.queue
  BY DEF TypeOK, Traversal, NodeOrNil, CursorInQueue
<1>2. q[trv.queue].elements \in Nat
  BY <1>1 DEF TypeOK
<1>3. PICK i \in 1 .. q[trv.queue].elements : current = s[i]
  BY <1>1 DEF InOrder
<1>4. Remaining = Rest(s, q[trv.queue].elements, trv.dir, i)
  BY <1>3, RemainingIs
<1>5. \E l \in Nat \ {0} : Remaining \in [1 .. l -> Node] /\ Remaining[1] = current
  BY <1>2, <1>3, <1>4, RestNodes
<1>6. Remaining # <<>> /\ Head(Remaining) = current
  <2>1. PICK l \in Nat \ {0} :
          Remaining \in [1 .. l -> Node] /\ Remaining[1] = current
    BY <1>5
  <2>2. Remaining \in Seq(Node) /\ Len(Remaining) = l
    BY <2>1, NodesAreSequence
  <2> HIDE DEF Remaining
  <2> QED
    BY <2>1, <2>2
<1> QED
  BY <1>3, <1>4, <1>6

(* A node of another queue is not ahead of the cursor.                     *)
LEMMA RestWithout ==
  ASSUME NEW m \in Nat, NEW s \in [1 .. m -> Node], NEW i \in 1 .. m, NEW dir,
         NEW n, \A j \in 1 .. m : s[j] # n
  PROVE  Deques!RemoveFirst(Rest(s, m, dir, i), n) = Rest(s, m, dir, i)
<1> DEFINE r == Rest(s, m, dir, i)
           l == IF dir = "FrontToBack" THEN m - i + 1 ELSE i
<1>1. /\ l \in Nat /\ r \in [1 .. l -> Node]
      /\ \A j \in 1 .. l :
           r[j] = IF dir = "FrontToBack" THEN s[i + j - 1] ELSE s[i - j + 1]
  BY RestNodes
<1> HIDE DEF r
<1>2. \A j \in 1 .. l : r[j] # n
  BY <1>1
<1> HIDE DEF l
<1>3. Deques!RemoveFirst(r, n) = r
  BY <1>1, <1>2, NothingDropped
<1> QED
  BY <1>3 DEF r

(* QUEUE_NodePushBack appends the node to its queue.                       *)
LEMMA PushBackStep ==
  ASSUME IInv, IInv', NEW k \in Queues, NEW n \in Node, NodePushBack(k, n)
  PROVE  Deques!PushBack(k, n)
<1>1. /\ TypeOK /\ WellLinked /\ CursorInQueue /\ TypeOK'
      /\ holder[n] = Nil /\ trv' = trv /\ current' = current
  BY DEF IInv, NodePushBack, traversal
<1>2. PICK s \in [1 .. q[k].elements -> Node],
           t \in [1 .. q[k].elements + 1 -> Node] :
        InOrder(k, s) /\ t = Pushed(s, q[k].elements, n) /\ InOrder(k, t)'
  BY PushBackLinks
<1>3. /\ \A j \in Queues : j # k => Untouched(j)
      /\ q'[k].elements = q[k].elements + 1
  BY PushBackLinks
<1>4. q[k].elements \in Nat
  BY <1>1 DEF TypeOK
<1>5. Deques!IsFree(n)
  <2>1. \A j \in Queues : holder[n] # j
    BY <1>1, NilAssumption
  <2> QED
    BY <1>1, <2>1, ListedNodes DEF Deques!IsFree
<1>6. Listed' = [Listed EXCEPT ![k] = Append(@, n)]
  <2>1. Listed[k] = s
    BY <1>1, <1>2, ListedIs
  <2>2. t = Append(s, n)
    BY <1>2, <1>4, PushedIs
  <2>3. Listed' = [Listed EXCEPT ![k] = t]
    BY <1>1, <1>2, <1>3, ListedExcept
  <2> QED
    BY <2>1, <2>2, <2>3
<1>7. Remaining' = Deques!Extended(k, "FrontToBack", n)
  <2>0. trv \in Traversal /\ trv.queue \in Queues
    BY <1>1 DEF TypeOK, Traversal
  <2>1. CASE current = Nil
    BY <1>1, <2>1, NothingRemaining DEF Deques!Extended
  <2>2. CASE trv.queue # k
    <3>1. Remaining' = Remaining
      BY <1>1, <1>3, <2>0, <2>2, UntouchedRemaining
    <3> QED
      BY <2>2, <3>1 DEF Deques!Extended
  <2>3. CASE current # Nil /\ trv.queue = k
    <3>1. PICK i \in 1 .. q[k].elements :
            /\ current = s[i]
            /\ Remaining = Rest(s, q[k].elements, trv.dir, i)
            /\ Remaining # <<>>
      BY <1>1, <1>2, <2>3, CursorPlace
    <3>2. i \in 1 .. q'[k].elements /\ current' = t[i]
      BY <1>1, <1>2, <1>3, <1>4, <3>1 DEF Pushed
    <3>3. Remaining' = Rest(t, q'[k].elements, trv.dir, i)
      BY <1>1, <1>2, <1>3, <2>3, <3>2, RemainingNext
    <3>4. Remaining' = IF trv.dir = "FrontToBack" THEN Append(Remaining, n)
                                                  ELSE Remaining
      BY <1>2, <1>3, <1>4, <3>1, <3>3, RestPushed
    <3>5. trv = [queue |-> k, dir |-> "FrontToBack"] <=> trv.dir = "FrontToBack"
      BY <2>0, <2>3 DEF Traversal
    <3> QED
      BY <3>1, <3>4, <3>5 DEF Deques!Extended
  <2> QED
    BY <2>1, <2>2, <2>3
<1>8. Deques!Called("PushBack", n)
  BY NilAssumption
  DEF NodePushBack, AssertState, Called, IInv, HaltsOnEmptyOnly, Running,
      Deques!Called
<1> QED
  BY <1>1, <1>5, <1>6, <1>7, <1>8 DEF Deques!PushBack

(* QUEUE_NodePushFront puts the node before those of its queue.            *)
LEMMA PushFrontStep ==
  ASSUME IInv, IInv', NEW k \in Queues, NEW n \in Node, NodePushFront(k, n)
  PROVE  Deques!PushFront(k, n)
<1>1. /\ TypeOK /\ WellLinked /\ CursorInQueue /\ TypeOK'
      /\ holder[n] = Nil /\ trv' = trv /\ current' = current
  BY DEF IInv, NodePushFront, traversal
<1>2. PICK s \in [1 .. q[k].elements -> Node],
           t \in [1 .. q[k].elements + 1 -> Node] :
        InOrder(k, s) /\ t = Preceded(s, q[k].elements, n) /\ InOrder(k, t)'
  BY PushFrontLinks
<1>3. /\ \A j \in Queues : j # k => Untouched(j)
      /\ q'[k].elements = q[k].elements + 1
  BY PushFrontLinks
<1>4. q[k].elements \in Nat
  BY <1>1 DEF TypeOK
<1>5. Deques!IsFree(n)
  <2>1. \A j \in Queues : holder[n] # j
    BY <1>1, NilAssumption
  <2> QED
    BY <1>1, <2>1, ListedNodes DEF Deques!IsFree
<1>6. Listed' = [Listed EXCEPT ![k] = <<n>> \o @]
  <2>1. Listed[k] = s
    BY <1>1, <1>2, ListedIs
  <2>2. t = <<n>> \o s
    BY <1>2, <1>4, PrecededIs
  <2>3. Listed' = [Listed EXCEPT ![k] = t]
    BY <1>1, <1>2, <1>3, ListedExcept
  <2> QED
    BY <2>1, <2>2, <2>3
<1>7. Remaining' = Deques!Extended(k, "BackToFront", n)
  <2>0. trv \in Traversal /\ trv.queue \in Queues
    BY <1>1 DEF TypeOK, Traversal
  <2>1. CASE current = Nil
    BY <1>1, <2>1, NothingRemaining DEF Deques!Extended
  <2>2. CASE trv.queue # k
    <3>1. Remaining' = Remaining
      BY <1>1, <1>3, <2>0, <2>2, UntouchedRemaining
    <3> QED
      BY <2>2, <3>1 DEF Deques!Extended
  <2>3. CASE current # Nil /\ trv.queue = k
    <3>1. PICK i \in 1 .. q[k].elements :
            /\ current = s[i]
            /\ Remaining = Rest(s, q[k].elements, trv.dir, i)
            /\ Remaining # <<>>
      BY <1>1, <1>2, <2>3, CursorPlace
    <3>2. i + 1 \in 1 .. q'[k].elements /\ current' = t[i + 1]
      BY <1>1, <1>2, <1>3, <1>4, <3>1 DEF Preceded
    <3>3. Remaining' = Rest(t, q'[k].elements, trv.dir, i + 1)
      BY <1>1, <1>2, <1>3, <2>3, <3>2, RemainingNext
    <3>4. Remaining' = IF trv.dir = "FrontToBack" THEN Remaining
                                                  ELSE Append(Remaining, n)
      <4>1. Rest(Preceded(s, q[k].elements, n), q[k].elements + 1, trv.dir, i + 1)
              = IF trv.dir = "FrontToBack"
                THEN Rest(s, q[k].elements, trv.dir, i)
                ELSE Append(Rest(s, q[k].elements, trv.dir, i), n)
        BY <1>4, RestPreceded
      <4> QED
        BY <1>2, <1>3, <3>1, <3>3, <4>1
    <3>5. trv = [queue |-> k, dir |-> "BackToFront"] <=> trv.dir # "FrontToBack"
      BY <2>0, <2>3 DEF Traversal, Dir
    <3> QED
      BY <3>1, <3>4, <3>5 DEF Deques!Extended
  <2> QED
    BY <2>1, <2>2, <2>3
<1>8. Deques!Called("PushFront", n)
  BY NilAssumption
  DEF NodePushFront, AssertState, Called, IInv, HaltsOnEmptyOnly, Running,
      Deques!Called
<1> QED
  BY <1>1, <1>5, <1>6, <1>7, <1>8 DEF Deques!PushFront

(* QUEUE_NodeDetach removes the node, from what is left to return too.     *)
LEMMA DetachStep ==
  ASSUME IInv, IInv', NEW k \in Queues, NEW n \in Node, holder[n] = k,
         NEW op \in {"PopFront", "PopBack", "Detach"}, Detaches(k, n, op)
  PROVE  Deques!Removed(k, n) /\ Deques!Called(op, n)
<1>1. /\ TypeOK /\ WellLinked /\ CursorInQueue /\ TypeOK'
      /\ trv' = trv /\ current' = current /\ n # current
  BY DEF IInv, Detaches, traversal
<1>2. Detached(k, n) /\ holder' = [holder EXCEPT ![n] = Nil]
  BY DEF Detaches
<1>3. PICK s \in [1 .. q[k].elements -> Node], j \in 1 .. q[k].elements,
           t \in [1 .. q[k].elements - 1 -> Node] :
        /\ InOrder(k, s) /\ s[j] = n
        /\ t = Dropped(s, q[k].elements, j) /\ InOrder(k, t)'
  BY <1>2, DetachLinks, ZenonT(40)
<1>4. /\ \A l \in Queues : l # k => Untouched(l)
      /\ q'[k].elements = q[k].elements - 1
  BY <1>2, DetachLinks
<1>5. /\ q[k].elements \in Nat
      /\ \A i, l \in 1 .. q[k].elements : s[i] = s[l] => i = l
  BY <1>1, <1>3 DEF TypeOK, InOrder
<1>6. Listed' = [Listed EXCEPT ![k] = Deques!RemoveFirst(@, n)]
  <2>1. Listed[k] = s
    BY <1>1, <1>3, ListedIs
  <2>2. t = Deques!RemoveFirst(s, n)
    BY <1>3, <1>5, DroppedIs
  <2>3. Listed' = [Listed EXCEPT ![k] = t]
    BY <1>1, <1>3, <1>4, ListedExcept
  <2> QED
    BY <2>1, <2>2, <2>3
<1>7. Remaining' = Deques!RemoveFirst(Remaining, n)
  <2>0. trv \in Traversal /\ trv.queue \in Queues
    BY <1>1 DEF TypeOK, Traversal
  <2>1. CASE current = Nil
    <3>1. Remaining = <<>> /\ Remaining' = <<>>
      BY <1>1, <2>1, NothingRemaining
    <3>2. Deques!RemoveFirst(<<>>, n) = <<>>
      BY DEF Deques!RemoveFirst
    <3> QED
      BY <3>1, <3>2
  <2>2. CASE current # Nil /\ trv.queue # k
    <3>1. Remaining' = Remaining
      BY <1>1, <1>4, <2>0, <2>2, UntouchedRemaining
    <3>2. PICK u \in [1 .. q[trv.queue].elements -> Node] : InOrder(trv.queue, u)
      BY <1>1, <2>0 DEF WellLinked
    <3>3. \A i \in 1 .. q[trv.queue].elements : u[i] # n
      BY <2>2, <3>2 DEF InOrder
    <3> DEFINE m == q[trv.queue].elements
    <3>4. PICK i \in 1 .. m : Remaining = Rest(u, m, trv.dir, i)
      BY <1>1, <2>2, <3>2, CursorPlace
    <3>5. m \in Nat
      BY <1>1, <2>0 DEF TypeOK
    <3>6. Deques!RemoveFirst(Remaining, n) = Remaining
      BY <3>2, <3>3, <3>4, <3>5, RestWithout
    <3> QED
      BY <3>1, <3>6
  <2>3. CASE current # Nil /\ trv.queue = k
    <3>1. PICK i \in 1 .. q[k].elements :
            /\ current = s[i]
            /\ Remaining = Rest(s, q[k].elements, trv.dir, i)
      BY <1>1, <1>3, <2>3, CursorPlace
    <3> DEFINE p == IF i < j THEN i ELSE i - 1
    <3>2. i # j /\ p \in 1 .. q'[k].elements /\ current' = t[p]
      BY <1>1, <1>3, <1>4, <1>5, <3>1 DEF Dropped
    <3> HIDE DEF p
    <3>3. Remaining' = Rest(t, q'[k].elements, trv.dir, p)
      BY <1>1, <1>3, <1>4, <2>3, <3>2, RemainingNext
    <3>4. Rest(t, q[k].elements - 1, trv.dir, p)
            = Deques!RemoveFirst(Rest(s, q[k].elements, trv.dir, i), s[j])
      <4> DEFINE m == q[k].elements
      <4>1. /\ m \in Nat /\ s \in [1 .. m -> Node] /\ j \in 1 .. m /\ i \in 1 .. m
            /\ \A x, y \in 1 .. m : s[x] = s[y] => x = y
        BY <1>5
      <4> HIDE DEF m
      <4>2. Rest(Dropped(s, m, j), m - 1, trv.dir, p)
              = Deques!RemoveFirst(Rest(s, m, trv.dir, i), s[j])
        BY <3>2, <4>1, RestDropped DEF p
      <4> QED
        BY <1>3, <4>2 DEF m
    <3> QED
      BY <1>3, <1>4, <3>1, <3>3, <3>4
  <2> QED
    BY <2>1, <2>2, <2>3
<1>8. Deques!Called(op, n)
  BY NilAssumption
  DEF Detaches, AssertState, Called, IInv, HaltsOnEmptyOnly, Running,
      Deques!Called
<1> QED
  BY <1>1, <1>6, <1>7, <1>8 DEF Deques!Removed

(* A step that changes no link changes no order.                           *)
LEMMA OrderKept ==
  ASSUME UNCHANGED links, UNCHANGED holder, NEW k, NEW s, InOrder(k, s)
  PROVE  InOrder(k, s)'
BY DEF links, InOrder

(* The ends of a queue are those of its list.                              *)
LEMMA EndsListed ==
  ASSUME TypeOK, WellLinked, NEW k \in Queues,
         q[k].front # Nil \/ q[k].back # Nil
  PROVE  /\ Listed[k] # <<>>
         /\ Head(Listed[k]) = q[k].front
         /\ Deques!Last(Listed[k]) = q[k].back
<1>1. PICK s \in [1 .. q[k].elements -> Node] : InOrder(k, s)
  BY DEF WellLinked
<1>2. Listed[k] = s
  BY <1>1, ListedIs
<1>3. q[k].elements \in Nat /\ q[k].elements # 0
  BY EndsAgree DEF TypeOK
<1>4. q[k].front = s[1] /\ q[k].back = s[q[k].elements]
  BY <1>1, <1>3 DEF InOrder
<1>5. s \in Seq(Node) /\ Len(s) = q[k].elements
  BY <1>3, NodesAreSequence
<1> QED
  BY <1>2, <1>3, <1>4, <1>5 DEF Deques!Last

(* QUEUE_NodePopFront takes the first node of the list.                    *)
LEMMA PopFrontStep ==
  ASSUME IInv, IInv', NEW k \in Queues, NodePopFront(k), q[k].front # Nil
  PROVE  Deques!PopFront(k)
<1> DEFINE n == q[k].front
<1>1. TypeOK /\ WellLinked /\ n # Nil /\ Detaches(k, n, "PopFront")
  BY DEF IInv, NodePopFront
<1>2. n \in Node /\ holder[n] = k
  BY <1>1, EndsInQueue
<1>3. Listed[k] # <<>> /\ Head(Listed[k]) = n
  BY <1>1, EndsListed
<1> HIDE DEF n
<1>4. Deques!Removed(k, n) /\ Deques!Called("PopFront", n)
  BY <1>1, <1>2, DetachStep
<1> QED
  BY <1>3, <1>4 DEF Deques!PopFront

(* QUEUE_NodePopBack takes the last one.                                   *)
LEMMA PopBackStep ==
  ASSUME IInv, IInv', NEW k \in Queues, NodePopBack(k), q[k].back # Nil
  PROVE  Deques!PopBack(k)
<1> DEFINE n == q[k].back
<1>1. TypeOK /\ WellLinked /\ n # Nil /\ Detaches(k, n, "PopBack")
  BY DEF IInv, NodePopBack
<1>2. n \in Node /\ holder[n] = k
  BY <1>1, EndsInQueue
<1>3. Listed[k] # <<>> /\ Deques!Last(Listed[k]) = n
  BY <1>1, EndsListed
<1> HIDE DEF n
<1>4. Deques!Removed(k, n) /\ Deques!Called("PopBack", n)
  BY <1>1, <1>2, DetachStep
<1> QED
  BY <1>3, <1>4 DEF Deques!PopBack

(* A pop of an empty queue halts.                                          *)
LEMMA PopNoneStep ==
  ASSUME IInv, NEW k \in Queues, q[k].elements = 0, DetachesNone
  PROVE  Deques!PopNone(k)
<1>1. UNCHANGED <<q, prev, next, trv, current>>
  BY DEF DetachesNone, links, traversal
<1>2. Listed' = Listed /\ Remaining' = Remaining
  BY <1>1 DEF Listed, Remaining, Ahead
<1>3. Listed[k] = <<>>
  <2>1. q[k].front = Nil
    BY EndsAgree DEF IInv
  <2> QED
    BY <2>1, NoChain DEF Listed
<1> QED
  BY <1>1, <1>2, <1>3
  DEF DetachesNone, Running, Called, Deques!PopNone, Deques!Called

(* QUEUE_NodeDetach by a caller takes a node of the list.                  *)
LEMMA NodeDetachStep ==
  ASSUME IInv, IInv', NEW k \in Queues, NEW n \in Node, NodeDetach(k, n)
  PROVE  Deques!Detach(k, n)
<1>1. TypeOK /\ WellLinked /\ holder[n] = k /\ Detaches(k, n, "Detach")
  BY DEF IInv, NodeDetach
<1>2. Deques!Contains(Listed[k], n)
  BY <1>1, ListedNodes
<1>3. Deques!Removed(k, n) /\ Deques!Called("Detach", n)
  BY <1>1, DetachStep
<1> QED
  BY <1>2, <1>3 DEF Deques!Detach

(* From an end, all nodes are left: in the order of the list or reversed.  *)
LEMMA StartStep ==
  ASSUME IInv, IInv', UNCHANGED <<links, holder>>, NEW t \in Traversal, trv' = t, Start(t)
  PROVE  Deques!Start(t) /\ Listed' = Listed
<1>1. /\ TypeOK /\ WellLinked /\ TypeOK' /\ t.queue \in Queues
      /\ t.dir \in {"FrontToBack", "BackToFront"}
      /\ q' = q /\ prev' = prev /\ next' = next /\ holder' = holder
  BY DEF IInv, Traversal, Dir, links
<1> DEFINE k == t.queue
           m == q[t.queue].elements
<1>2. Listed' = Listed
  BY <1>1 DEF Listed
<1>3. PICK s \in [1 .. m -> Node] : InOrder(k, s)
  BY <1>1 DEF WellLinked
<1>4. Listed[k] = s
  BY <1>1, <1>3, ListedIs
<1>5. m \in Nat
  BY <1>1 DEF TypeOK
<1>6. s \in Seq(Node) /\ Len(s) = m
  BY <1>5, NodesAreSequence
<1>7. Remaining' = IF t.dir = "FrontToBack" THEN s ELSE Deques!Reverse(s)
  <2>1. CASE m = 0
    <3>1. current' = Nil
      BY <1>1, <1>3, <2>1 DEF Start, InOrder
    <3>2. Remaining' = <<>>
      BY <1>1, <3>1, NothingRemaining
    <3>3. s = <<>>
      BY <1>3, <2>1, NoNodes
    <3>4. Deques!Reverse(<<>>) = <<>>
      BY DEF Deques!Reverse
    <3> QED
      BY <3>2, <3>3, <3>4
  <2>2. CASE m # 0
    <3> DEFINE i == IF t.dir = "FrontToBack" THEN 1 ELSE m
    <3>1. i \in 1 .. m /\ current' = s[i]
      BY <1>1, <1>3, <1>5, <2>2 DEF Start, InOrder
    <3>2. InOrder(k, s)'
      BY <1>1, <1>3, OrderKept DEF links
    <3> HIDE DEF i
    <3>3. Remaining' = Rest(s, m, t.dir, i)
      BY <1>1, <3>1, <3>2, RemainingNext
    <3>4. Onward(s, m, 1) = s
      <4>1. m - 1 + 1 = m /\ \A j \in 1 .. m : 1 + j - 1 = j
        BY <1>5
      <4>2. \A j \in 1 .. m : s[1 + j - 1] = s[j]
        BY <4>1
      <4>3. s = [j \in 1 .. m |-> s[j]]
        OBVIOUS
      <4> HIDE DEF m
      <4> QED
        BY <4>1, <4>2, <4>3 DEF Onward
    <3>5. Backward(s, m) = Deques!Reverse(s)
      BY <1>6 DEF Backward, Deques!Reverse
    <3> QED
      BY <3>3, <3>4, <3>5 DEF Rest, i
  <2> QED
    BY <2>1, <2>2
<1> QED
  BY <1>2, <1>4, <1>7 DEF Deques!Start

(* One node on, the rest has lost its head.                                *)
LEMMA RestTail ==
  ASSUME NEW m \in Nat, NEW s \in [1 .. m -> Node], NEW i \in 1 .. m, NEW dir
  PROVE  Tail(Rest(s, m, dir, i))
           = IF dir = "FrontToBack"
             THEN IF i = m THEN <<>> ELSE Rest(s, m, dir, i + 1)
             ELSE IF i = 1 THEN <<>> ELSE Rest(s, m, dir, i - 1)
<1> DEFINE r == Rest(s, m, dir, i)
           l == IF dir = "FrontToBack" THEN m - i + 1 ELSE i
           e == IF dir = "FrontToBack" THEN i + 1 ELSE i - 1
<1>1. /\ l \in Nat \ {0} /\ r \in [1 .. l -> Node]
      /\ \A j \in 1 .. l :
           r[j] = IF dir = "FrontToBack" THEN s[i + j - 1] ELSE s[i - j + 1]
  BY RestNodes
<1> HIDE DEF r
<1>2. r \in Seq(Node) /\ Len(r) = l
  <2> HIDE DEF l
  <2> QED
    BY <1>1, NodesAreSequence
<1>3. r # <<>>
  <2> HIDE DEF l
  <2> QED
    BY <1>1, <1>2
<1>4. /\ Tail(r) \in Seq(Node) /\ Len(Tail(r)) = l - 1
      /\ \A j \in 1 .. l - 1 : Tail(r)[j] = r[j + 1]
  <2> HIDE DEF l
  <2> QED
    BY <1>2, <1>3, HeadTailProperties
<1>5. CASE l = 1
  <2> DEFINE u == Tail(r)
  <2>0. u \in Seq(Node) /\ Len(u) = 0
    <3> HIDE DEF l
    <3> QED
      BY <1>4, <1>5
  <2> HIDE DEF u
  <2>1. u = <<>>
    BY <2>0, EmptySeq
  <2> QED
    BY <1>5, <2>1 DEF r, u
<1>6. CASE l # 1
  <2>1. e \in 1 .. m
    BY <1>1, <1>6
  <2> DEFINE u == Rest(s, m, dir, e)
  <2>2. /\ u \in [1 .. l - 1 -> Node] /\ l - 1 \in Nat
        /\ \A j \in 1 .. l - 1 :
             u[j] = IF dir = "FrontToBack" THEN s[e + j - 1] ELSE s[e - j + 1]
    <3>1. (IF dir = "FrontToBack" THEN m - e + 1 ELSE e) = l - 1 /\ l - 1 \in Nat
      BY <1>1
    <3> HIDE DEF e, u
    <3>2. LET x == IF dir = "FrontToBack" THEN m - e + 1 ELSE e
          IN  /\ Rest(s, m, dir, e) \in [1 .. x -> Node]
              /\ \A j \in 1 .. x :
                   Rest(s, m, dir, e)[j] = IF dir = "FrontToBack" THEN s[e + j - 1]
                                                                  ELSE s[e - j + 1]
      BY <2>1, RestNodes
    <3> HIDE DEF l
    <3> QED
      BY <3>1, <3>2 DEF u
  <2> HIDE DEF u
  <2>3. \A j \in 1 .. l - 1 : Tail(r)[j] = u[j]
    <3> SUFFICES ASSUME NEW j \in 1 .. l - 1 PROVE Tail(r)[j] = u[j]
      OBVIOUS
    <3>1. r[j + 1] = IF dir = "FrontToBack" THEN s[i + (j + 1) - 1]
                                            ELSE s[i - (j + 1) + 1]
      BY <1>1
    <3>2. i + (j + 1) - 1 = (i + 1) + j - 1 /\ i - (j + 1) + 1 = (i - 1) - j + 1
      BY <1>1
    <3> QED
      BY <1>4, <2>2, <3>1, <3>2
  <2>4. Tail(r) = u
    <3> HIDE DEF l, e
    <3> QED
      BY <1>4, <2>2, <2>3, SameNodes
  <2> QED
    BY <1>6, <2>4 DEF r, u
<1> QED
  BY <1>5, <1>6

(* QUEUE_TRV_Step returns the head of the rest and keeps its tail.         *)
LEMMA TrvStepStep ==
  ASSUME IInv, IInv', TrvStep
  PROVE  Deques!TrvStep
<1>1. /\ TypeOK /\ WellLinked /\ CursorInQueue /\ TypeOK'
      /\ q' = q /\ prev' = prev /\ next' = next /\ holder' = holder
      /\ trv' = trv
      /\ trv \in Traversal /\ trv.queue \in Queues
  BY DEF IInv, TrvStep, links, TypeOK, Traversal
<1> DEFINE k == trv.queue
           m == q[trv.queue].elements
<1>2. Listed' = Listed
  BY <1>1 DEF Listed
<1>3. CASE current = Nil
  <2>1. current' = Nil
    BY <1>3 DEF TrvStep
  <2>2. Remaining = <<>> /\ Remaining' = <<>>
    BY <1>1, <1>3, <2>1, NothingRemaining
  <2> QED
    BY <1>1, <1>2, <1>3, <2>2 DEF TrvStep, Running, Called, Deques!TrvStep, Deques!Called
<1>4. CASE current # Nil
  <2>1. PICK s \in [1 .. m -> Node] : InOrder(k, s)
    BY <1>1 DEF WellLinked
  <2>2. PICK i \in 1 .. m :
          /\ current = s[i]
          /\ Remaining = Rest(s, m, trv.dir, i)
          /\ Remaining # <<>>
          /\ Head(Remaining) = current
    BY <1>1, <1>4, <2>1, CursorPlace
  <2>3. InOrder(k, s)'
    BY <1>1, <2>1, OrderKept DEF links
  <2>4. m \in Nat
    BY <1>1 DEF TypeOK
  <2>5. /\ prev[s[i]] = IF i = m THEN Nil ELSE s[i + 1]
        /\ next[s[i]] = IF i = 1 THEN Nil ELSE s[i - 1]
    BY <2>1 DEF InOrder
  <2>6. Remaining' = Tail(Remaining)
    <3> DEFINE last == IF trv.dir = "FrontToBack" THEN i = m ELSE i = 1
               e == IF trv.dir = "FrontToBack" THEN i + 1 ELSE i - 1
    <3>1. current' = IF last THEN Nil ELSE s[e]
      BY <1>4, <2>2, <2>5 DEF TrvStep, Ahead
    <3>2. Tail(Remaining) = IF last THEN <<>> ELSE Rest(s, m, trv.dir, e)
      <4> DEFINE dir == trv.dir
      <4> HIDE DEF m, dir
      <4>1. Tail(Rest(s, m, dir, i))
              = IF dir = "FrontToBack"
                THEN IF i = m THEN <<>> ELSE Rest(s, m, dir, i + 1)
                ELSE IF i = 1 THEN <<>> ELSE Rest(s, m, dir, i - 1)
        BY <2>4, RestTail
      <4> QED
        BY <2>2, <4>1 DEF dir
    <3>3. CASE last
      BY <1>1, <3>1, <3>2, <3>3, NothingRemaining
    <3>4. CASE ~ last
      <4>1. e \in 1 .. m
        BY <2>4, <3>4
      <4> HIDE DEF e, last
      <4>2. Remaining' = Rest(s, m, trv.dir, e)
        BY <1>1, <2>3, <3>1, <3>4, <4>1, RemainingNext
      <4> QED
        BY <3>2, <3>4, <4>2
    <3> QED
      BY <3>3, <3>4
  <2> QED
    BY <1>1, <1>2, <2>2, <2>6 DEF TrvStep, Running, Called, Deques!TrvStep, Deques!Called
<1> QED
  BY <1>3, <1>4

-----------------------------------------------------------------------------
(* The initial state maps to one of empty queues.                          *)
LEMMA DequesInit == Init => Deques!Init
<1> SUFFICES ASSUME Init PROVE Deques!Init
  OBVIOUS
<1>1. TypeOK
  BY InitIInv DEF IInv
<1>2. Remaining = <<>>
  BY <1>1, NothingRemaining DEF Init
<1>3. \A k \in Queues : Listed[k] = <<>>
  <2> SUFFICES ASSUME NEW k \in Queues PROVE Listed[k] = <<>>
    OBVIOUS
  <2>1. q[k].elements = 0 /\ q[k].front = Nil
    BY DEF Init, EmptyQueue
  <2>2. Chain(0, Nil, prev) = <<>>
    BY NoChain
  <2> QED
    BY <2>1, <2>2 DEF Listed
<1>4. Listed = [k \in Queues |-> <<>>]
  BY <1>3 DEF Listed
<1> QED
  BY <1>2, <1>4 DEF Init, Traversal, Dir, Deques!Init, Deques!Dir

(* Every step maps to a step of the abstract queues, or to none.           *)
LEMMA DequesNext ==
  IInv /\ IInv' /\ [Next]_vars => [Deques!Next]_(Deques!vars)
<1> SUFFICES ASSUME IInv, IInv', [Next]_vars PROVE [Deques!Next]_(Deques!vars)
  OBVIOUS
<1>1. ASSUME NEW k \in Queues, NEW n \in Node, NodePushBack(k, n)
      PROVE  Deques!PushBack(k, n)
  BY <1>1, PushBackStep
<1>2. ASSUME NEW k \in Queues, NEW n \in Node, NodePushFront(k, n)
      PROVE  Deques!PushFront(k, n)
  BY <1>2, PushFrontStep
<1>3. ASSUME NEW k \in Queues, NEW n \in Node, NodeDetach(k, n)
      PROVE  Deques!Detach(k, n)
  BY <1>3, NodeDetachStep
<1>4. ASSUME NEW k \in Queues, NodePopFront(k)
      PROVE  Deques!PopFront(k) \/ Deques!PopNone(k)
  <2>1. CASE q[k].front # Nil
    BY <1>4, <2>1, PopFrontStep
  <2>2. CASE q[k].front = Nil
    <3>1. TypeOK /\ WellLinked
      BY DEF IInv
    <3> QED
      BY <1>4, <2>2, <3>1, EndsAgree, PopNoneStep DEF NodePopFront
  <2> QED
    BY <2>1, <2>2
<1>5. ASSUME NEW k \in Queues, NodePopBack(k)
      PROVE  Deques!PopBack(k) \/ Deques!PopNone(k)
  <2>1. CASE q[k].back # Nil
    BY <1>5, <2>1, PopBackStep
  <2>2. CASE q[k].back = Nil
    <3>1. TypeOK /\ WellLinked
      BY DEF IInv
    <3> QED
      BY <1>5, <2>2, <3>1, EndsAgree, PopNoneStep DEF NodePopBack
  <2> QED
    BY <2>1, <2>2
<1>6. ASSUME NEW t \in Traversal, TrvInit(t) PROVE Deques!TrvInit(t)
  <2>1. Deques!Start(t) /\ Listed' = Listed
    BY <1>6, StartStep DEF TrvInit
  <2> QED
    BY <1>6, <2>1 DEF TrvInit, Running, Called, Deques!TrvInit, Deques!Called
<1>7. ASSUME TrvReset PROVE Deques!TrvReset
  <2>1. trv \in Traversal
    BY DEF IInv, TypeOK
  <2>2. Deques!Start(trv) /\ Listed' = Listed
    BY <1>7, <2>1, StartStep DEF TrvReset
  <2> QED
    BY <1>7, <2>2 DEF TrvReset, Running, Called, Deques!TrvReset, Deques!Called
<1>8. ASSUME TrvStep PROVE Deques!TrvStep
  BY <1>8, TrvStepStep
<1>9. ASSUME UNCHANGED vars PROVE UNCHANGED (Deques!vars)
  <2>1. UNCHANGED <<q, prev, next, trv, current, call>>
    BY <1>9 DEF vars, links, traversal
  <2>2. Listed' = Listed /\ Remaining' = Remaining
    BY <2>1 DEF Listed, Remaining, Ahead
  <2> QED
    BY <2>1, <2>2 DEF Deques!vars
<1>10. Traversal = [queue : Queues, dir : Deques!Dir]
  BY DEF Traversal, Dir, Deques!Dir
<1> QED
  BY <1>1, <1>2, <1>3, <1>4, <1>5, <1>6, <1>7, <1>8, <1>9, <1>10
  DEF Next, Deques!Next

(***************************************************************************)
(* Whatever the callers push, pop and detach, and however far a traversal  *)
(* is then, the linked nodes behave as the sequences they stand for, and   *)
(* the traversal returns the nodes ahead of it once each and in order.     *)
(***************************************************************************)
THEOREM QueuesAreDeques == Spec => IsDeque
<1>1. Spec => []IInv
  BY Invariance
<1> QED
  BY <1>1, DequesInit, DequesNext, PTL DEF Spec, IsDeque, Deques!Spec

=============================================================================

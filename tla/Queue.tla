-------------------------------- MODULE Queue --------------------------------
(***************************************************************************)
(* The doubly linked queues of source/core/queue.c: several queues that    *)
(* exchange nodes, as the ready and waiting queues of RetrOS do, and one   *)
(* traversal that goes on while they change.  The callers keep to two      *)
(* rules that no code checks: a node is in one queue at most, and is only  *)
(* detached from the queue it is in; and the node the traversal is to      *)
(* return next is not detached (the one it returned last may be).          *)
(***************************************************************************)
EXTENDS Integers, Sequences

CONSTANTS
  Node,           \* struct QUEUE_Node
  Queues,         \* struct QUEUE
  Nil             \* NULL

ASSUME NilAssumption == Nil \notin Node /\ Nil \notin Queues

VARIABLES
  q,              \* front, back and elements of each queue
  prev,           \* of each node, the one closer to the back
  next,           \* of each node, the one closer to the front
  trv,            \* struct QUEUE_TRV without its cursor
  current,        \* its cursor
  holder,         \* the callers' knowledge of the queue a node is in
  call            \* the last operation and the node it took or returned

links == <<q, prev, next>>
traversal == <<trv, current>>
vars == <<links, traversal, holder, call>>

Dir == {"FrontToBack", "BackToFront"}
Traversal == [queue : Queues, dir : Dir]

EmptyQueue == [front |-> Nil, back |-> Nil, elements |-> 0]

Called(op, n) == call' = [op |-> op, node |-> n]

(* QUEUE_Init, with nodes whose memory was cleared.                        *)
Init ==
  /\ q = [k \in Queues |-> EmptyQueue]
  /\ prev = [n \in Node |-> Nil]
  /\ next = [n \in Node |-> Nil]
  /\ trv \in Traversal
  /\ current = Nil
  /\ holder = [n \in Node |-> Nil]
  /\ call = [op |-> "Init", node |-> Nil]

(* A BOARD_AssertState that fails stops the program.                       *)
AssertState(cond, op, n) == IF cond THEN Called(op, n) ELSE Called("Halt", n)

Running == call.op # "Halt"

-----------------------------------------------------------------------------
(* n becomes the neighbour of ref on the side of the links `link'.  Beyond *)
(* gives the links on that side and Behind those on the other one.         *)
Beyond(link, ref, n) == [link EXCEPT ![n] = link[ref], ![ref] = n]

(* Mutant of Behind: the new node does not point back at its neighbour.    *)
BehindOneWay(link, other, ref, n) ==
  [other EXCEPT ![n] = Nil]

Behind(link, other, ref, n) ==
  [m \in Node |-> IF m = n THEN ref
                  ELSE IF m = link[ref] THEN n ELSE other[m]]

(* Mutant of Bypassed: the detached node keeps its link.                   *)
BypassedKeepingLink(link, other, n) ==
  [m \in Node |-> IF m = other[n] THEN link[n] ELSE link[m]]

(* The node before n on the other side gets n's link of this side.         *)
Bypassed(link, other, n) ==
  [m \in Node |-> IF m = n THEN Nil
                  ELSE IF m = other[n] THEN link[n] ELSE link[m]]

NodePushBack(k, n) ==
  /\ Running
  /\ holder[n] = Nil
  /\ IF q[k].front = Nil
     THEN /\ AssertState(q[k].back = Nil, "PushBack", n)
          /\ q' = [q EXCEPT ![k].front = n, ![k].back = n,
                            ![k].elements = @ + 1]
          /\ UNCHANGED <<prev, next>>
     ELSE /\ AssertState(q[k].back # Nil, "PushBack", n)
          /\ prev' = Beyond(prev, q[k].back, n)
          /\ next' = Behind(prev, next, q[k].back, n)
          /\ q' = [q EXCEPT ![k].back = n, ![k].elements = @ + 1]
  /\ holder' = [holder EXCEPT ![n] = k]
  /\ UNCHANGED traversal

NodePushFront(k, n) ==
  /\ Running
  /\ holder[n] = Nil
  /\ IF q[k].back = Nil
     THEN /\ AssertState(q[k].front = Nil, "PushFront", n)
          /\ q' = [q EXCEPT ![k].front = n, ![k].back = n,
                            ![k].elements = @ + 1]
          /\ UNCHANGED <<prev, next>>
     ELSE /\ AssertState(q[k].front # Nil, "PushFront", n)
          /\ next' = Beyond(next, q[k].front, n)
          /\ prev' = Behind(next, prev, q[k].front, n)
          /\ q' = [q EXCEPT ![k].front = n, ![k].elements = @ + 1]
  /\ holder' = [holder EXCEPT ![n] = k]
  /\ UNCHANGED traversal

(* What QUEUE_NodeDetach asserts.                                          *)
Detachable(k, n) ==
  LET isHead == q[k].front = n
      isTail == q[k].back = n
  IN  /\ q[k].elements # 0 /\ q[k].front # Nil /\ q[k].back # Nil
      /\ isHead /\ isTail => prev[n] = Nil /\ next[n] = Nil
      /\ isHead /\ ~ isTail => prev[n] # Nil
      /\ isTail /\ ~ isHead => next[n] # Nil

(* Mutant of Detached: detaching the back node leaves it at the back.      *)
DetachedFromFront(k, n) ==
  /\ q' = [q EXCEPT ![k].front = IF @ = n THEN prev[n] ELSE @,
                    ![k].elements = @ - 1]
  /\ prev' = Bypassed(prev, next, n)
  /\ next' = Bypassed(next, prev, n)

(* Mutant of Detached: the front and the back node are counted twice.      *)
DetachedCountedTwice(k, n) ==
  /\ q' = [q EXCEPT ![k].front = IF @ = n THEN prev[n] ELSE @,
                    ![k].back = IF @ = n THEN next[n] ELSE @,
                    ![k].elements = IF n \in {q[k].front, q[k].back}
                                    THEN @ - 2 ELSE @ - 1]
  /\ prev' = Bypassed(prev, next, n)
  /\ next' = Bypassed(next, prev, n)

(* The body of QUEUE_NodeDetach: n may be at one of the ends, or both.     *)
Detached(k, n) ==
  /\ q' = [q EXCEPT ![k].front = IF @ = n THEN prev[n] ELSE @,
                    ![k].back = IF @ = n THEN next[n] ELSE @,
                    ![k].elements = @ - 1]
  /\ prev' = Bypassed(prev, next, n)
  /\ next' = Bypassed(next, prev, n)

(* A caller of QUEUE_NodeDetach, directly or to pop.                       *)
Detaches(k, n, op) ==
  /\ Running
  /\ n # current
  /\ AssertState(Detachable(k, n), op, n)
  /\ Detached(k, n)
  /\ holder' = [holder EXCEPT ![n] = Nil]
  /\ UNCHANGED traversal

NodeDetach(k, n) == holder[n] = k /\ Detaches(k, n, "Detach")

(* A pop of an empty queue has no node to detach: QUEUE_NodeDetach asserts *)
(* that it is given one.                                                   *)
DetachesNone ==
  /\ Running
  /\ Called("Halt", Nil)
  /\ UNCHANGED <<links, traversal, holder>>

NodePopFront(k) ==
  \/ q[k].front # Nil /\ Detaches(k, q[k].front, "PopFront")
  \/ q[k].front = Nil /\ DetachesNone

NodePopBack(k) ==
  \/ q[k].back # Nil /\ Detaches(k, q[k].back, "PopBack")
  \/ q[k].back = Nil /\ DetachesNone

-----------------------------------------------------------------------------
(* Mutant of Start: the cursor is set before the queue and the direction.  *)
StartTooEarly(t) ==
  current' = IF trv.dir = "FrontToBack" THEN q[trv.queue].front
                                        ELSE q[trv.queue].back

(* The end a traversal starts from.                                        *)
Start(t) ==
  current' = IF t.dir = "FrontToBack" THEN q[t.queue].front
                                      ELSE q[t.queue].back

TrvInit(t) ==
  /\ Running
  /\ trv' = t
  /\ Start(t)
  /\ Called("TrvInit", Nil)
  /\ UNCHANGED <<links, holder>>

TrvReset ==
  /\ Running
  /\ Start(trv)
  /\ Called("TrvReset", Nil)
  /\ UNCHANGED <<links, trv, holder>>

(* Mutant of Ahead: the links are taken for those of the other direction.  *)
AheadReversed(t) == IF t.dir = "FrontToBack" THEN next ELSE prev

(* The links a traversal follows.                                          *)
Ahead(t) == IF t.dir = "FrontToBack" THEN prev ELSE next

(* The node at the cursor is returned, and the cursor leaves it.           *)
TrvStep ==
  /\ Running
  /\ Called("TrvStep", current)
  /\ current' = IF current = Nil THEN Nil ELSE Ahead(trv)[current]
  /\ UNCHANGED <<links, trv, holder>>

Next ==
  \/ \E k \in Queues :
       \/ NodePopFront(k)
       \/ NodePopBack(k)
       \/ \E n \in Node :
            NodePushBack(k, n) \/ NodePushFront(k, n) \/ NodeDetach(k, n)
  \/ \E t \in Traversal : TrvInit(t)
  \/ TrvReset
  \/ TrvStep

Spec == Init /\ [][Next]_vars

-----------------------------------------------------------------------------
NodeOrNil == Node \cup {Nil}

(* The type invariant.                                                     *)
TypeOK ==
  /\ q \in [Queues -> [front : NodeOrNil, back : NodeOrNil, elements : Nat]]
  /\ prev \in [Node -> NodeOrNil]
  /\ next \in [Node -> NodeOrNil]
  /\ trv \in Traversal
  /\ current \in NodeOrNil
  /\ holder \in [Node -> Queues \cup {Nil}]
  /\ call \in [op : {"Init", "PushBack", "PushFront", "PopFront", "PopBack",
                     "Detach", "TrvInit", "TrvReset", "TrvStep", "Halt"},
               node : NodeOrNil]

(* s lists the nodes of queue k in order: its ends, its count and the two  *)
(* links of each node say the same of them.                                *)
InOrder(k, s) ==
  LET last == q[k].elements
  IN  /\ \A i, j \in 1 .. last : s[i] = s[j] => i = j
      /\ \A n \in Node : holder[n] = k <=> \E i \in 1 .. last : s[i] = n
      /\ q[k].front = IF last = 0 THEN Nil ELSE s[1]
      /\ q[k].back = IF last = 0 THEN Nil ELSE s[last]
      /\ \A i \in 1 .. last :
           /\ prev[s[i]] = IF i = last THEN Nil ELSE s[i + 1]
           /\ next[s[i]] = IF i = 1 THEN Nil ELSE s[i - 1]

(***************************************************************************)
(* Whatever nodes are moved between the queues, and from either end, every *)
(* queue is one chain from its front to its back, the same read in both    *)
(* directions, of as many nodes as it counts and of exactly those the      *)
(* callers put in it (QUEUE_NodePush..., QUEUE_NodeDetach).                *)
(***************************************************************************)
WellLinked ==
  \A k \in Queues : \E s \in [1 .. q[k].elements -> Node] : InOrder(k, s)

(***************************************************************************)
(* A node that is in no queue has no links left: nodePushBack is skipped   *)
(* for an empty queue, and a link left in the node would join the queue.   *)
(***************************************************************************)
FreeNodesUnlinked ==
  \A n \in Node : holder[n] = Nil => prev[n] = Nil /\ next[n] = Nil

(***************************************************************************)
(* The cursor of a traversal never leaves its queue, though nodes are      *)
(* detached from it between two steps, the one just returned included      *)
(* (queue.c:239-246).                                                      *)
(***************************************************************************)
CursorInQueue == current # Nil => holder[current] = trv.queue

(***************************************************************************)
(* The assertions of queue.c about its own state never fail: the program   *)
(* halts only when a queue with no elements is popped (queue.c:288).       *)
(***************************************************************************)
HaltsOnEmptyOnly ==
  ~ Running => call.node = Nil /\ \E k \in Queues : q[k].elements = 0

(* The first m nodes found from `from' along the links `link', then Nil.   *)
Found(m, from, link) ==
  LET nth[i \in 1 .. m] ==
        IF i = 1 THEN from
        ELSE IF nth[i - 1] = Nil THEN Nil ELSE link[nth[i - 1]]
  IN  nth

(* Their sequence up to the last one, m of them at most.                   *)
Chain(m, from, link) ==
  LET found == Found(m, from, link)
      length == CHOOSE l \in 0 .. m :
                  \A i \in 1 .. m : i <= l <=> found[i] # Nil
  IN  [i \in 1 .. length |-> found[i]]

(* The nodes of each queue, and those the traversal has still to return.   *)
Listed == [k \in Queues |-> Chain(q[k].elements, q[k].front, prev)]
Remaining == Chain(q[trv.queue].elements, current, Ahead(trv))

(***************************************************************************)
(* The linked nodes are double-ended queues, and the traversal returns     *)
(* every node it has still to return exactly once and in order, those      *)
(* inserted ahead of it included and those detached left out.              *)
(***************************************************************************)
Deques == INSTANCE Deque WITH
            Queue <- Queues, deque <- Listed, left <- Remaining

IsDeque == Deques!Spec

=============================================================================

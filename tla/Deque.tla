-------------------------------- MODULE Deque --------------------------------
(***************************************************************************)
(* What queue.h promises: double-ended queues whose nodes are inserted and *)
(* removed at both ends, any node may be detached, and a traversal that    *)
(* returns the nodes one by one while the queue changes under it.          *)
(***************************************************************************)
EXTENDS SequencesExt

CONSTANTS
  Node,           \* the nodes, embedded in the callers' structures
  Queue,          \* the queues
  Nil             \* no node

VARIABLES
  deque,          \* the nodes of each queue, the front one first
  trv,            \* the queue the traversal steps through and its direction
  left,           \* the nodes it has still to return, the next one first
  call            \* the last operation and the node it took or returned

vars == <<deque, trv, left, call>>

Dir == {"FrontToBack", "BackToFront"}

(* An operation is called, unless the program has halted.                  *)
Called(op, n) == call.op # "Halt" /\ call' = [op |-> op, node |-> n]

Init ==
  /\ deque = [k \in Queue |-> <<>>]
  /\ trv \in [queue : Queue, dir : Dir]
  /\ left = <<>>
  /\ call = [op |-> "Init", node |-> Nil]

IsFree(n) == \A k \in Queue : ~ Contains(deque[k], n)

(* A node inserted at the end the traversal is heading to will be reached, *)
(* unless the traversal is over.                                           *)
Extended(k, dir, n) ==
  IF trv = [queue |-> k, dir |-> dir] /\ left # <<>> THEN Append(left, n)
                                                     ELSE left

PushBack(k, n) ==
  /\ IsFree(n)
  /\ deque' = [deque EXCEPT ![k] = Append(@, n)]
  /\ left' = Extended(k, "FrontToBack", n)
  /\ Called("PushBack", n)
  /\ UNCHANGED trv

PushFront(k, n) ==
  /\ IsFree(n)
  /\ deque' = [deque EXCEPT ![k] = <<n>> \o @]
  /\ left' = Extended(k, "BackToFront", n)
  /\ Called("PushFront", n)
  /\ UNCHANGED trv

(* A node leaves its queue; the traversal will not return it.              *)
Removed(k, n) ==
  /\ deque' = [deque EXCEPT ![k] = RemoveFirst(@, n)]
  /\ left' = RemoveFirst(left, n)
  /\ UNCHANGED trv

PopFront(k) ==
  /\ deque[k] # <<>>
  /\ Removed(k, Head(deque[k]))
  /\ Called("PopFront", Head(deque[k]))

PopBack(k) ==
  /\ deque[k] # <<>>
  /\ Removed(k, Last(deque[k]))
  /\ Called("PopBack", Last(deque[k]))

(* Popping an empty queue halts the program.                               *)
PopNone(k) ==
  deque[k] = <<>> /\ Called("Halt", Nil) /\ UNCHANGED <<deque, trv, left>>

Detach(k, n) ==
  /\ Contains(deque[k], n)
  /\ Removed(k, n)
  /\ Called("Detach", n)

Start(t) ==
  left' = IF t.dir = "FrontToBack" THEN deque[t.queue]
                                   ELSE Reverse(deque[t.queue])

TrvInit(t) ==
  trv' = t /\ Start(t) /\ Called("TrvInit", Nil) /\ UNCHANGED deque

TrvReset == Start(trv) /\ Called("TrvReset", Nil) /\ UNCHANGED <<deque, trv>>

TrvStep ==
  /\ Called("TrvStep", IF left = <<>> THEN Nil ELSE Head(left))
  /\ left' = IF left = <<>> THEN left ELSE Tail(left)
  /\ UNCHANGED <<deque, trv>>

Next ==
  \/ \E k \in Queue :
       \/ PopFront(k)
       \/ PopBack(k)
       \/ PopNone(k)
       \/ \E n \in Node : PushBack(k, n) \/ PushFront(k, n) \/ Detach(k, n)
  \/ \E t \in [queue : Queue, dir : Dir] : TrvInit(t)
  \/ TrvReset
  \/ TrvStep

Spec == Init /\ [][Next]_vars

=============================================================================

----------------------------- MODULE UartStream -----------------------------
(***************************************************************************)
(* The interrupt-driven UART stream of the STM32 boards                    *)
(* (source/arch/arm-cortex/stm32/drivers/stream_uart.c) under the transfer *)
(* loops of STREAM_IN_FromBuffer and STREAM_OUT_ToBuffer                   *)
(* (source/core/device/stream.c).                                          *)
(*                                                                         *)
(* A task sends and receives octets through two CYCLIC buffers it shares   *)
(* with the interrupt handler.  The handler runs to completion between any *)
(* two steps of the task; a step of the task is a load, a store, or a      *)
(* stretch of code that touches nothing the handler uses.                  *)
(*                                                                         *)
(* Octets are numbered in the order they are sent, on either line.         *)
(***************************************************************************)
EXTENDS Integers, Sequences

CONSTANTS
  SendCapacity,   \* InOctets, the capacity of sendCb
  RecvCapacity,   \* OutOctets, the capacity of recvCb
  MaxSent,        \* bound: octets the task sends
  MaxArrived,     \* bound: octets the other end sends
  MaxTransfer     \* bound: octets of one transfer

ASSUME UartAssumption ==
  /\ SendCapacity \in Nat \ {0}
  /\ RecvCapacity \in Nat \ {0}
  /\ MaxSent \in Nat
  /\ MaxArrived \in Nat
  /\ MaxTransfer \in Nat \ {0}

VARIABLES
  sendCb,         \* struct CYCLIC: octets to be transmitted
  recvCb,         \* struct CYCLIC: octets received
  txeie,          \* USART_CR1_TXEIE: interrupt when the register is empty
  dr,             \* octet in the transmit data register, if any
  rdr,            \* octet in the receive data register, if any
  wire,           \* octets that were transmitted
  arrived,        \* number of octets that were received
  accepted,       \* number of octets STREAM_IN_FromBuffer reported as sent
  delivered,      \* octets STREAM_OUT_ToBuffer gave to its caller
  task            \* where the task is, see Idle

vars == <<sendCb, recvCb, txeie, dr, rdr, wire, arrived, accepted,
          delivered, task>>

Octets == 0 .. MaxSent + MaxArrived

Send == INSTANCE Cyclic WITH
  Capacity <- SendCapacity, Octet <- Octets, Zero <- 0
Recv == INSTANCE Cyclic WITH
  Capacity <- RecvCapacity, Octet <- Octets, Zero <- 0

sending == <<sendCb, txeie, dr, wire, accepted>>
receiving == <<recvCb, rdr, arrived, delivered>>

(***************************************************************************)
(* The task between two transfers.  In a transfer of `octets' octets: count*)
(* is S->count; got is what this call of dataIn or dataOut has done;       *)
(* step and loaded are its local variables.                                *)
(***************************************************************************)
Idle ==
  [pc |-> "Idle", octets |-> 0, count |-> 0, got |-> 0, step |-> 0,
   loaded |-> 0]

Min2(a, b) == IF a < b THEN a ELSE b

Goto(pc) == task' = [task EXCEPT !.pc = pc]

Init ==
  /\ sendCb = Send!Cleared
  /\ recvCb = Recv!Cleared
  /\ txeie = FALSE
  /\ dr = <<>>
  /\ rdr = <<>>
  /\ wire = <<>>
  /\ arrived = 0
  /\ accepted = 0
  /\ delivered = <<>>
  /\ task = Idle

-----------------------------------------------------------------------------
(* STREAM_IN_FromBuffer and dataIn.                                        *)

StartSend(n) ==
  /\ task.pc = "Idle"
  /\ accepted + n <= MaxSent
  /\ task' = [Idle EXCEPT !.pc = "DisableTxe", !.octets = n]
  /\ UNCHANGED <<sending, receiving>>

(* Mutant of DisableTxe: the interrupt stays on while the buffer is filled.*)
LeaveTxe ==
  /\ task.pc = "DisableTxe"
  /\ task' = [task EXCEPT !.pc = "Store", !.got = 0]
  /\ UNCHANGED <<sending, receiving>>

DisableTxe ==
  /\ task.pc = "DisableTxe"
  /\ txeie' = FALSE
  /\ task' = [task EXCEPT !.pc = "Store", !.got = 0]
  /\ UNCHANGED <<sendCb, dr, wire, accepted, receiving>>

(* Mutant of Remaining: what earlier calls of dataIn took is forgotten.    *)
RemainingOfCall == task.octets - task.got

(* The octets that dataIn has yet to put in the buffer.                    *)
Remaining == task.octets - task.count - task.got

NextSent(n) == [k \in 1 .. n |-> accepted + task.count + task.got + k]

(* checkAvailable, and the loop of CYCLIC_IN_FromBuffer.                   *)
Store ==
  /\ task.pc = "Store"
  /\ LET available == Min2(Remaining, Send!Available(sendCb))
         filled    == Send!InFrom(sendCb, NextSent(available))
     IN  IF available = 0
         THEN Goto("EnableTxe") /\ UNCHANGED sendCb
         ELSE /\ sendCb' = [filled EXCEPT !.elements = sendCb.elements]
              /\ task' = [task EXCEPT !.pc = "LoadSend", !.step = available]
  /\ UNCHANGED <<txeie, dr, wire, accepted, receiving>>

(* inFrom_End: elements is read...                                         *)
LoadSend ==
  /\ task.pc = "LoadSend"
  /\ task' = [task EXCEPT !.pc = "CountSend", !.loaded = sendCb.elements]
  /\ UNCHANGED <<sending, receiving>>

(* ... and written.                                                        *)
CountSend ==
  /\ task.pc = "CountSend"
  /\ sendCb' = [sendCb EXCEPT !.elements = Send!ElementsAfter(
                  [sendCb EXCEPT !.elements = task.loaded], task.step)]
  /\ task' = [task EXCEPT !.pc = "TrySend", !.got = @ + task.step]
  /\ UNCHANGED <<txeie, dr, wire, accepted, receiving>>

(* Mutants of AfterSend: the interrupt is never turned off, or always is.  *)
AfterSendTxeOn ==
  IF dr = <<>> /\ txeie /\ sendCb.elements > 0
  THEN [dr |-> Send!PeekedFrom(sendCb, 0, 1),
        sendCb |-> Send!OutTo(sendCb, 1), txeie |-> TRUE]
  ELSE [dr |-> dr, sendCb |-> sendCb, txeie |-> txeie]

AfterSendTxeOff ==
  IF dr = <<>> /\ txeie /\ sendCb.elements > 0
  THEN [dr |-> Send!PeekedFrom(sendCb, 0, 1),
        sendCb |-> Send!OutTo(sendCb, 1), txeie |-> FALSE]
  ELSE [dr |-> dr, sendCb |-> sendCb, txeie |-> txeie]

(* uartIrqSend, with TXE set when the register is empty.  It turns the     *)
(* interrupt off once it has taken the last octet.                         *)
AfterSend ==
  IF dr = <<>> /\ txeie /\ sendCb.elements > 0
  THEN [dr |-> Send!PeekedFrom(sendCb, 0, 1),
        sendCb |-> Send!OutTo(sendCb, 1),
        txeie |-> sendCb.elements > 1]
  ELSE [dr |-> dr, sendCb |-> sendCb, txeie |-> txeie]

UartIrqSend ==
  /\ dr' = AfterSend.dr
  /\ sendCb' = AfterSend.sendCb
  /\ txeie' = AfterSend.txeie

(* dataIn after its first CYCLIC_IN_FromBuffer: it calls uartIrqSend, and  *)
(* stores more octets if that made room.  TXEIE is off: it never does.     *)
TrySend ==
  /\ task.pc = "TrySend"
  /\ UartIrqSend
  /\ Goto(IF task.got = task.step /\ Remaining > 0 /\ Send!Available(sendCb') > 0
          THEN "Store" ELSE "EnableTxe")
  /\ UNCHANGED <<wire, accepted, receiving>>

(* Mutant of EnableTxe: only when dataIn stored something.                 *)
EnableTxeIfStored ==
  /\ task.pc = "EnableTxe"
  /\ txeie' = (txeie \/ task.got > 0)
  /\ Goto("Sent")
  /\ UNCHANGED <<sendCb, dr, wire, accepted, receiving>>

EnableTxe ==
  /\ task.pc = "EnableTxe"
  /\ txeie' = TRUE
  /\ Goto("Sent")
  /\ UNCHANGED <<sendCb, dr, wire, accepted, receiving>>

(* The rest of the loop of STREAM_IN_FromBuffer; timedout is whether       *)
(* TICKS_Now() went past Timeout.                                          *)
Sent(timedout) ==
  /\ task.pc = "Sent"
  /\ LET count == task.count + task.got
     IN  IF count < task.octets /\ ~timedout
         THEN /\ task' = [task EXCEPT !.pc = "DisableTxe", !.count = count,
                                      !.got = 0]
              /\ UNCHANGED accepted
         ELSE /\ task' = Idle
              /\ accepted' = accepted + count
  /\ UNCHANGED <<sendCb, txeie, dr, wire, receiving>>

-----------------------------------------------------------------------------
(* STREAM_OUT_ToBuffer and dataOut.                                        *)

StartReceive(n) ==
  /\ task.pc = "Idle"
  /\ task' = [Idle EXCEPT !.pc = "CheckContents", !.octets = n]
  /\ UNCHANGED <<sending, receiving>>

(* Mutant of CheckContents: the caller's octets are not limited.           *)
CheckNoContents ==
  /\ task.pc = "CheckContents"
  /\ task' = [task EXCEPT !.pc = "LoadRecv",
                          !.step = task.octets - task.count, !.got = 0]
  /\ UNCHANGED <<sending, receiving>>

CheckContents ==
  /\ task.pc = "CheckContents"
  /\ LET contents == Min2(task.octets - task.count, recvCb.elements)
     IN  task' = [task EXCEPT !.pc = IF contents = 0 THEN "Received"
                                                     ELSE "LoadRecv",
                              !.step = contents, !.got = 0]
  /\ UNCHANGED <<sending, receiving>>

(* CYCLIC_OUT_ToBuffer: `elements -= Count' reads elements...              *)
LoadRecv ==
  /\ task.pc = "LoadRecv"
  /\ task' = [task EXCEPT !.pc = "CountRecv", !.loaded = recvCb.elements]
  /\ UNCHANGED <<sending, receiving>>

(* ... and writes it.                                                      *)
CountRecv ==
  /\ task.pc = "CountRecv"
  /\ recvCb' = [recvCb EXCEPT !.elements = task.loaded - task.step]
  /\ Goto("Copy")
  /\ UNCHANGED <<rdr, arrived, delivered, sending>>

(* One turn of its loop, for one octet.                                    *)
Copy ==
  /\ task.pc = "Copy"
  /\ delivered' = delivered \o Recv!PeekedFrom(recvCb, 0, 1)
  /\ recvCb' = [recvCb EXCEPT !.outIndex = Recv!OutTo(recvCb, 1).outIndex]
  /\ task' = [task EXCEPT !.pc = IF task.got + 1 = task.step THEN "Received"
                                                             ELSE "Copy",
                          !.got = @ + 1]
  /\ UNCHANGED <<rdr, arrived, sending>>

(* The rest of the loop of STREAM_OUT_ToBuffer.                            *)
Received(timedout) ==
  /\ task.pc = "Received"
  /\ LET count == task.count + task.got
     IN  task' = IF count < task.octets /\ ~timedout
                 THEN [task EXCEPT !.pc = "CheckContents", !.count = count,
                                   !.got = 0]
                 ELSE Idle
  /\ UNCHANGED <<sending, receiving>>

-----------------------------------------------------------------------------
(* uartIrqRecv.                                                            *)
UartIrqRecv ==
  /\ recvCb' = IF rdr = <<>> THEN recvCb ELSE Recv!InFrom(recvCb, rdr)
  /\ rdr' = <<>>

(* uartIrq: the handler serves both lines.                                 *)
UartIrq ==
  /\ (dr = <<>> /\ txeie) \/ rdr # <<>>
  /\ UartIrqSend
  /\ UartIrqRecv
  /\ UNCHANGED <<wire, arrived, accepted, delivered, task>>

(* The UART shifts an octet out, and TXE is set again.                     *)
Transmit ==
  /\ dr # <<>>
  /\ wire' = wire \o dr
  /\ dr' = <<>>
  /\ UNCHANGED <<sendCb, txeie, accepted, task, receiving>>

(***************************************************************************)
(* An octet arrives.  The handler is in time for every one of them, and the*)
(* other end waits for the task to have consumed all but RecvCapacity - 1  *)
(* of the octets it sent: recvCb never has to overflow.                    *)
(***************************************************************************)
Arrive ==
  /\ rdr = <<>>
  /\ arrived < MaxArrived
  /\ arrived - Len(delivered) < RecvCapacity
  /\ rdr' = <<arrived + 1>>
  /\ arrived' = arrived + 1
  /\ UNCHANGED <<recvCb, delivered, task, sending>>

Task ==
  \/ DisableTxe \/ Store \/ LoadSend \/ CountSend \/ TrySend \/ EnableTxe
  \/ CheckContents \/ LoadRecv \/ CountRecv \/ Copy
  \/ \E timedout \in BOOLEAN : Sent(timedout) \/ Received(timedout)

Next ==
  \/ \E n \in 1 .. MaxTransfer : StartSend(n) \/ StartReceive(n)
  \/ Task
  \/ UartIrq
  \/ Transmit
  \/ Arrive

(***************************************************************************)
(* The processor runs the task, and the UART shifts octets out on its own. *)
(* An interrupt that is enabled over and over is taken: a pending one is   *)
(* served before the instruction after the one that enabled it, even if    *)
(* dataIn, called in a loop, is about to disable it again.                 *)
(***************************************************************************)
Fairness == WF_vars(Task) /\ SF_vars(UartIrq) /\ WF_vars(Transmit)

Spec == Init /\ [][Next]_vars /\ Fairness

-----------------------------------------------------------------------------
(* The type invariant.                                                     *)
TypeOK ==
  /\ sendCb \in Send!Cyclic
  /\ recvCb \in Recv!Cyclic
  /\ txeie \in BOOLEAN
  /\ dr \in Seq(Octets) /\ Len(dr) <= 1
  /\ rdr \in Seq(Octets) /\ Len(rdr) <= 1
  /\ wire \in Seq(Octets)
  /\ arrived \in 0 .. MaxArrived
  /\ accepted \in 0 .. MaxSent
  /\ delivered \in Seq(Octets)
  /\ task \in [pc : {"Idle", "DisableTxe", "Store", "LoadSend", "CountSend",
                     "TrySend", "EnableTxe", "Sent", "CheckContents",
                     "LoadRecv", "CountRecv", "Copy", "Received"},
               octets : 0 .. MaxTransfer, count : 0 .. MaxTransfer,
               got : 0 .. MaxTransfer, step : 0 .. MaxTransfer,
               loaded : 0 .. SendCapacity + RecvCapacity]

InSequence(s) == \A k \in 1 .. Len(s) : s[k] = k

(***************************************************************************)
(* Octets are transmitted in order, none is lost and none repeated, with   *)
(* the handler taking octets from the buffer the task is filling; and what *)
(* STREAM_IN_FromBuffer reports is what was taken, also when it timed out. *)
(***************************************************************************)
SentInOrder ==
  LET sent == wire \o dr \o Send!Contents(sendCb)
  IN  InSequence(sent) /\ (task.pc = "Idle" => Len(sent) = accepted)

(***************************************************************************)
(* Octets are delivered in order, none is lost on the way to those that    *)
(* were delivered and none repeated, with the handler putting octets in the*)
(* buffer the task is consuming from.                                      *)
(***************************************************************************)
DeliveredInOrder == InSequence(delivered)

(***************************************************************************)
(* The transmit interrupt is never left on with nothing to transmit: the   *)
(* handler would be entered over and over with no octet to clear TXE with. *)
(***************************************************************************)
NoIdleInterrupt == txeie => sendCb.elements > 0

(* Every octet that was reported as sent is transmitted.                   *)
EverythingSent ==
  \A k \in 1 .. MaxSent : accepted >= k ~> Len(wire) >= k

(* A transfer that does not fit in the buffer is over some day, with no    *)
(* timeout to end it: the handler always gets to make room.                *)
SendEnds == task.pc = "DisableTxe" ~> task.pc = "Idle"

(***************************************************************************)
(* dataOut: "More bytes might be inserted while copying data to Buffer."   *)
(* (stream_uart.c:283).  If so, they are counted: between two transfers    *)
(* every octet that the handler took from the UART was delivered or can be.*)
(***************************************************************************)
InsertedAreCounted ==
  task.pc = "Idle" =>
    Len(delivered) + recvCb.elements = arrived - Len(rdr)

=============================================================================

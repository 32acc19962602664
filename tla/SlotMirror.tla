----------------------------- MODULE SlotMirror -----------------------------
(***************************************************************************)
(* What a boot with a FAT volume and a cache volume promises: while the    *)
(* check runs, the cache mirrors the slot directories in order, one more   *)
(* at a time, and what was mirrored stays mirrored until the power goes.   *)
(* Slots change only while no check has begun, and a check may stop early. *)
(***************************************************************************)
EXTENDS Naturals, Sequences

CONSTANTS
  File,           \* slot files
  NoFile,         \* a slot with no file
  MaxSlots        \* number of slot directories

VARIABLES
  slots,          \* the file in every slot directory
  phase,          \* "idle", "checking" or "ready"
  mirrored        \* the files of elements 0, 1, 2... that are known good

vars == <<slots, phase, mirrored>>

Slot == 0 .. MaxSlots - 1

Init ==
  /\ slots \in [Slot -> File \cup {NoFile}]
  /\ phase = "idle"
  /\ mirrored = <<>>

Edit ==
  /\ phase = "idle"
  /\ slots' \in [Slot -> File \cup {NoFile}]
  /\ UNCHANGED <<phase, mirrored>>

Begin ==
  /\ phase = "idle"
  /\ phase' = "checking"
  /\ UNCHANGED <<slots, mirrored>>

(* The next slot, and no other, is now known to be in the cache.           *)
Mirror ==
  /\ phase = "checking"
  /\ Len(mirrored) \in Slot
  /\ slots[Len(mirrored)] # NoFile
  /\ mirrored' = Append(mirrored, slots[Len(mirrored)])
  /\ UNCHANGED <<slots, phase>>

Finish ==
  /\ phase = "checking"
  /\ phase' = "ready"
  /\ UNCHANGED <<slots, mirrored>>

PowerOff ==
  /\ phase' = "idle"
  /\ mirrored' = <<>>
  /\ UNCHANGED slots

Next == Edit \/ Begin \/ Mirror \/ Finish \/ PowerOff

Spec == Init /\ [][Next]_vars

=============================================================================

---------------------------- MODULE LinearVolume ----------------------------
(***************************************************************************)
(* The raw partition behind STORAGE_Role_LinearCache and the two calls the *)
(* framework reaches it through, STORAGE_LinearRead and                    *)
(* STORAGE_LinearWrite (source/core/manager/storage.c).  Sectors are       *)
(* numbered from the start of the partition; what a sector holds is left   *)
(* to the module that extends this one.                                    *)
(*                                                                         *)
(* Both calls repeat a media operation that fails, up to the caller's      *)
(* number of retries.  The model keeps the outcome of the whole call: a    *)
(* media operation that fails stands for one that fails every time it is   *)
(* tried.                                                                  *)
(***************************************************************************)
EXTENDS Integers

CONSTANTS
  LastSector,     \* Vol->info.sectorEnd - Vol->info.sectorBegin
  Junk,           \* what an unwritten or a torn sector holds
  ReadsMayFail,   \* BOOLEAN: may the media fail to read a sector?
  WritesMayFail   \* BOOLEAN: may the media fail to write a sector?

ASSUME VolumeAssumption ==
  /\ LastSector \in Nat
  /\ ReadsMayFail \in BOOLEAN
  /\ WritesMayFail \in BOOLEAN

VARIABLE
  disk            \* what every sector of the partition holds

Sector == 0 .. LastSector

(* checkAccess: anything past the end of the partition is asserted.        *)
InBounds(s) == s \in Sector

(***************************************************************************)
(* The outcomes of reading sector s: the octets the caller's buffer ends   *)
(* up with, whether the call returns RAWSTOR_Status_Result_Ok, and whether *)
(* the media gave the sector.  A read the media refuses leaves one of the  *)
(* contents in `left' in the buffer.  The loop never assigns the result of *)
(* drvRead to the variable it tests and returns (storage.c:415-422), which *)
(* is a static that stays at Ok: the loop runs once and the call reports   *)
(* success in either case.                                                 *)
(***************************************************************************)
LinearRead(s, left) ==
  [data : {disk[s]}, ok : {TRUE}, given : {TRUE}]
    \cup (IF ReadsMayFail
          THEN [data : left, ok : {TRUE}, given : {FALSE}]
          ELSE {})

(***************************************************************************)
(* The outcomes of writing v to sector s: the media afterwards and whether *)
(* the call returns Ok.  A write that failed may have left the old         *)
(* contents, the new ones, or neither.                                     *)
(***************************************************************************)
LinearWrite(s, v) ==
  [disk : {[disk EXCEPT ![s] = v]}, ok : {TRUE}]
    \cup (IF WritesMayFail
          THEN [disk : {[disk EXCEPT ![s] = c] : c \in {disk[s], v, Junk}},
                ok : {FALSE}]
          ELSE {})

=============================================================================

---------------------------- MODULE StorageCache ----------------------------
(***************************************************************************)
(* The linear cache of embedul.ar: at every boot the files found in the    *)
(* numbered slot directories of a FAT volume are mirrored, sector by       *)
(* sector, into a raw partition, from which the application then reads     *)
(* them as "cached elements" (source/core/manager/storage/cache.c).        *)
(*                                                                         *)
(* The partition holds, from sector 0 upwards, a head and the data of      *)
(* elements 0, 1, 2...; and, from the last sector downwards, one info      *)
(* sector per element.  The check that runs at boot is a state machine:    *)
(* checkCache (source/core/device/board/run.c) calls                       *)
(* STORAGE_CACHE_ProcessNextTask until its stage is Done.  There is one    *)
(* action per stage below; a stage that loops over data sectors takes one  *)
(* step per sector and a last one for what follows the loop, because power *)
(* may be lost between any two sector writes.                              *)
(*                                                                         *)
(* CRC-32C values are taken to be collision free, so a checksum is modelled*)
(* by what it was computed from.  Two different files do not share the     *)
(* contents of a sector, for the same reason; a file copied to two slots   *)
(* does.                                                                   *)
(***************************************************************************)
EXTENDS LinearVolume

CONSTANTS
  File,           \* slot files: name, date, time, size and contents
  NoFile,         \* a slot directory that does not exist, or is empty
  FileSectors,    \* [File -> Nat], 512-octet sectors a file takes
  Archived,       \* the files whose AM_ARC attribute is set
  MaxSlots,       \* bound: slot directories 0 .. MaxSlots - 1
  SlotFiles,      \* what each slot directory may hold, NoFile included
  Version,        \* framework and application versions in the head
  Boots,          \* the ways a board may be started, see PowerOn
  FilesMayFail,   \* BOOLEAN: may f_opendir, f_open or f_read fail?
  DivByZeroTraps  \* BOOLEAN: does x / 0 stop this build's processor?

ASSUME CacheAssumption ==
  /\ Junk = [kind |-> "junk"]
  /\ NoFile \notin File
  /\ FileSectors \in [File -> Nat]
  /\ Archived \subseteq File
  /\ MaxSlots \in Nat
  /\ MaxSlots < LastSector
  /\ SlotFiles \in [0 .. MaxSlots - 1 -> SUBSET (File \cup {NoFile})]
  /\ Boots \subseteq [roles : SUBSET {"FatFsDrive0", "LinearCache"},
                      skip : BOOLEAN]
  /\ FilesMayFail \in BOOLEAN
  /\ DivByZeroTraps \in BOOLEAN

VARIABLES
  slots,          \* the slot directories of the FAT volume
  version,        \* the firmware in the board's flash memory
  board,          \* "Off", "On" or "Halted" (by a failed assertion)
  volumes,        \* the storage roles registered in this boot
  cs,             \* struct STORAGE_CACHE_State
  published       \* s_s->cachedElementsCount, what the application sees

vars == <<disk, slots, version, board, volumes, cs, published>>

Slot == 0 .. MaxSlots - 1

Role == {"FatFsDrive0", "LinearCache"}

Stage == {"Start", "ReadSector0", "BeginIteration", "ReadSlot",
          "SlotToElementInfo", "SlotToElementData", "CheckElementInfo",
          "CheckElementData", "NextIteration", "EndIteration",
          "WriteSector0", "Done"}

-----------------------------------------------------------------------------
(***************************************************************************)
(* What a sector holds.  Only a head, a sealed info sector (one with both  *)
(* of its CRCs filled in) and a mangled one (octets of something else that *)
(* were sealed as if they were an info sector) pass checkSectorCrc32.      *)
(***************************************************************************)
HeadSector(v, n) == [kind |-> "head", version |-> v, count |-> n]

Info(e, f, b, z, crc) ==
  [kind |-> "info", slot |-> e, file |-> f, begin |-> b, end |-> z,
   sealed |-> crc]

Data(f, k) == [kind |-> "data", file |-> f, part |-> k]

Mangled == [kind |-> "mangled"]

Content ==
  {Junk, Mangled}
    \cup [kind : {"head"}, version : Version, count : 0 .. MaxSlots]
    \cup [kind : {"info"}, slot : Slot, file : File, begin : Nat, end : Nat,
          sealed : BOOLEAN]
    \cup [kind : {"data"}, file : File, part : Nat]

ChecksumOk(c) ==
  \/ c.kind \in {"head", "mangled"}
  \/ c.kind = "info" /\ c.sealed

(* getElementInfoSector: info sectors go backwards from the volume's end.  *)
InfoSector(e) == LastSector - e

(* The 512 octets on the stack that a failed read does not fill in.        *)
Stale == {disk[s] : s \in Sector} \cup {Junk}

(* Bound: the sectorBegin and sectorEnd that octets which are not an info  *)
(* sector are read as: no sector, one sector, past the end of the volume.  *)
GarbageRange == {<<1, 0>>, <<1, 1>>, <<1, LastSector + 1>>}

-----------------------------------------------------------------------------
(* STORAGE_CACHE_Init.  skipElementDataCheck is what the user answered to  *)
(* the countdown of checkCache; unread is a history of this model, and says*)
(* whether the media did not give a data sector of the element.            *)
FreshState(skip) ==
  [skipElementDataCheck |-> skip, hasSlots |-> FALSE, nextTask |-> "Start",
   elementCount |-> 0, element |-> 0, writeSector0 |-> FALSE, fno |-> NoFile,
   sectorBegin |-> 0, sectorEnd |-> 0, sectorCurrent |-> 0,
   stored |-> NoFile, crcOk |-> TRUE, unread |-> FALSE]

Init ==
  /\ disk = [s \in Sector |-> Junk]
  /\ slots \in [Slot -> File \cup {NoFile}]
  /\ \A e \in Slot : slots[e] \in SlotFiles[e]
  /\ version \in Version
  /\ board = "Off"
  /\ volumes = {}
  /\ cs = FreshState(FALSE)
  /\ published = 0

Goto(stage) == cs' = [cs EXCEPT !.nextTask = stage]

At(stage) == board = "On" /\ cs.nextTask = stage

(* A failed assertion: the board logs it and never returns.                *)
Halt ==
  /\ board' = "Halted"
  /\ UNCHANGED <<disk, cs, published>>

environment == <<slots, version, volumes>>

(* start.  A boot with no cache volume has nothing to check.               *)
Start ==
  /\ At("Start")
  /\ published' = 0
  /\ cs' = [cs EXCEPT
       !.hasSlots = "FatFsDrive0" \in volumes,
       !.nextTask = IF "LinearCache" \in volumes THEN "ReadSector0"
                                                 ELSE "Done"]
  /\ UNCHANGED <<disk, board, environment>>

(* readSector0.  The count is trusted, and published, when the checksum of *)
(* the head is right, whatever the signature and the versions are.         *)
ReadSector0 ==
  /\ At("ReadSector0")
  /\ \E r \in LinearRead(0, {Junk}) :
       LET isHead == r.data.kind = "head"
           count  == IF isHead THEN r.data.count ELSE 0
           checks == isHead /\ r.data.version = version
       IN  IF ~r.ok
           THEN Goto("Done") /\ UNCHANGED published
           ELSE /\ published' = count
                /\ cs' = [cs EXCEPT
                     !.elementCount = count,
                     !.writeSector0 = cs.hasSlots /\ ~checks,
                     !.nextTask = IF ~cs.hasSlots /\ count = 0
                                  THEN "Done" ELSE "BeginIteration"]
  /\ UNCHANGED <<disk, board, environment>>

(* beginIteration.                                                         *)
BeginIteration ==
  /\ At("BeginIteration")
  /\ Goto(IF cs.hasSlots THEN "ReadSlot" ELSE "CheckElementInfo")
  /\ UNCHANGED <<disk, board, published, environment>>

(* The file found in a slot directory, if there is one.                    *)
SlotFile(e) == IF e \in Slot THEN slots[e] ELSE NoFile

(* readSlot and getFilesystemSlotInfo.  A directory that cannot be opened  *)
(* is taken for one that does not exist: it is the end of the slots.       *)
ReadSlot ==
  /\ At("ReadSlot")
  /\ \/ /\ SlotFile(cs.element) # NoFile
        /\ cs' = [cs EXCEPT
             !.fno = SlotFile(cs.element),
             !.nextTask = IF cs.element < cs.elementCount
                          THEN "CheckElementInfo" ELSE "SlotToElementInfo"]
     \/ /\ FilesMayFail \/ SlotFile(cs.element) = NoFile
        /\ Goto("EndIteration")
  /\ UNCHANGED <<disk, board, published, environment>>

(* fno.fsize >> 9, rounded up; fno is all zeroes until a slot is read.     *)
SectorsOf(f) == IF f = NoFile THEN 0 ELSE FileSectors[f]

(* initProgressCounter divides by the number of sectors of the element.    *)
ProgressTraps(count) == DivByZeroTraps /\ count = 0

(* The element's data is placed after the data of the previous element.    *)
Placed ==
  [cs EXCEPT
    !.sectorBegin   = cs.sectorEnd + 1,
    !.sectorEnd     = cs.sectorEnd + SectorsOf(cs.fno),
    !.sectorCurrent = cs.sectorEnd + 1]

(***************************************************************************)
(* slotToElementInfo.  The info sector is written without its CRCs: until  *)
(* SealElement fills them in it does not pass ChecksumOk.  With no FAT     *)
(* volume the file path is empty and f_open fails.                         *)
(***************************************************************************)
SlotToElementInfo ==
  /\ At("SlotToElementInfo")
  /\ IF ProgressTraps(SectorsOf(cs.fno))
     THEN Halt
     ELSE /\ \/ /\ cs.hasSlots
                /\ \E w \in LinearWrite(InfoSector(cs.element),
                              Info(cs.element, cs.fno, Placed.sectorBegin,
                                   Placed.sectorEnd, FALSE)) :
                     /\ disk' = w.disk
                     /\ cs' = [Placed EXCEPT
                          !.nextTask = IF w.ok THEN "SlotToElementData"
                                               ELSE "EndIteration"]
             \/ /\ FilesMayFail \/ ~cs.hasSlots
                /\ cs' = [Placed EXCEPT !.nextTask = "EndIteration"]
                /\ UNCHANGED disk
          /\ UNCHANGED <<board, published>>
  /\ UNCHANGED environment

(* Mutant of SectorsLeft: the loops stop before the last sector.           *)
SectorsLeftButLast == cs.sectorCurrent < cs.sectorEnd

(* The condition of the loops over the data sectors of an element.         *)
SectorsLeft == cs.sectorCurrent <= cs.sectorEnd

(* slotToElementData, one turn of its loop.                                *)
SlotToElementData ==
  /\ At("SlotToElementData")
  /\ SectorsLeft
  /\ \/ /\ InBounds(cs.sectorCurrent)
        /\ \E w \in LinearWrite(cs.sectorCurrent,
                      Data(cs.fno, cs.sectorCurrent - cs.sectorBegin + 1)) :
             /\ disk' = w.disk
             /\ cs' = IF w.ok
                      THEN [cs EXCEPT !.sectorCurrent = @ + 1]
                      ELSE [cs EXCEPT !.nextTask = "EndIteration"]
        /\ UNCHANGED <<board, published>>
     \/ ~InBounds(cs.sectorCurrent) /\ Halt
     \/ FilesMayFail /\ Goto("EndIteration") /\ UNCHANGED <<disk, board, published>>
  /\ UNCHANGED environment

(* The sector just read back, with both CRCs filled in.  Octets that are   *)
(* not an info sector are sealed all the same, and then pass ChecksumOk if *)
(* there were zeroes where the CRC of the sector goes.                     *)
Seals(c) ==
  IF c.kind = "info" THEN {[c EXCEPT !.sealed = TRUE]} ELSE {Mangled, Junk}

(***************************************************************************)
(* slotToElementData, once all the data is written.  The buffer the info   *)
(* sector is read into still holds the last data sector.                   *)
(***************************************************************************)
SealElement ==
  /\ At("SlotToElementData")
  /\ ~SectorsLeft
  /\ LET lastData == Data(cs.fno, cs.sectorEnd - cs.sectorBegin + 1)
         sector   == InfoSector(cs.element)
     IN  \E r \in LinearRead(sector, {lastData, Junk}) :
           IF ~r.ok
           THEN Goto("EndIteration") /\ UNCHANGED disk
           ELSE \E c \in Seals(r.data) : \E w \in LinearWrite(sector, c) :
                  /\ disk' = w.disk
                  /\ Goto(IF w.ok THEN "NextIteration" ELSE "EndIteration")
  /\ UNCHANGED <<board, published, environment>>

(* The fields of the info sector that checkElementInfo takes over.         *)
Loaded(begin, end, stored) ==
  [cs EXCEPT !.sectorBegin = begin, !.sectorEnd = end,
             !.sectorCurrent = begin, !.stored = stored, !.crcOk = TRUE,
             !.unread = FALSE]

(* Mutant of MetricsMatch: date, time and size are not compared.           *)
PathMatches(c) ==
  c.kind = "info" /\ c.slot = cs.element /\ cs.fno \in Archived

(* FileMetricsMatch: same path, date, time and size, and AM_ARC set.       *)
MetricsMatch(c) ==
  c.kind = "info" /\ c.slot = cs.element /\ c.file = cs.fno /\ cs.fno \in Archived

(* Mutant of UseElementInfo: sectorEnd keeps the value of the info sector  *)
(* that is about to be rewritten.                                          *)
UseStaleElementInfo(c, begin, end, stored) ==
  IF ProgressTraps(end - begin + 1)
  THEN Halt
  ELSE /\ cs' = IF cs.hasSlots /\ ~MetricsMatch(c)
                THEN [Loaded(begin, end, stored) EXCEPT
                       !.writeSector0 = TRUE, !.nextTask = "SlotToElementInfo"]
                ELSE [Loaded(begin, end, stored) EXCEPT
                       !.nextTask = IF cs.skipElementDataCheck
                                    THEN "NextIteration"
                                    ELSE "CheckElementData"]
       /\ UNCHANGED <<disk, board, published>>

(* checkElementInfo, once a sector with a good checksum has been read.     *)
UseElementInfo(c, begin, end, stored) ==
  IF ProgressTraps(end - begin + 1)
  THEN Halt
  ELSE /\ cs' = IF cs.hasSlots /\ ~MetricsMatch(c)
                THEN [Loaded(begin, end, stored) EXCEPT
                       !.sectorEnd = cs.sectorEnd, !.writeSector0 = TRUE,
                       !.nextTask = "SlotToElementInfo"]
                ELSE [Loaded(begin, end, stored) EXCEPT
                       !.nextTask = IF cs.skipElementDataCheck
                                    THEN "NextIteration"
                                    ELSE "CheckElementData"]
       /\ UNCHANGED <<disk, board, published>>

(* checkElementInfo.  A bad checksum asks for a re-write of the element.   *)
CheckElementInfo ==
  /\ At("CheckElementInfo")
  /\ \E r \in LinearRead(InfoSector(cs.element), Stale) :
       \/ /\ r.ok /\ ChecksumOk(r.data) /\ r.data.kind = "info"
          /\ UseElementInfo(r.data, r.data.begin, r.data.end,
                            r.data.file)
       \/ /\ r.ok /\ ChecksumOk(r.data) /\ r.data.kind # "info"
          /\ \E range \in GarbageRange :
               UseElementInfo(r.data, range[1], range[2], NoFile)
       \/ /\ ~(r.ok /\ ChecksumOk(r.data))
          /\ Goto(IF r.ok THEN "SlotToElementInfo" ELSE "EndIteration")
          /\ UNCHANGED <<disk, board, published>>
  /\ UNCHANGED environment

(* What storedCrc32 was computed from: `stored' is the file whose CRC is   *)
(* in the info sector, NoFile when there is no such file.                  *)
StoredPart(k) ==
  IF cs.stored = NoFile THEN Junk ELSE Data(cs.stored, k)

(* checkElementData, one turn of its loop.                                 *)
CheckElementData ==
  /\ At("CheckElementData")
  /\ SectorsLeft
  /\ IF ~InBounds(cs.sectorCurrent)
     THEN Halt
     ELSE /\ \E r \in LinearRead(cs.sectorCurrent, Stale) :
               cs' = IF r.ok
                     THEN [cs EXCEPT
                            !.sectorCurrent = @ + 1,
                            !.unread = @ \/ ~r.given,
                            !.crcOk = @ /\ r.data = StoredPart(
                                        cs.sectorCurrent - cs.sectorBegin + 1)]
                     ELSE [cs EXCEPT !.nextTask = "EndIteration"]
          /\ UNCHANGED <<disk, board, published>>
  /\ UNCHANGED environment

(* Mutant of CheckElementCrc: the CRC of the data is not compared.         *)
CheckNoElementCrc ==
  /\ At("CheckElementData")
  /\ ~SectorsLeft
  /\ Goto(IF cs.stored # NoFile THEN "NextIteration" ELSE "EndIteration")
  /\ UNCHANGED <<disk, board, published, environment>>

(* Mutant of CheckElementCrc: an element that is not right is read again.  *)
CheckElementCrcAgain ==
  /\ At("CheckElementData")
  /\ ~SectorsLeft
  /\ Goto(IF cs.crcOk /\ cs.stored # NoFile
          THEN "NextIteration" ELSE "CheckElementInfo")
  /\ UNCHANGED <<disk, board, published, environment>>

(* checkElementData, once all the data is read: the CRC of the element.    *)
CheckElementCrc ==
  /\ At("CheckElementData")
  /\ ~SectorsLeft
  /\ Goto(IF /\ cs.crcOk
             /\ cs.stored # NoFile
          THEN "NextIteration" ELSE "EndIteration")
  /\ UNCHANGED <<disk, board, published, environment>>

(* nextIteration.                                                          *)
MoreElements == cs.hasSlots \/ cs.element + 2 < cs.elementCount

NextIteration ==
  /\ At("NextIteration")
  /\ cs' = [cs EXCEPT
       !.element = @ + 1,
       !.nextTask = IF MoreElements THEN "BeginIteration" ELSE "EndIteration"]
  /\ UNCHANGED <<disk, board, published, environment>>

(* endIteration.                                                           *)
EndIteration ==
  /\ At("EndIteration")
  /\ Goto(IF cs.writeSector0 THEN "WriteSector0" ELSE "Done")
  /\ UNCHANGED <<disk, board, published, environment>>

(* Mutant of WriteSector0: one element too many.                           *)
WriteLastElement ==
  /\ At("WriteSector0")
  /\ \E w \in LinearWrite(0, HeadSector(version, cs.element + 1)) : disk' = w.disk
  /\ published' = cs.element
  /\ Goto("Done")
  /\ UNCHANGED <<board, environment>>

(* writeSector0.  The count is published whether or not it was written.    *)
WriteSector0 ==
  /\ At("WriteSector0")
  /\ \E w \in LinearWrite(0, HeadSector(version, cs.element)) : disk' = w.disk
  /\ published' = cs.element
  /\ Goto("Done")
  /\ UNCHANGED <<board, environment>>

ProcessNextTask ==
  \/ Start \/ ReadSector0 \/ BeginIteration \/ ReadSlot
  \/ SlotToElementInfo \/ SlotToElementData \/ SealElement
  \/ CheckElementInfo \/ CheckElementData \/ CheckElementCrc
  \/ NextIteration \/ EndIteration \/ WriteSector0

-----------------------------------------------------------------------------
(* What the application reads once the check is done.                      *)

(* STORAGE_CACHE_ElementInfo, of an element below the published count.  The*)
(* checksum of the sector is not looked at.                                *)
ElementInfo(e) ==
  UNION {IF r.data.kind = "info"
         THEN {[filepath |-> r.data.file, sectorBegin |-> r.data.begin,
                sectorCount |-> r.data.end - r.data.begin + 1]}
         ELSE {[filepath |-> NoFile, sectorBegin |-> range[1],
                sectorCount |-> range[2] - range[1] + 1] : range \in GarbageRange}
         : r \in LinearRead(InfoSector(e), Stale)}

(* Mutant of SectorsRead: sectorDelta is not taken from what is left.      *)
SectorsReadPastEnd(ei, delta, count) ==
  {ei.sectorBegin + delta + k :
     k \in 0 .. (IF count = 0 THEN ei.sectorCount ELSE count) - 1}

(* STORAGE_CACHE_ElementData: the sectors it reads.  No count stands for   *)
(* all of them, from delta on.                                             *)
SectorsRead(ei, delta, count) ==
  {ei.sectorBegin + delta + k :
     k \in 0 .. (IF count = 0 THEN ei.sectorCount - delta ELSE count) - 1}

-----------------------------------------------------------------------------
(* The world around the board.                                             *)

(* STORAGE_SetDevice and checkCache: the roles that could be registered,   *)
(* and a check that starts from STORAGE_CACHE_Init.                        *)
PowerOn(boot) ==
  /\ board = "Off"
  /\ board' = "On"
  /\ volumes' = boot.roles
  /\ cs' = FreshState(boot.skip)
  /\ published' = 0
  /\ UNCHANGED <<disk, slots, version>>

(* The sectors a write may be under way to.                                *)
InFlight ==
  IF board # "On" THEN {} ELSE
  CASE cs.nextTask = "SlotToElementInfo" /\ cs.hasSlots ->
         {InfoSector(cs.element)}
    [] cs.nextTask = "SlotToElementData" ->
         IF SectorsLeft
         THEN {cs.sectorCurrent} \cap Sector ELSE {InfoSector(cs.element)}
    [] cs.nextTask = "WriteSector0" -> {0}
    [] OTHER -> {}

(* Power is lost, at any time; a sector being written may be torn.         *)
PowerOff ==
  /\ board # "Off"
  /\ \/ UNCHANGED disk
     \/ \E s \in InFlight : disk' = [disk EXCEPT ![s] = Junk]
  /\ board' = "Off"
  /\ volumes' = {}
  /\ cs' = FreshState(FALSE)
  /\ published' = 0
  /\ UNCHANGED <<slots, version>>

(* The card is taken to a computer, and the contents of a slot change.     *)
EditSlot(e, f) ==
  /\ board = "Off"
  /\ f \in SlotFiles[e]
  /\ slots' = [slots EXCEPT ![e] = f]
  /\ UNCHANGED <<disk, version, board, volumes, cs, published>>

(* Another firmware is written to the board.                               *)
UpgradeFirmware(v) ==
  /\ board = "Off"
  /\ version' = v
  /\ UNCHANGED <<disk, slots, board, volumes, cs, published>>

Next ==
  \/ ProcessNextTask
  \/ \E boot \in Boots : PowerOn(boot)
  \/ PowerOff
  \/ \E e \in Slot, f \in File \cup {NoFile} : EditSlot(e, f)
  \/ \E v \in Version : UpgradeFirmware(v)

(* checkCache calls ProcessNextTask in a loop with nothing to wait for.    *)
Spec == Init /\ [][Next]_vars /\ WF_vars(ProcessNextTask)

-----------------------------------------------------------------------------
(* The type invariant: elements and counts within the number of slots, the *)
(* sectors in use within what placing one more element can reach.          *)
TypeOK ==
  /\ disk \in [Sector -> Content]
  /\ slots \in [Slot -> File \cup {NoFile}]
  /\ version \in Version
  /\ board \in {"Off", "On", "Halted"}
  /\ volumes \subseteq Role
  /\ cs \in [skipElementDataCheck : BOOLEAN, hasSlots : BOOLEAN,
             nextTask : Stage, elementCount : 0 .. MaxSlots,
             element : 0 .. MaxSlots, writeSector0 : BOOLEAN,
             fno : File \cup {NoFile}, sectorBegin : Nat, sectorEnd : Nat,
             sectorCurrent : Nat, stored : File \cup {NoFile},
             crcOk : BOOLEAN, unread : BOOLEAN]
  /\ published \in 0 .. MaxSlots

Begin(e) == disk[InfoSector(e)].begin
End(e) == disk[InfoSector(e)].end

Sealed(e) == disk[InfoSector(e)].kind = "info" /\ disk[InfoSector(e)].sealed

(* Element e can be read back: its info sector is sealed, and the sectors  *)
(* it names hold the file it names.                                        *)
Intact(e) ==
  /\ Sealed(e)
  /\ \A s \in Begin(e) .. End(e) :
       s \in Sector /\ disk[s] = Data(disk[InfoSector(e)].file, s - Begin(e) + 1)

(* A check of every slot, data included.                                   *)
Checking ==
  /\ board = "On" /\ "LinearCache" \in volumes
  /\ cs.hasSlots /\ ~cs.skipElementDataCheck

(***************************************************************************)
(* Data and info sectors grow towards each other from the two ends of the  *)
(* partition and nothing in cache.c keeps them apart.  When the slots fit, *)
(* no sequence of edits, checks and power losses makes the data creep into *)
(* the info sectors (nor the other way round).                             *)
(***************************************************************************)
DataClearOfInfo ==
  \A s \in Sector :
    /\ disk[s].kind = "data" => s \in 1 .. LastSector - MaxSlots
    /\ disk[s].kind = "info" => s = InfoSector(disk[s].slot)
    /\ disk[s].kind = "head" => s = 0

(***************************************************************************)
(* Every element a full check has gone past can be read back, whatever was *)
(* rewritten in front of it since: slotToElementData overwrites the data of*)
(* later elements of the previous boot, never that of an earlier one.      *)
(***************************************************************************)
CheckedElementsIntact ==
  Checking => \A e \in 0 .. cs.element - 1 : Intact(e)

(***************************************************************************)
(* Two elements that can both be read back either come one after the other *)
(* on the partition, in slot order, or are the same file in the same       *)
(* sectors.  It holds of the partition at all times, torn writes and half  *)
(* finished checks included, and is what makes overwriting safe.           *)
(***************************************************************************)
IntactDataInOrder ==
  \A j, k \in Slot : j < k /\ Intact(j) /\ Intact(k) =>
    \/ End(j) < Begin(k)
    \/ /\ Begin(j) = Begin(k)
       /\ disk[InfoSector(j)].file = disk[InfoSector(k)].file

(***************************************************************************)
(* An info sector gets its CRCs only in a step that finds all the data in  *)
(* place: slotToElementInfo writes it without them and the end of          *)
(* slotToElementData fills them in, so that a check cut short by a power   *)
(* loss never leaves an element that passes for a complete one.            *)
(***************************************************************************)
SealedOnlyWhenComplete ==
  [][\A e \in Slot : Sealed(e)' /\ ~Sealed(e) => Intact(e)']_vars

(***************************************************************************)
(* Once a full check that rebuilt sector 0 is done, the readers give, of   *)
(* every element below the count that the application sees, the file of    *)
(* the slot of that number: all of it, and any part of it that they accept *)
(* to read.                                                                *)
(***************************************************************************)
RebuiltCountUsable ==
  Checking /\ cs.nextTask = "Done" /\ cs.writeSector0 =>
    \A e \in 0 .. published - 1 : \A ei \in ElementInfo(e) :
      /\ ei.filepath = slots[e]
      /\ ei.sectorCount = FileSectors[slots[e]]
      /\ \A delta, count \in 0 .. ei.sectorCount :
           delta + count <= ei.sectorCount =>
             \A s \in SectorsRead(ei, delta, count) :
               /\ InBounds(s)
               /\ disk[s] = Data(slots[e], s - ei.sectorBegin + 1)

(***************************************************************************)
(* STORAGE_CACHE_ElementInfo: "Call to STORAGE_CachedElementsCount() to    *)
(* check if Element is available first!" (cache.c:859).  Once a full check *)
(* is done every element below the count can be read back.                 *)
(***************************************************************************)
CountedAreAvailable ==
  Checking /\ cs.nextTask = "Done" => \A e \in 0 .. published - 1 : Intact(e)

(* What a check has still to do: elements, stages of the current one and   *)
(* sectors of the current stage.                                           *)
ElementsToGo == MaxSlots - cs.element

StagesToGo ==
  [Done |-> 0, WriteSector0 |-> 1, EndIteration |-> 2, NextIteration |-> 3,
   CheckElementData |-> 4, SlotToElementData |-> 4, SlotToElementInfo |-> 5,
   CheckElementInfo |-> 6, ReadSlot |-> 7, BeginIteration |-> 8,
   ReadSector0 |-> 9, Start |-> 10][cs.nextTask]

SectorsToGo ==
  IF SectorsLeft THEN cs.sectorEnd - cs.sectorCurrent + 1 ELSE 0

Advances ==
  \/ ElementsToGo' < ElementsToGo
  \/ /\ ElementsToGo' = ElementsToGo
     /\ \/ StagesToGo' < StagesToGo
        \/ StagesToGo' = StagesToGo /\ SectorsToGo' < SectorsToGo

(***************************************************************************)
(* While the board is on, and no assertion fails, no task is repeated and  *)
(* none goes back, whatever is read from the media and the directories:    *)
(* each leaves less to do (run.c:850 loops until all is done, with no bound*)
(* of its own).  So the loop ends.                                         *)
(***************************************************************************)
CheckAdvances == [][board = "On" /\ board' = "On" => Advances]_vars

(***************************************************************************)
(* slotToElementInfo: "Element data is stored after the last one"          *)
(* (cache.c:385).  The data of a full check that went past some elements is*)
(* placed after all of them.                                               *)
(***************************************************************************)
PlacedAfterLast ==
  [][Checking /\ SlotToElementInfo =>
       \A e \in 0 .. cs.element - 1 : Sealed(e) => End(e) < cs'.sectorBegin
    ]_vars

(***************************************************************************)
(* checkElementData: "All data reads must succeed in order to enable this  *)
(* flag." (cache.c:669).  The flag, STORAGE_CACHE_CheckFlags_Read, is      *)
(* enabled in the step that ends the loop.                                 *)
(***************************************************************************)
DataReadsSucceeded == [][CheckElementCrc => ~cs.unread]_vars

(***************************************************************************)
(* A full check of the slots of a FAT volume implements SlotMirror: the    *)
(* elements it has gone past are the files of slots 0, 1, 2..., each read  *)
(* back or written in full, and none is lost while the next ones are       *)
(* written.                                                                *)
(***************************************************************************)
Mirror == INSTANCE SlotMirror WITH
  phase <- IF ~Checking THEN "idle"
           ELSE IF cs.nextTask = "Done" THEN "ready" ELSE "checking",
  mirrored <- IF ~Checking THEN <<>>
              ELSE [i \in 1 .. cs.element |->
                      IF Intact(i - 1) THEN disk[InfoSector(i - 1)].file
                                       ELSE NoFile]

MirrorsSlots == Mirror!Spec

=============================================================================

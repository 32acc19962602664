---------------------- MODULE StorageCacheMirrorProofs ----------------------
(***************************************************************************)
(* Proofs about what a check of the slots leaves on the partition: the     *)
(* elements it went past can be read back, in order, and are the files of  *)
(* the slots.  They hold under the assumptions of SlotsStayApart; the run  *)
(* of MCStorageCacheMoved shows what happens when a file may be copied     *)
(* from one slot to another.                                               *)
(***************************************************************************)
EXTENDS StorageCacheProofs, Sequences

(***************************************************************************)
(* The media gives what was written, no file is empty, a file never moves  *)
(* from one slot to another, and a boot that checks slots checks the data. *)
(***************************************************************************)
SlotsStayApart ==
  /\ ~ReadsMayFail
  /\ \A f \in File : FileSectors[f] > 0
  /\ \A j, k \in Slot :
       j # k => \A f \in File : f \in SlotFiles[j] => f \notin SlotFiles[k]
  /\ \A boot \in Boots : boot.skip => "FatFsDrive0" \notin boot.roles

(* The info sector of element e.                                           *)
Stored(e) == disk[InfoSector(e)]

(* The sectors from b to z hold the first parts of file f.                 *)
Holds(f, b, z) ==
  \A s \in b .. z : s \in Sector /\ disk[s] = Data(f, s - b + 1)

(* An info sector is about a file of its slot, and its sectors are as many *)
(* as the file takes.                                                      *)
InfoOK(v) ==
  v.kind = "info" =>
    /\ v.file \in SlotFiles[v.slot]
    /\ v.begin >= 1
    /\ v.end = v.begin + FileSectors[v.file] - 1

DiskOK == \A s \in Sector : InfoOK(disk[s]) /\ disk[s].kind # "mangled"

SlotsOK == \A e \in Slot : slots[e] \in SlotFiles[e]

(* Elements that can be read back come one after the other.                *)
Ordered ==
  \A j, k \in Slot : j < k /\ Intact(j) /\ Intact(k) => End(j) < Begin(k)

Mirrors(e) == Intact(e) /\ Stored(e).file = slots[e]

(* The sector where the data of the elements before e ends.                *)
LastEnd(e) == IF e = 0 THEN 0 ELSE End(e - 1)

(* A boot that checks slots.                                               *)
BootOK ==
  /\ cs.skipElementDataCheck => ~cs.hasSlots /\ "FatFsDrive0" \notin volumes
  /\ cs.hasSlots => board # "Off"
  /\ cs.nextTask \in {"Start", "ReadSector0"} => ~cs.writeSector0
  /\ cs.hasSlots /\ cs.nextTask = "Done" /\ cs.writeSector0
       => published = cs.element

GonePast == cs.hasSlots => \A e \in Slot : e < cs.element => Mirrors(e)

(* The element about to be placed.                                         *)
BeforeOK ==
  /\ cs.hasSlots /\ cs.nextTask \in BeforePlacing
       => cs.sectorEnd = LastEnd(cs.element)
  /\ cs.hasSlots /\ cs.nextTask \in {"CheckElementInfo", "SlotToElementInfo",
                                     "SlotToElementData"}
       => cs.fno = slots[cs.element]

(* The element that is being written.                                      *)
CopyOK ==
  cs.nextTask = "SlotToElementData" =>
    /\ Stored(cs.element) = Info(cs.element, cs.fno, cs.sectorBegin,
                                 cs.sectorEnd, FALSE)
    /\ cs.sectorBegin = LastEnd(cs.element) + 1
    /\ cs.sectorEnd = LastEnd(cs.element) + FileSectors[cs.fno]
    /\ cs.sectorCurrent <= cs.sectorEnd + 1
    /\ Holds(cs.fno, cs.sectorBegin, cs.sectorCurrent - 1)

(* The element whose data is being read.                                   *)
ReadOK ==
  cs.hasSlots /\ cs.nextTask = "CheckElementData" =>
    /\ Sealed(cs.element)
    /\ cs.stored = slots[cs.element]
    /\ Stored(cs.element).file = cs.stored
    /\ cs.sectorBegin = Begin(cs.element)
    /\ cs.sectorEnd = End(cs.element)
    /\ cs.sectorBegin <= cs.sectorCurrent
    /\ cs.sectorCurrent <= cs.sectorEnd + 1
    /\ cs.crcOk => Holds(cs.stored, cs.sectorBegin, cs.sectorCurrent - 1)

(* The element that was written or read.                                   *)
PastOK ==
  cs.hasSlots /\ cs.nextTask = "NextIteration" =>
    Mirrors(cs.element) /\ cs.sectorEnd = End(cs.element)

CheckOK == GonePast /\ BeforeOK /\ CopyOK /\ ReadOK /\ PastOK

(* The inductive invariant.                                                *)
MirrorInv(m) ==
  /\ TypeInv /\ DiskFits(m) /\ CheckFits(m)
  /\ DiskOK /\ SlotsOK /\ Ordered
  /\ BootOK /\ CheckOK

-----------------------------------------------------------------------------
(* Facts about sectors and what they hold.                                 *)

LEMMA InfoSectors ==
  ASSUME NEW e \in Slot
  PROVE  /\ e \in Nat /\ MaxSlots \in Nat /\ LastSector \in Nat
         /\ InfoSector(e) \in Sector
         /\ InfoSector(e) > LastSector - MaxSlots
         /\ InfoSector(e) # 0
         /\ \A k \in Slot : k # e => InfoSector(k) # InfoSector(e)
         /\ \A k \in Int : InfoSector(k) = InfoSector(e) => k = e
BY CacheAssumption, VolumeAssumption DEF Slot, Sector, InfoSector

LEMMA InfoRecord ==
  ASSUME NEW e, NEW f, NEW b, NEW z, NEW crc
  PROVE  /\ Info(e, f, b, z, crc).kind = "info"
         /\ Info(e, f, b, z, crc).slot = e
         /\ Info(e, f, b, z, crc).file = f
         /\ Info(e, f, b, z, crc).begin = b
         /\ Info(e, f, b, z, crc).end = z
         /\ Info(e, f, b, z, crc).sealed = crc
BY DEF Info

LEMMA DataRecord ==
  ASSUME NEW f, NEW k
  PROVE  /\ Data(f, k).kind = "data"
         /\ Data(f, k).file = f
         /\ Data(f, k).part = k
BY DEF Data

(* What is known of the info sector of a slot.                             *)
LEMMA StoredFacts ==
  ASSUME TypeOK, NEW m, DiskFits(m), DiskOK, NEW e \in Slot,
         Stored(e).kind = "info"
  PROVE  /\ Stored(e) \in [kind : {"info"}, slot : Slot, file : File,
                           begin : Nat, end : Nat, sealed : BOOLEAN]
         /\ Stored(e).slot = e
         /\ Stored(e).file \in File
         /\ Stored(e).file \in SlotFiles[e]
         /\ Stored(e).begin \in Nat /\ Stored(e).end \in Nat
         /\ Stored(e).begin >= 1
         /\ FileSectors[Stored(e).file] \in Nat
         /\ Stored(e).end = Stored(e).begin + FileSectors[Stored(e).file] - 1
<1>1. InfoSector(e) \in Sector /\ Stored(e) \in Content
  BY InfoSectors DEF TypeOK, Stored
<1>2. Stored(e) \in [kind : {"info"}, slot : Slot, file : File,
                     begin : Nat, end : Nat, sealed : BOOLEAN]
  BY <1>1, CacheAssumption DEF Content, Mangled
<1>3. Stored(e).slot \in Slot /\ InfoSector(e) = InfoSector(Stored(e).slot)
  BY <1>1, <1>2 DEF DiskFits, SectorFits, Stored
<1>4. Stored(e).slot = e
  BY <1>3, InfoSectors
<1>5. InfoOK(Stored(e))
  BY <1>1 DEF DiskOK, Stored
<1>6. FileSectors[Stored(e).file] \in Nat
  BY <1>2, CacheAssumption
<1> QED BY <1>2, <1>4, <1>5, <1>6 DEF InfoOK

(* Where the data of an element may be, and whose it is.                   *)
LEMMA IntactFacts ==
  ASSUME TypeOK, NEW m, DiskFits(m), DiskOK, SlotsStayApart,
         NEW e \in Slot, Intact(e)
  PROVE  /\ Stored(e).kind = "info" /\ Stored(e).sealed
         /\ Begin(e) = Stored(e).begin /\ End(e) = Stored(e).end
         /\ Begin(e) \in Nat /\ End(e) \in Nat
         /\ 1 <= Begin(e) /\ Begin(e) <= End(e)
         /\ Holds(Stored(e).file, Begin(e), End(e))
         /\ \A k \in Slot : InfoSector(k) \notin Begin(e) .. End(e)
<1>1. Stored(e).kind = "info" /\ Stored(e).sealed
  BY DEF Intact, Sealed, Stored
<1>2. Begin(e) = Stored(e).begin /\ End(e) = Stored(e).end
  BY DEF Begin, End, Stored
<1>3. /\ Begin(e) \in Nat /\ End(e) \in Nat
      /\ 1 <= Begin(e) /\ Begin(e) <= End(e)
  BY <1>1, <1>2, StoredFacts DEF SlotsStayApart
<1>4. Holds(Stored(e).file, Begin(e), End(e))
  BY DEF Intact, Holds, Stored
<1>5. ASSUME NEW k \in Slot, InfoSector(k) \in Begin(e) .. End(e)
      PROVE  FALSE
  <2>1. disk[InfoSector(k)].kind = "data"
    BY <1>4, <1>5, DataRecord DEF Holds
  <2>2. InfoSector(k) \in 1 .. LastSector - MaxSlots
    BY <2>1, <1>5, InfoSectors DEF DiskFits, SectorFits
  <2> QED BY <2>2, InfoSectors
<1> QED BY <1>1, <1>2, <1>3, <1>4, <1>5

(* An element is intact when its info sector is sealed and its data there. *)
LEMMA IntactMeans ==
  ASSUME NEW e, Stored(e).kind = "info", Stored(e).sealed,
         Holds(Stored(e).file, Stored(e).begin, Stored(e).end)
  PROVE  Intact(e)
BY DEF Intact, Sealed, Holds, Stored, Begin, End

(* A write that is not about an element does not make it intact.           *)
LEMMA OthersKept ==
  ASSUME TypeOK, NEW s \in Sector, NEW c, disk' = [disk EXCEPT ![s] = c],
         NEW k \in Slot, InfoSector(k) # s, Intact(k)',
         Sealed(k) => \A n : c # Data(Stored(k).file, n)
  PROVE  Intact(k) /\ Stored(k)' = Stored(k)
<1>1. InfoSector(k) \in Sector /\ disk \in [Sector -> Content]
  BY InfoSectors DEF TypeOK
<1>2. Stored(k)' = Stored(k)
  BY <1>1 DEF Stored, InfoSector
<1>3. Begin(k)' = Begin(k) /\ End(k)' = End(k) /\ Sealed(k)' = Sealed(k)
  BY <1>2 DEF Begin, End, Sealed, Stored
<1>4. Sealed(k)
  BY <1>3 DEF Intact
<1>5. ASSUME NEW q \in Begin(k) .. End(k)
      PROVE  q \in Sector /\ disk[q] = Data(Stored(k).file, q - Begin(k) + 1)
  <2>1. q \in Sector /\ disk'[q] = Data(Stored(k).file, q - Begin(k) + 1)
    BY <1>2, <1>3 DEF Intact, Stored, Sector
  <2>2. q # s
    BY <1>1, <1>4, <2>1
  <2> QED BY <1>1, <2>1, <2>2
<1> QED BY <1>2, <1>4, <1>5 DEF Intact, Stored

LEMMA NothingNew ==
  ASSUME TypeOK, NEW s \in Sector, NEW c, disk' = [disk EXCEPT ![s] = c],
         \/ c = disk[s]
         \/ /\ ~(c.kind = "info" /\ c.sealed)
            /\ \A k \in Slot : Sealed(k) /\ InfoSector(k) # s =>
                 \A n : c # Data(Stored(k).file, n),
         NEW k \in Slot, Intact(k)'
  PROVE  Intact(k) /\ Stored(k)' = Stored(k)
<1>1. InfoSector(k) \in Sector /\ disk \in [Sector -> Content]
  BY InfoSectors DEF TypeOK
<1>2. CASE c = disk[s]
  <2>1. disk' = disk
    BY <1>1, <1>2
  <2> QED BY <2>1 DEF Intact, Sealed, Stored, Begin, End
<1>3. CASE /\ ~(c.kind = "info" /\ c.sealed)
           /\ \A j \in Slot : Sealed(j) /\ InfoSector(j) # s =>
                \A n : c # Data(Stored(j).file, n)
  <2>1. disk'[InfoSector(k)].kind = "info" /\ disk'[InfoSector(k)].sealed
    BY DEF Intact, Sealed, InfoSector
  <2>2. InfoSector(k) # s
    BY <1>1, <1>3, <2>1
  <2> QED BY <1>3, <2>2, OthersKept
<1> QED BY <1>2, <1>3

(* A write away from an element leaves it as it is.                        *)
LEMMA MirrorsKept ==
  ASSUME TypeOK, NEW s, NEW c, disk' = [disk EXCEPT ![s] = c],
         UNCHANGED slots, NEW k \in Slot, Mirrors(k),
         s # InfoSector(k), s \notin Begin(k) .. End(k)
  PROVE  Mirrors(k)' /\ Stored(k)' = Stored(k) /\ End(k)' = End(k)
<1>1. InfoSector(k) \in Sector /\ disk \in [Sector -> Content]
  BY InfoSectors DEF TypeOK
<1>2. Stored(k)' = Stored(k)
  BY <1>1 DEF Stored, InfoSector
<1>3. /\ Begin(k)' = Begin(k) /\ End(k)' = End(k)
      /\ Sealed(k)' = Sealed(k)
  BY <1>2 DEF Begin, End, Sealed, Stored
<1>4. \A q \in Begin(k) .. End(k) :
        q \in Sector /\ disk'[q] = Data(Stored(k).file, q - Begin(k) + 1)
  BY <1>1 DEF Mirrors, Intact, Stored
<1>5. Intact(k)'
  BY <1>2, <1>3, <1>4 DEF Mirrors, Intact, Stored, Sector
<1> QED BY <1>2, <1>3, <1>5 DEF Mirrors

LEMMA MirrorsStay ==
  ASSUME UNCHANGED <<disk, slots>>
  PROVE  /\ DiskOK => DiskOK'
         /\ Ordered => Ordered'
         /\ \A k \in Slot : Mirrors(k) => Mirrors(k)'
         /\ \A k : /\ Stored(k)' = Stored(k) /\ Sealed(k)' = Sealed(k)
                   /\ Begin(k)' = Begin(k) /\ End(k)' = End(k)
         /\ \A k : LastEnd(k)' = LastEnd(k)
         /\ \A f, b, z : Holds(f, b, z) => Holds(f, b, z)'
BY DEF DiskOK, InfoOK, Ordered, Mirrors, Intact, Sealed, Stored, Begin, End,
       LastEnd, Holds, InfoSector, Sector, Slot

LEMMA OrderedKept ==
  ASSUME Ordered,
         \A k \in Slot : Intact(k)' => Intact(k) /\ Stored(k)' = Stored(k)
  PROVE  Ordered'
BY DEF Ordered, Begin, End, Stored, Slot

LEMMA DiskKept ==
  ASSUME TypeOK, DiskOK, NEW s, NEW c, disk' = [disk EXCEPT ![s] = c],
         c = disk[s] \/ (InfoOK(c) /\ c.kind # "mangled")
  PROVE  DiskOK'
<1>1. disk \in [Sector -> Content]
  BY DEF TypeOK
<1>2. ASSUME NEW q \in Sector
      PROVE  InfoOK(disk'[q]) /\ disk'[q].kind # "mangled"
  <2>1. CASE q = s
    BY <1>1, <2>1 DEF DiskOK
  <2>2. CASE q # s
    BY <1>1, <2>2 DEF DiskOK
  <2> QED BY <2>1, <2>2
<1> QED BY <1>2 DEF DiskOK, InfoOK, Sector

(* The elements gone past end where the next one begins, and those after   *)
(* it, if they can still be read back, begin later.                        *)
LEMMA LastEndFacts ==
  ASSUME TypeInv, NEW m, DiskFits(m), DiskOK, SlotsStayApart, Ordered,
         GonePast, cs.hasSlots, cs.element < MaxSlots
  PROVE  /\ LastEnd(cs.element) \in Nat
         /\ cs.element \in Slot
         /\ \A j \in Slot : j < cs.element => End(j) <= LastEnd(cs.element)
         /\ \A k \in Slot : k >= cs.element /\ Intact(k)
                            => LastEnd(cs.element) < Begin(k)
<1> DEFINE e == cs.element
<1>1. e \in Nat /\ e \in Slot /\ MaxSlots \in Nat /\ Slot \subseteq Nat
  BY CacheAssumption DEF TypeInv, TypeOK, Slot
<1>2. \A j \in Slot : j < e => Mirrors(j)
  BY DEF GonePast
<1>3. \A k \in Slot : Intact(k) => /\ Begin(k) \in Nat /\ End(k) \in Nat
                                  /\ 1 <= Begin(k) /\ Begin(k) <= End(k)
  BY IntactFacts DEF TypeInv
<1>4. CASE e = 0
  <2>1. LastEnd(e) = 0
    BY <1>4 DEF LastEnd
  <2>2. \A j \in Slot : ~(j < e)
    BY <1>1, <1>4
  <2>3. \A k \in Slot : Intact(k) => 0 < Begin(k)
    BY <1>3
  <2> QED BY <1>1, <2>1, <2>2, <2>3
<1>5. CASE e # 0
  <2>1. e - 1 \in Slot /\ e - 1 < e
    BY <1>1, <1>5 DEF Slot
  <2>2. LastEnd(e) = End(e - 1)
    BY <1>5 DEF LastEnd
  <2>3. Intact(e - 1)
    BY <1>2, <2>1 DEF Mirrors
  <2>4. ASSUME NEW j \in Slot, j < e
        PROVE  End(j) <= LastEnd(e)
    <3>1. Intact(j)
      BY <1>2, <2>4 DEF Mirrors
    <3>2. CASE j = e - 1
      BY <1>3, <2>2, <2>3, <3>2
    <3>3. CASE j < e - 1
      BY <1>3, <2>1, <2>2, <2>3, <3>1, <3>3 DEF Ordered
    <3> QED BY <1>1, <2>1, <2>4, <3>2, <3>3
  <2>5. ASSUME NEW k \in Slot, k >= e, Intact(k)
        PROVE  LastEnd(e) < Begin(k)
    <3>1. e - 1 < k
      BY <1>1, <2>5
    <3> QED BY <2>1, <2>2, <2>3, <2>5, <3>1 DEF Ordered
  <2> QED BY <1>1, <1>3, <2>2, <2>3, <2>1, <2>4, <2>5
<1> QED BY <1>4, <1>5

-----------------------------------------------------------------------------
(* What a check step leaves alone.                                         *)

LEMMA WriteOk ==
  ASSUME NEW s, NEW v, NEW w \in LinearWrite(s, v), w.ok
  PROVE  w.disk = [disk EXCEPT ![s] = v]
BY DEF LinearWrite

LEMMA ReadOk ==
  ASSUME SlotsStayApart, NEW s, NEW left, NEW r \in LinearRead(s, left)
  PROVE  r.ok /\ r.data = disk[s]
BY DEF LinearRead, SlotsStayApart

(* Steps that end the iteration say nothing more of an element.            *)
LEMMA EndOK ==
  ASSUME GonePast',
         cs'.nextTask \in {"EndIteration", "WriteSector0", "Done"}
  PROVE  CheckOK'
BY DEF CheckOK, BeforeOK, CopyOK, ReadOK, PastOK, BeforePlacing

LEMMA GonePastStays ==
  ASSUME GonePast, UNCHANGED <<disk, slots>>,
         cs'.element = cs.element, cs'.hasSlots = cs.hasSlots
  PROVE  GonePast'
BY MirrorsStay DEF GonePast, Slot

LEMMA AllStays ==
  ASSUME UNCHANGED <<disk, slots, cs>>, DiskOK, Ordered, CheckOK
  PROVE  DiskOK' /\ Ordered' /\ CheckOK'
<1>1. GonePast'
  BY GonePastStays DEF CheckOK
<1>2. BeforeOK' /\ CopyOK' /\ ReadOK' /\ PastOK'
  BY MirrorsStay DEF CheckOK, BeforeOK, CopyOK, ReadOK, PastOK, Stored,
     Sealed, Begin, End, Holds, LastEnd, Mirrors, Intact, Sector, InfoSector
<1> QED BY <1>1, <1>2, MirrorsStay DEF CheckOK

(* When the elements before e keep their info sectors, so does LastEnd.    *)
LEMMA LastEndKept ==
  ASSUME NEW e \in Slot, \A k \in Slot : k < e => End(k)' = End(k)
  PROVE  LastEnd(e)' = LastEnd(e)
<1>1. CASE e = 0
  BY <1>1 DEF LastEnd
<1>2. CASE e # 0
  <2>1. e - 1 \in Slot /\ e - 1 < e
    BY <1>2, CacheAssumption DEF Slot
  <2> QED BY <1>2, <2>1 DEF LastEnd
<1> QED BY <1>1, <1>2

(* A write to the info sector of the current element.                      *)
LEMMA InfoWriteKeeps ==
  ASSUME NEW m, SlotsStayApart, MirrorInv(m), cs.hasSlots, UNCHANGED slots,
         NEW e \in Slot, e = cs.element,
         NEW c, disk' = [disk EXCEPT ![InfoSector(e)] = c]
  PROVE  /\ \A k \in Slot : k < e => Mirrors(k)' /\ End(k)' = End(k)
         /\ LastEnd(e)' = LastEnd(e)
         /\ cs'.element = e => GonePast'
         /\ Stored(e)' = c
<1>1. TypeOK /\ DiskFits(m) /\ DiskOK /\ GonePast
  BY DEF MirrorInv, CheckOK, TypeInv
<1>2. ASSUME NEW k \in Slot, k < e
      PROVE  Mirrors(k)' /\ End(k)' = End(k)
  <2>1. Mirrors(k)
    BY <1>1, <1>2 DEF GonePast
  <2>2. InfoSector(e) # InfoSector(k)
    BY <1>2, InfoSectors
  <2>3. InfoSector(e) \notin Begin(k) .. End(k)
    BY <1>1, <2>1, IntactFacts DEF Mirrors
  <2> QED BY <1>1, <2>1, <2>2, <2>3, MirrorsKept
<1>3. LastEnd(e)' = LastEnd(e)
  BY <1>2, LastEndKept
<1>4. Stored(e)' = c
  BY <1>1, InfoSectors DEF TypeOK, Stored, InfoSector
<1> QED BY <1>2, <1>3, <1>4 DEF GonePast, Slot

(* slotToElementInfo.                                                      *)
LEMMA PlaceMirrors ==
  ASSUME NEW m, SlotsStayApart, MirrorInv(m), SlotToElementInfo
  PROVE  DiskOK' /\ Ordered' /\ CheckOK'
<1>0. /\ cs \in CsType /\ cs.nextTask = "SlotToElementInfo"
      /\ TypeOK /\ TypeInv /\ DiskFits(m) /\ DiskOK /\ Ordered /\ SlotsOK
      /\ CheckOK /\ GonePast /\ BeforeOK
      /\ cs.element \in Slot
      /\ cs.hasSlots => cs.fno \in File
      /\ UNCHANGED slots
  BY CacheAssumption
     DEF MirrorInv, CheckOK, TypeInv, TypeOK, CsType, SlotToElementInfo, At,
         StagesOK, InSlot, Slot, environment
<1>1. PICK e \in Slot : e = cs.element
  BY <1>0
<1>2. /\ Placed \in CsType
      /\ Placed.sectorBegin = cs.sectorEnd + 1
      /\ Placed.sectorEnd = cs.sectorEnd + SectorsOf(cs.fno)
      /\ Placed.sectorCurrent = Placed.sectorBegin
      /\ Placed.fno = cs.fno
      /\ Placed.element = cs.element
      /\ Placed.hasSlots = cs.hasSlots
      /\ cs.sectorEnd \in Nat
  BY <1>0, PlacedType DEF CsType
<1>3. ASSUME NEW stage \in {"SlotToElementData", "EndIteration"},
             cs' = [Placed EXCEPT !.nextTask = stage]
      PROVE  /\ cs'.nextTask = stage
             /\ cs'.element = e
             /\ cs'.hasSlots = cs.hasSlots
             /\ cs'.fno = cs.fno
             /\ cs'.sectorBegin = cs.sectorEnd + 1
             /\ cs'.sectorEnd = cs.sectorEnd + SectorsOf(cs.fno)
             /\ cs'.sectorCurrent = cs.sectorEnd + 1
  BY <1>1, <1>2, <1>3 DEF CsType
<1>4. CASE UNCHANGED <<disk, cs>>
  BY <1>0, <1>4, AllStays
<1>5. CASE UNCHANGED disk /\ cs' = [Placed EXCEPT !.nextTask = "EndIteration"]
  <2>1. GonePast'
    BY <1>0, <1>1, <1>3, <1>5, GonePastStays
  <2> QED BY <1>0, <1>3, <1>5, <2>1, EndOK, MirrorsStay
<1>6. CASE /\ cs.hasSlots
           /\ \E w \in LinearWrite(InfoSector(cs.element),
                         Info(cs.element, cs.fno, Placed.sectorBegin,
                              Placed.sectorEnd, FALSE)) :
                /\ disk' = w.disk
                /\ cs' = [Placed EXCEPT
                     !.nextTask = IF w.ok THEN "SlotToElementData"
                                          ELSE "EndIteration"]
  <2>b. PICK b \in Nat, z \in Nat :
           b = cs.sectorEnd + 1 /\ z = cs.sectorEnd + SectorsOf(cs.fno)
    BY <1>0, <1>2, PlacedType
  <2>s. PICK sector \in Sector : sector = InfoSector(e)
    BY InfoSectors
  <2>i. PICK info : info = Info(e, cs.fno, b, z, FALSE)
    OBVIOUS
  <2>1. PICK w \in LinearWrite(sector, info) :
          /\ disk' = w.disk
          /\ cs' = [Placed EXCEPT
               !.nextTask = IF w.ok THEN "SlotToElementData"
                                    ELSE "EndIteration"]
    BY <1>1, <1>2, <1>6, <2>b, <2>s, <2>i
  <2> DEFINE stage == IF w.ok THEN "SlotToElementData" ELSE "EndIteration"
  <2>2. /\ stage \in {"SlotToElementData", "EndIteration"}
        /\ cs' = [Placed EXCEPT !.nextTask = stage]
    BY <2>1
  <2> HIDE DEF stage
  <2>3. PICK c \in {disk[sector], info, Junk} :
          disk' = [disk EXCEPT ![sector] = c]
    <3>1. disk \in [Sector -> Content]
      BY <1>0 DEF TypeOK
    <3>2. PICK c \in {disk[sector], info, Junk} :
            w.disk = [disk EXCEPT ![sector] = c]
      BY <3>1, WriteGives
    <3> QED BY <2>1, <3>2
  <2>4. /\ info.kind = "info" /\ ~info.sealed /\ info.slot = e
        /\ info.file = cs.fno
        /\ info.begin = b
        /\ info.end = z
    BY <2>i DEF Info
  <2>5. Junk.kind = "junk"
    BY CacheAssumption
  <2>6. cs.fno \in File /\ cs.fno = slots[e] /\ cs.fno \in SlotFiles[e]
        /\ cs.sectorEnd = LastEnd(e)
    BY <1>0, <1>1, <1>6 DEF BeforeOK, BeforePlacing, SlotsOK
  <2>7. /\ SectorsOf(cs.fno) = FileSectors[cs.fno]
        /\ FileSectors[cs.fno] \in Nat
    BY <2>6, CacheAssumption DEF SectorsOf
  <2>8. InfoOK(info)
    BY <1>2, <2>b, <2>4, <2>6, <2>7 DEF InfoOK
  <2>10. DiskOK'
    BY <1>0, <2>3, <2>4, <2>5, <2>8, DiskKept DEF InfoOK
  <2>11. c = disk[sector] \/ /\ ~(c.kind = "info" /\ c.sealed)
                             /\ \A f, n : c # Data(f, n)
    BY <2>3, <2>4, <2>5, DataRecord
  <2>12. Ordered'
    BY <1>0, <2>3, <2>11, NothingNew, OrderedKept
  <2>13. /\ GonePast' /\ LastEnd(e)' = LastEnd(e) /\ Stored(e)' = c
    <3>1. /\ disk' = [disk EXCEPT ![InfoSector(e)] = c]
          /\ cs.hasSlots /\ UNCHANGED slots
      BY <1>0, <1>6, <2>3, <2>s
    <3>2. cs'.element = e
      BY <1>3, <2>2
    <3> QED BY <1>1, <3>1, <3>2, InfoWriteKeeps
  <2>14. CASE ~w.ok
    BY <1>3, <2>2, <2>10, <2>12, <2>13, <2>14, EndOK DEF stage
  <2>15. CASE w.ok
    <3>1. disk' = [disk EXCEPT ![sector] = info] /\ stage = "SlotToElementData"
      BY <2>1, <2>15, WriteOk DEF stage
    <3>2. disk'[sector] = info
      BY <1>0, <3>1 DEF TypeOK
    <3>3. Stored(e)' = info
      BY <2>s, <3>2 DEF Stored, InfoSector
    <3>4. /\ cs'.nextTask = "SlotToElementData"
          /\ cs'.element = e /\ cs'.hasSlots /\ cs'.fno = cs.fno
          /\ cs'.sectorBegin = cs.sectorEnd + 1
          /\ cs'.sectorEnd = cs.sectorEnd + SectorsOf(cs.fno)
          /\ cs'.sectorCurrent = cs.sectorEnd + 1
      BY <1>3, <1>6, <2>2, <3>1
    <3>5. BeforeOK' /\ ReadOK' /\ PastOK'
      BY <1>0, <2>6, <3>4 DEF BeforeOK, BeforePlacing, ReadOK, PastOK
    <3>6. CopyOK'
      <4>1. Stored(cs.element)' = Info(cs.element, cs.fno, cs.sectorBegin,
                                       cs.sectorEnd, FALSE)'
        BY <2>b, <2>i, <3>3, <3>4 DEF Info, Stored
      <4>2. LastEnd(cs.element)' = cs.sectorEnd
        BY <2>6, <2>13, <3>4 DEF LastEnd
      <4>3. \A s \in cs'.sectorBegin .. cs'.sectorCurrent - 1 : FALSE
        BY <1>2, <3>4
      <4> QED BY <1>2, <2>6, <2>7, <3>4, <4>1, <4>2, <4>3 DEF CopyOK, Holds
    <3> QED BY <2>10, <2>12, <2>13, <3>5, <3>6 DEF CheckOK
  <2> QED BY <2>14, <2>15
<1> QED BY <1>0, <1>4, <1>5, <1>6 DEF SlotToElementInfo, Halt

(* A write to a data sector of the element being placed leaves those gone  *)
(* past, and every info sector, as they are.                               *)
LEMMA DataWriteKeeps ==
  ASSUME NEW m, SlotsStayApart, MirrorInv(m), cs.hasSlots, UNCHANGED slots,
         NEW e \in Slot, e = cs.element,
         NEW s \in 1 .. LastSector - MaxSlots, LastEnd(e) < s,
         NEW c, disk' = [disk EXCEPT ![s] = c]
  PROVE  /\ \A k \in Slot : k < e => Mirrors(k)' /\ End(k)' = End(k)
         /\ LastEnd(e)' = LastEnd(e)
         /\ cs'.element = e => GonePast'
         /\ Stored(e)' = Stored(e)
<1>1. /\ TypeOK /\ TypeInv /\ DiskFits(m) /\ DiskOK /\ Ordered /\ GonePast
      /\ MaxSlots \in Nat /\ cs.element < MaxSlots
  BY CacheAssumption DEF MirrorInv, CheckOK, TypeInv, Slot
<1>2. \A k \in Slot : s # InfoSector(k)
  BY InfoSectors
<1>3. ASSUME NEW k \in Slot, k < e
      PROVE  Mirrors(k)' /\ End(k)' = End(k)
  <2>1. Mirrors(k) /\ Intact(k)
    BY <1>1, <1>3 DEF GonePast, Mirrors
  <2>2. End(k) \in Nat /\ Begin(k) \in Nat
    BY <1>1, <2>1, IntactFacts
  <2>3. LastEnd(e) \in Nat /\ End(k) <= LastEnd(e)
    BY <1>1, <1>3, LastEndFacts
  <2>4. s \notin Begin(k) .. End(k)
    BY <2>2, <2>3
  <2> QED BY <1>1, <1>2, <2>1, <2>4, MirrorsKept
<1>4. LastEnd(e)' = LastEnd(e)
  BY <1>3, LastEndKept
<1>5. Stored(e)' = Stored(e)
  BY <1>1, <1>2, InfoSectors DEF TypeOK, Stored, InfoSector
<1> QED BY <1>3, <1>4, <1>5 DEF GonePast, Slot

(* slotToElementData, one turn of its loop.                                *)
LEMMA CopyMirrors ==
  ASSUME NEW m, SlotsFit(m), SlotsStayApart, MirrorInv(m), SlotToElementData
  PROVE  DiskOK' /\ Ordered' /\ CheckOK'
<1>0. /\ cs \in CsType /\ cs.nextTask = "SlotToElementData"
      /\ TypeOK /\ TypeInv /\ DiskFits(m) /\ DiskOK /\ Ordered /\ SlotsOK
      /\ CheckFits(m) /\ CheckOK /\ GonePast /\ BeforeOK /\ CopyOK
      /\ cs.element \in Slot
      /\ cs.hasSlots /\ cs.fno \in File
      /\ cs.sectorCurrent <= cs.sectorEnd
      /\ cs.sectorBegin <= cs.sectorCurrent
      /\ UNCHANGED slots
  BY CacheAssumption
     DEF MirrorInv, CheckOK, TypeInv, TypeOK, CsType, SlotToElementData, At,
         StagesOK, InSlot, Slot, environment, SectorsLeft
<1>1. PICK e \in Slot : e = cs.element
  BY <1>0
<1>2. /\ Stored(e) = Info(e, cs.fno, cs.sectorBegin, cs.sectorEnd, FALSE)
      /\ cs.sectorBegin = LastEnd(e) + 1
      /\ cs.sectorEnd = LastEnd(e) + FileSectors[cs.fno]
      /\ Holds(cs.fno, cs.sectorBegin, cs.sectorCurrent - 1)
      /\ cs.fno = slots[e] /\ cs.fno \in SlotFiles[e]
  BY <1>0, <1>1 DEF CopyOK, BeforeOK, SlotsOK
<1>3. LastEnd(e) \in Nat /\ e < MaxSlots
  <2>1. e < MaxSlots
    BY CacheAssumption DEF Slot
  <2> QED BY <1>0, <1>1, <2>1, LastEndFacts
<1>4. CASE UNCHANGED <<disk, cs>>
  BY <1>0, <1>4, AllStays
<1>5. CASE UNCHANGED disk /\ Goto("EndIteration")
  <2>1. /\ cs'.nextTask = "EndIteration" /\ cs'.element = cs.element
        /\ cs'.hasSlots = cs.hasSlots
    BY <1>0, <1>5, GotoType DEF Stage
  <2>2. GonePast'
    BY <1>0, <1>5, <2>1, GonePastStays
  <2> QED BY <1>0, <1>5, <2>1, <2>2, EndOK, MirrorsStay
<1>6. CASE \E w \in LinearWrite(cs.sectorCurrent,
                      Data(cs.fno, cs.sectorCurrent - cs.sectorBegin + 1)) :
             /\ disk' = w.disk
             /\ cs' = IF w.ok
                      THEN [cs EXCEPT !.sectorCurrent = @ + 1]
                      ELSE [cs EXCEPT !.nextTask = "EndIteration"]
  <2>s. PICK s \in 1 .. LastSector - MaxSlots : s = cs.sectorCurrent
    BY <1>0, CopyInRoom
  <2>d. PICK d : d = Data(cs.fno, s - cs.sectorBegin + 1)
    OBVIOUS
  <2>1. PICK w \in LinearWrite(s, d) :
             /\ disk' = w.disk
             /\ cs' = IF w.ok
                      THEN [cs EXCEPT !.sectorCurrent = @ + 1]
                      ELSE [cs EXCEPT !.nextTask = "EndIteration"]
    BY <1>6, <2>s, <2>d
  <2>2. /\ cs'.nextTask = IF w.ok THEN "SlotToElementData" ELSE "EndIteration"
        /\ cs'.element = e /\ cs'.hasSlots = cs.hasSlots
        /\ cs'.fno = cs.fno
        /\ cs'.sectorBegin = cs.sectorBegin /\ cs'.sectorEnd = cs.sectorEnd
        /\ cs'.sectorCurrent = IF w.ok THEN s + 1 ELSE s
    BY <1>0, <1>1, <2>s, <2>1 DEF CsType
  <2>3. PICK c \in {disk[s], d, Junk} : disk' = [disk EXCEPT ![s] = c]
    <3>1. disk \in [Sector -> Content]
      BY <1>0 DEF TypeOK
    <3>2. PICK c \in {disk[s], d, Junk} : w.disk = [disk EXCEPT ![s] = c]
      BY <3>1, WriteGives
    <3> QED BY <2>1, <3>2
  <2>4. d.kind = "data" /\ d.file = cs.fno /\ Junk.kind = "junk"
    BY <2>d, CacheAssumption DEF Data
  <2>5. s \in Sector
    BY CacheAssumption, VolumeAssumption DEF Sector
  <2>6. LastEnd(e) < s
    BY <1>0, <1>2, <1>3, <2>s DEF CsType
  <2>7. DiskOK'
    BY <1>0, <2>3, <2>4, DiskKept DEF InfoOK
  <2>8. ASSUME NEW k \in Slot, Sealed(k), NEW n, d = Data(Stored(k).file, n)
        PROVE  FALSE
    <3>1. Stored(k).kind = "info" /\ Stored(k).sealed
      BY <2>8 DEF Sealed, Stored
    <3>2. Stored(k).file \in File /\ Stored(k).file \in SlotFiles[k]
      BY <1>0, <3>1, StoredFacts
    <3>3. Stored(k).file = cs.fno
      BY <2>4, <2>8 DEF Data
    <3>4. k = e
      BY <1>2, <3>2, <3>3 DEF SlotsStayApart
    <3>5. ~Stored(e).sealed
      BY <1>2 DEF Info
    <3> QED BY <3>1, <3>4, <3>5
  <2>9. Ordered'
    <3>1. \/ c = disk[s]
          \/ /\ ~(c.kind = "info" /\ c.sealed)
             /\ \A k \in Slot : Sealed(k) /\ InfoSector(k) # s =>
                  \A n : c # Data(Stored(k).file, n)
      BY <2>3, <2>4, <2>8, DataRecord
    <3> QED BY <1>0, <2>3, <2>5, <3>1, NothingNew, OrderedKept
  <2>10. GonePast' /\ LastEnd(e)' = LastEnd(e) /\ Stored(e)' = Stored(e)
    BY <1>0, <1>1, <2>2, <2>3, <2>6, DataWriteKeeps
  <2>11. CASE ~w.ok
    BY <2>2, <2>7, <2>9, <2>10, <2>11, EndOK
  <2>12. CASE w.ok
    <3>1. disk' = [disk EXCEPT ![s] = d]
      BY <2>1, <2>12, WriteOk
    <3>2. disk'[s] = d /\ \A q \in Sector : q # s => disk'[q] = disk[q]
      BY <1>0, <2>5, <3>1 DEF TypeOK
    <3>3. /\ cs'.nextTask = "SlotToElementData"
          /\ cs'.sectorCurrent = s + 1
      BY <2>2, <2>12
    <3>4. BeforeOK' /\ ReadOK' /\ PastOK'
      BY <1>0, <1>1, <1>2, <2>2, <3>3
         DEF BeforeOK, BeforePlacing, ReadOK, PastOK
    <3>5. \A q \in cs'.sectorBegin .. cs'.sectorCurrent - 1 :
            q \in Sector /\ disk'[q] = Data(cs'.fno, q - cs'.sectorBegin + 1)
      <4> TAKE q \in cs'.sectorBegin .. cs'.sectorCurrent - 1
      <4>1. q \in Int /\ cs.sectorBegin <= q /\ q <= s
        BY <1>0, <2>2, <2>s, <3>3 DEF CsType
      <4>2. CASE q = s
        BY <2>2, <2>5, <2>d, <3>2, <4>2
      <4>3. CASE q # s
        <5>1. q \in cs.sectorBegin .. cs.sectorCurrent - 1
          BY <1>0, <2>s, <4>1, <4>3 DEF CsType
        <5> QED BY <1>2, <2>2, <3>2, <4>3, <5>1 DEF Holds
      <4> QED BY <4>2, <4>3
    <3>6. CopyOK'
      <4>1. Stored(cs.element)' = Info(cs.element, cs.fno, cs.sectorBegin,
                                       cs.sectorEnd, FALSE)'
        BY <1>2, <2>2, <2>10 DEF Info, Stored
      <4>2. LastEnd(cs.element)' = LastEnd(e)
        BY <2>2, <2>10 DEF LastEnd
      <4>3. cs'.sectorCurrent <= cs'.sectorEnd + 1
        BY <1>0, <2>2, <2>s, <3>3 DEF CsType
      <4> QED BY <1>2, <2>2, <3>5, <4>1, <4>2, <4>3 DEF CopyOK, Holds, Sector
    <3> QED BY <2>7, <2>9, <2>10, <3>4, <3>6 DEF CheckOK
  <2> QED BY <2>11, <2>12
<1> QED BY <1>0, <1>4, <1>5, <1>6 DEF SlotToElementData, Halt

(* slotToElementData, once all the data is written.                        *)
LEMMA SealMirrors ==
  ASSUME NEW m, SlotsFit(m), SlotsStayApart, MirrorInv(m), SealElement
  PROVE  /\ DiskOK' /\ Ordered' /\ CheckOK'
         /\ \A k \in Slot : Sealed(k)' /\ ~Sealed(k) => Intact(k)'
<1>0. /\ cs \in CsType /\ cs.nextTask = "SlotToElementData"
      /\ TypeOK /\ TypeInv /\ DiskFits(m) /\ DiskOK /\ Ordered /\ SlotsOK
      /\ CheckFits(m) /\ CheckOK /\ GonePast /\ BeforeOK /\ CopyOK
      /\ cs.element \in Slot
      /\ cs.hasSlots /\ cs.fno \in File
      /\ ~(cs.sectorCurrent <= cs.sectorEnd)
      /\ UNCHANGED slots
  BY CacheAssumption
     DEF MirrorInv, CheckOK, TypeInv, TypeOK, CsType, SealElement, At,
         StagesOK, InSlot, Slot, environment, SectorsLeft
<1>1. PICK e \in Slot : e = cs.element
  BY <1>0
<1>2. /\ Stored(e) = Info(e, cs.fno, cs.sectorBegin, cs.sectorEnd, FALSE)
      /\ cs.sectorBegin = LastEnd(e) + 1
      /\ cs.sectorEnd = LastEnd(e) + FileSectors[cs.fno]
      /\ Holds(cs.fno, cs.sectorBegin, cs.sectorEnd)
      /\ cs.fno = slots[e] /\ cs.fno \in SlotFiles[e]
  <2>1. cs.sectorCurrent - 1 = cs.sectorEnd
    BY <1>0 DEF CopyOK, CsType
  <2> QED BY <1>0, <1>1, <2>1 DEF CopyOK, BeforeOK, SlotsOK
<1>3. LastEnd(e) \in Nat /\ e < MaxSlots
  <2>1. e < MaxSlots
    BY CacheAssumption DEF Slot
  <2> QED BY <1>0, <1>1, <2>1, LastEndFacts
<1>4. PICK sector \in Sector : sector = InfoSector(e)
  BY InfoSectors
<1>5. PICK v : v = Info(e, cs.fno, cs.sectorBegin, cs.sectorEnd, TRUE)
  OBVIOUS
<1>6. /\ v.kind = "info" /\ v.slot = e /\ v.file = cs.fno
      /\ v.begin = cs.sectorBegin /\ v.end = cs.sectorEnd /\ v.sealed
  BY <1>5 DEF Info
<1>7. PICK w \in LinearWrite(sector, v) :
        /\ disk' = w.disk
        /\ Goto(IF w.ok THEN "NextIteration" ELSE "EndIteration")
  <2> DEFINE lastData == Data(cs.fno, cs.sectorEnd - cs.sectorBegin + 1)
  <2>1. PICK r \in LinearRead(sector, {lastData, Junk}) :
          IF ~r.ok
          THEN Goto("EndIteration") /\ UNCHANGED disk
          ELSE \E c \in Seals(r.data) : \E w \in LinearWrite(sector, c) :
                 /\ disk' = w.disk
                 /\ Goto(IF w.ok THEN "NextIteration" ELSE "EndIteration")
    BY <1>1, <1>4 DEF SealElement
  <2>2. r.ok /\ r.data = disk[sector]
    BY <2>1, ReadOk
  <2>3. Seals(r.data) = {v}
    <3>1. r.data = Info(e, cs.fno, cs.sectorBegin, cs.sectorEnd, FALSE)
      BY <1>2, <1>4, <2>2 DEF Stored
    <3> QED BY <1>5, <3>1 DEF Seals, Info
  <2> QED BY <2>1, <2>2, <2>3
<1>8. PICK c \in {disk[sector], v, Junk} : disk' = [disk EXCEPT ![sector] = c]
  <2>1. disk \in [Sector -> Content]
    BY <1>0 DEF TypeOK
  <2>2. PICK c \in {disk[sector], v, Junk} : w.disk = [disk EXCEPT ![sector] = c]
    BY <2>1, WriteGives
  <2> QED BY <1>7, <2>2
<1>9. Junk.kind = "junk" /\ ~Stored(e).sealed /\ Stored(e) = disk[sector]
  BY <1>2, <1>4, CacheAssumption DEF Info, Stored
<1>10. InfoOK(v)
  <2>1. FileSectors[cs.fno] \in Nat
    BY <1>0, CacheAssumption
  <2> QED BY <1>2, <1>3, <1>6, <2>1 DEF InfoOK
<1>11. DiskOK'
  BY <1>0, <1>6, <1>8, <1>9, <1>10, DiskKept DEF InfoOK
<1>12. /\ cs'.element = e /\ cs'.hasSlots = cs.hasSlots
       /\ cs'.sectorEnd = cs.sectorEnd
       /\ cs'.nextTask = IF w.ok THEN "NextIteration" ELSE "EndIteration"
  BY <1>0, <1>1, <1>7 DEF Goto, CsType
<1>13. GonePast' /\ LastEnd(e)' = LastEnd(e) /\ Stored(e)' = c
  <2>1. disk' = [disk EXCEPT ![InfoSector(e)] = c]
    BY <1>4, <1>8
  <2> QED BY <1>0, <1>1, <1>12, <2>1, InfoWriteKeeps
<1>14. \A n : c # Data(cs.fno, n) \/ c = disk[sector]
  BY <1>6, <1>8, <1>9, DataRecord
<1>15. ASSUME NEW k \in Slot, k # e
       PROVE  /\ Sealed(k)' = Sealed(k)
              /\ Intact(k)' => Intact(k) /\ Stored(k)' = Stored(k)
  <2>1. InfoSector(k) # sector /\ InfoSector(k) \in Sector
    BY <1>4, <1>15, InfoSectors
  <2>2. Sealed(k)' = Sealed(k)
    BY <1>0, <1>8, <2>1 DEF Sealed, TypeOK, InfoSector
  <2>3. \A f, n : c # Data(f, n)
    BY <1>2, <1>6, <1>8, <1>9, DataRecord DEF Info
  <2> QED BY <1>0, <1>8, <2>1, <2>2, <2>3, OthersKept
<1>16. CASE c # v
  <2>1. c = disk[sector] \/ c = Junk
    BY <1>8, <1>16
  <2>2. ~Sealed(e)'
    BY <1>9, <1>13, <2>1 DEF Sealed, Stored, InfoSector
  <2>3. ~Intact(e)'
    BY <2>2 DEF Intact
  <2>4. Ordered'
    BY <1>0, <1>15, <2>3, OrderedKept
  <2>5. ~w.ok
    <3>1. ASSUME w.ok PROVE FALSE
      <4>1. disk' = [disk EXCEPT ![sector] = v]
        BY <1>7, <3>1, WriteOk
      <4>2. disk'[sector] = v /\ disk'[sector] = c
        BY <1>0, <1>8, <4>1 DEF TypeOK
      <4> QED BY <1>16, <4>2
    <3> QED BY <3>1
  <2> QED BY <1>11, <1>12, <1>13, <1>15, <2>2, <2>4, <2>5, EndOK
<1>17. CASE c = v
  <2>1. Stored(e)' = v
    BY <1>13, <1>17
  <2>2. /\ Begin(e)' = cs.sectorBegin /\ End(e)' = cs.sectorEnd
        /\ Sealed(e)'
    BY <1>6, <2>1 DEF Begin, End, Sealed, Stored
  <2>3. \A q \in cs.sectorBegin .. cs.sectorEnd :
          q \in Sector /\ disk'[q] = Data(cs.fno, q - cs.sectorBegin + 1)
    <3> TAKE q \in cs.sectorBegin .. cs.sectorEnd
    <3>1. q \in Sector /\ disk[q] = Data(cs.fno, q - cs.sectorBegin + 1)
      BY <1>2 DEF Holds
    <3>2. q # sector
      BY <1>2, <1>9, <3>1, DataRecord DEF Info
    <3> QED BY <1>0, <1>8, <3>1, <3>2 DEF TypeOK
  <2>4. Intact(e)' /\ Mirrors(e)'
    BY <1>0, <1>2, <1>6, <2>1, <2>2, <2>3 DEF Intact, Mirrors, Stored, Sector
  <2>5. ASSUME NEW k \in Slot, k > e, Intact(k)
        PROVE  cs.sectorEnd < Begin(k)
    <3>0. k # e /\ k >= e
      BY <2>5, CacheAssumption DEF Slot
    <3>1. LastEnd(e) < Begin(k)
      BY <1>0, <1>1, <1>3, <2>5, <3>0, LastEndFacts
    <3>2. /\ Begin(k) \in Nat /\ End(k) \in Nat /\ Begin(k) <= End(k)
          /\ Stored(k).kind = "info"
          /\ Holds(Stored(k).file, Begin(k), End(k))
      BY <1>0, <2>5, IntactFacts
    <3>3. Stored(k).file \in SlotFiles[k]
      BY <1>0, <3>2, StoredFacts
    <3>4. SUFFICES ASSUME Begin(k) <= cs.sectorEnd PROVE FALSE
      BY <1>0, <3>2 DEF CsType
    <3>5. Begin(k) \in cs.sectorBegin .. cs.sectorEnd
      BY <1>0, <1>2, <1>3, <3>1, <3>2, <3>4 DEF CsType
    <3>6. disk[Begin(k)].file = cs.fno
      BY <1>2, <3>5, DataRecord DEF Holds
    <3>7. disk[Begin(k)].file = Stored(k).file
      BY <3>2, DataRecord DEF Holds
    <3> QED BY <1>0, <1>2, <3>0, <3>3, <3>6, <3>7 DEF SlotsStayApart
  <2>6. Ordered'
    <3>1. ASSUME NEW j \in Slot, NEW k \in Slot, j < k, Intact(j)', Intact(k)'
          PROVE  End(j)' < Begin(k)'
      <4>1. CASE j # e /\ k # e
        <5>1. Intact(j) /\ Intact(k) /\ Stored(j)' = Stored(j)
              /\ Stored(k)' = Stored(k)
          BY <1>15, <3>1, <4>1
        <5>2. End(j) < Begin(k)
          BY <1>0, <3>1, <5>1 DEF Ordered
        <5> QED BY <5>1, <5>2 DEF Begin, End, Stored
      <4>2. CASE j = e
        <5>1. k # e /\ k > e
          BY <3>1, <4>2 DEF Slot
        <5>2. Intact(k) /\ Stored(k)' = Stored(k)
          BY <1>15, <3>1, <5>1
        <5>3. cs.sectorEnd < Begin(k)
          BY <2>5, <5>1, <5>2
        <5> QED BY <2>2, <4>2, <5>2, <5>3 DEF Begin, Stored
      <4>3. CASE k = e
        <5>1. j # e /\ j < e
          BY <3>1, <4>3 DEF Slot
        <5>2. Intact(j) /\ Stored(j)' = Stored(j)
          BY <1>15, <3>1, <5>1
        <5>3. End(j) <= LastEnd(e) /\ End(j) \in Nat
          BY <1>0, <1>1, <1>3, <5>1, <5>2, LastEndFacts, IntactFacts
        <5>4. End(j)' = End(j)
          BY <5>2 DEF End, Stored
        <5> QED BY <1>2, <1>3, <2>2, <4>3, <5>3, <5>4
      <4> QED BY <4>1, <4>2, <4>3
    <3> QED BY <3>1 DEF Ordered, Slot
  <2>7. CASE ~w.ok
    BY <1>11, <1>12, <1>13, <1>15, <2>4, <2>6, <2>7, EndOK
  <2>8. CASE w.ok
    <3>1. cs'.nextTask = "NextIteration"
      BY <1>12, <2>8
    <3>2. PastOK'
      BY <1>12, <2>2, <2>4 DEF PastOK, Mirrors, Intact, Sealed, Begin, End, Stored
    <3>3. BeforeOK' /\ CopyOK' /\ ReadOK'
      BY <3>1 DEF BeforeOK, BeforePlacing, CopyOK, ReadOK
    <3> QED BY <1>11, <1>13, <1>15, <2>4, <2>6, <3>2, <3>3 DEF CheckOK
  <2> QED BY <2>7, <2>8
<1> QED BY <1>16, <1>17

(* A step to the rewriting of the same element.                            *)
LEMMA RewriteOK ==
  ASSUME BeforeOK, GonePast', UNCHANGED <<disk, slots>>,
         cs.nextTask = "CheckElementInfo", cs'.nextTask = "SlotToElementInfo",
         cs'.element = cs.element, cs'.hasSlots = cs.hasSlots,
         cs'.fno = cs.fno, cs'.sectorEnd = cs.sectorEnd
  PROVE  CheckOK'
<1>1. LastEnd(cs.element)' = LastEnd(cs.element)
  BY DEF LastEnd, End, InfoSector
<1> QED BY <1>1 DEF CheckOK, BeforeOK, BeforePlacing, CopyOK, ReadOK, PastOK

(* checkElementInfo.                                                       *)
LEMMA CheckInfoMirrors ==
  ASSUME NEW m, SlotsStayApart, MirrorInv(m), CheckElementInfo
  PROVE  DiskOK' /\ Ordered' /\ CheckOK'
<1>0. /\ cs \in CsType /\ cs.nextTask = "CheckElementInfo"
      /\ TypeOK /\ TypeInv /\ DiskFits(m) /\ DiskOK /\ Ordered /\ BootOK
      /\ CheckOK /\ GonePast /\ BeforeOK
      /\ cs.element \in Slot
      /\ cs.hasSlots => ~cs.skipElementDataCheck
      /\ UNCHANGED slots
  BY CacheAssumption
     DEF MirrorInv, CheckOK, TypeInv, TypeOK, CsType, CheckElementInfo, At,
         StagesOK, InSlot, Slot, environment, BootOK
<1>1. PICK e \in Slot : e = cs.element
  BY <1>0
<1>2. PICK v \in Content : v = Stored(e)
  BY <1>0, InfoSectors DEF TypeOK, Stored
<1>3. \/ /\ ChecksumOk(v) /\ v.kind = "info"
         /\ UseElementInfo(v, v.begin, v.end, v.file)
      \/ /\ Goto("SlotToElementInfo")
         /\ UNCHANGED <<disk, board, published>>
  <2>1. PICK r \in LinearRead(InfoSector(e), Stale) :
          \/ /\ r.ok /\ ChecksumOk(r.data) /\ r.data.kind = "info"
             /\ UseElementInfo(r.data, r.data.begin, r.data.end, r.data.file)
          \/ /\ r.ok /\ ChecksumOk(r.data) /\ r.data.kind # "info"
             /\ \E range \in GarbageRange :
                  UseElementInfo(r.data, range[1], range[2], NoFile)
          \/ /\ ~(r.ok /\ ChecksumOk(r.data))
             /\ Goto(IF r.ok THEN "SlotToElementInfo" ELSE "EndIteration")
             /\ UNCHANGED <<disk, board, published>>
    BY <1>1 DEF CheckElementInfo
  <2>2. r.ok /\ r.data = v
    BY <1>2, <2>1, ReadOk DEF Stored
  <2>3. ~(ChecksumOk(v) /\ v.kind # "info")
    <3>1. v.kind # "head" /\ v.kind # "mangled"
      BY <1>0, <1>2, InfoSectors DEF DiskFits, SectorFits, DiskOK, Stored
    <3> QED BY <3>1 DEF ChecksumOk
  <2> QED BY <2>1, <2>2, <2>3
<1>4. ASSUME UNCHANGED disk, cs'.element = cs.element,
             cs'.hasSlots = cs.hasSlots
      PROVE  DiskOK' /\ Ordered' /\ GonePast'
  BY <1>0, <1>4, GonePastStays, MirrorsStay
<1>5. CASE Goto("SlotToElementInfo") /\ UNCHANGED disk
  <2>1. /\ cs'.nextTask = "SlotToElementInfo" /\ cs'.element = cs.element
        /\ cs'.hasSlots = cs.hasSlots /\ cs'.fno = cs.fno
        /\ cs'.sectorEnd = cs.sectorEnd
    BY <1>0, <1>5, GotoType DEF Stage
  <2> QED BY <1>0, <1>4, <1>5, <2>1, RewriteOK
<1>6. CASE UNCHANGED <<disk, cs>>
  BY <1>0, <1>6, AllStays
<1>7. CASE /\ ChecksumOk(v) /\ v.kind = "info" /\ UNCHANGED disk
           /\ cs.hasSlots /\ ~MetricsMatch(v)
           /\ cs' = [Loaded(v.begin, v.end, v.file) EXCEPT
                      !.sectorEnd = cs.sectorEnd, !.writeSector0 = TRUE,
                      !.nextTask = "SlotToElementInfo"]
  <2>1. /\ cs'.nextTask = "SlotToElementInfo" /\ cs'.element = cs.element
        /\ cs'.hasSlots = cs.hasSlots /\ cs'.fno = cs.fno
        /\ cs'.sectorEnd = cs.sectorEnd
    BY <1>0, <1>7 DEF Loaded, CsType
  <2> QED BY <1>0, <1>4, <1>7, <2>1, RewriteOK
<1>8. CASE /\ ChecksumOk(v) /\ v.kind = "info" /\ UNCHANGED disk
           /\ cs.hasSlots => MetricsMatch(v)
           /\ cs' = [Loaded(v.begin, v.end, v.file) EXCEPT
                      !.nextTask = IF cs.skipElementDataCheck
                                   THEN "NextIteration"
                                   ELSE "CheckElementData"]
  <2>1. /\ cs'.nextTask = IF cs.skipElementDataCheck THEN "NextIteration"
                                                     ELSE "CheckElementData"
        /\ cs'.element = e /\ cs'.hasSlots = cs.hasSlots
        /\ cs'.sectorBegin = v.begin /\ cs'.sectorEnd = v.end
        /\ cs'.sectorCurrent = v.begin /\ cs'.stored = v.file
    BY <1>0, <1>1, <1>8 DEF Loaded, CsType
  <2>2. BeforeOK' /\ CopyOK'
    BY <2>1 DEF BeforeOK, BeforePlacing, CopyOK
  <2>3. PastOK'
    BY <1>0, <2>1 DEF PastOK
  <2>4. ASSUME cs.hasSlots
        PROVE  /\ Sealed(e)' /\ v.file = slots[e] /\ Stored(e)' = v
               /\ v.begin \in Nat /\ v.end \in Nat /\ v.begin <= v.end + 1
    <3>1. Stored(e)' = v
      BY <1>2, <1>8 DEF Stored, InfoSector
    <3>2. Sealed(e)'
      BY <1>8, <3>1 DEF Sealed, Stored, ChecksumOk
    <3>3. v.file = slots[e]
      BY <1>0, <1>1, <1>8, <2>4 DEF MetricsMatch, BeforeOK
    <3>4. /\ v.begin \in Nat /\ v.end \in Nat
          /\ FileSectors[v.file] \in Nat
          /\ v.end = v.begin + FileSectors[v.file] - 1
      BY <1>0, <1>2, <1>8, StoredFacts
    <3> QED BY <3>1, <3>2, <3>3, <3>4
  <2>5. ReadOK'
    <3>1. SUFFICES ASSUME cs.hasSlots PROVE ReadOK'
      BY <2>1 DEF ReadOK
    <3>2. \A q \in v.begin .. v.begin - 1 : FALSE
      BY <2>4, <3>1
    <3>3. Begin(e)' = v.begin /\ End(e)' = v.end
      BY <2>4, <3>1 DEF Begin, End, Stored
    <3> QED BY <1>0, <2>1, <2>4, <3>1, <3>2, <3>3
            DEF ReadOK, Holds, Begin, End, Sealed, Stored
  <2> QED BY <1>1, <1>4, <1>8, <2>1, <2>2, <2>3, <2>5 DEF CheckOK
<1> QED BY <1>3, <1>5, <1>6, <1>7, <1>8 DEF UseElementInfo, Halt

(* checkElementData, one turn of its loop.                                 *)
LEMMA CheckDataMirrors ==
  ASSUME NEW m, SlotsStayApart, MirrorInv(m), CheckElementData
  PROVE  DiskOK' /\ Ordered' /\ CheckOK'
<1>0. /\ cs \in CsType /\ cs.nextTask = "CheckElementData"
      /\ TypeOK /\ TypeInv /\ DiskFits(m) /\ DiskOK /\ Ordered
      /\ CheckOK /\ GonePast /\ ReadOK
      /\ cs.element \in Slot
      /\ cs.sectorCurrent <= cs.sectorEnd
      /\ UNCHANGED slots
  <2>1. At("CheckElementData") /\ SectorsLeft /\ UNCHANGED slots
    BY DEF CheckElementData, environment
  <2> QED BY <2>1, CacheAssumption
          DEF MirrorInv, CheckOK, TypeInv, TypeOK, CsType, At, StagesOK,
              InSlot, Slot, SectorsLeft
<1>1. PICK e \in Slot : e = cs.element
  BY <1>0
<1>2. CASE UNCHANGED <<disk, cs>>
  BY <1>0, <1>2, AllStays
<1>3. CASE /\ cs.sectorCurrent \in Sector /\ UNCHANGED disk
           /\ \E r \in LinearRead(cs.sectorCurrent, Stale) :
                cs' = IF r.ok
                      THEN [cs EXCEPT
                             !.sectorCurrent = @ + 1,
                             !.unread = @ \/ ~r.given,
                             !.crcOk = @ /\ r.data = StoredPart(
                                         cs.sectorCurrent - cs.sectorBegin + 1)]
                      ELSE [cs EXCEPT !.nextTask = "EndIteration"]
  <2>1. PICK r \in LinearRead(cs.sectorCurrent, Stale) :
          cs' = IF r.ok
                THEN [cs EXCEPT
                       !.sectorCurrent = @ + 1,
                       !.unread = @ \/ ~r.given,
                       !.crcOk = @ /\ r.data = StoredPart(
                                   cs.sectorCurrent - cs.sectorBegin + 1)]
                ELSE [cs EXCEPT !.nextTask = "EndIteration"]
    BY <1>3
  <2>2. r.ok /\ r.data = disk[cs.sectorCurrent]
    BY <2>1, ReadOk
  <2> DEFINE next   == cs.sectorCurrent + 1
             unread == cs.unread \/ ~r.given
             ok     == cs.crcOk /\ r.data = StoredPart(
                                   cs.sectorCurrent - cs.sectorBegin + 1)
  <2>3. cs' = [cs EXCEPT !.sectorCurrent = next, !.unread = unread,
                         !.crcOk = ok]
    BY <2>1, <2>2
  <2>4. ok => /\ cs.crcOk
              /\ disk[cs.sectorCurrent] = StoredPart(
                   cs.sectorCurrent - cs.sectorBegin + 1)
    BY <2>2
  <2> HIDE DEF unread, ok
  <2>5. /\ cs'.nextTask = "CheckElementData" /\ cs'.element = e
        /\ cs'.hasSlots = cs.hasSlots /\ cs'.stored = cs.stored
        /\ cs'.sectorBegin = cs.sectorBegin /\ cs'.sectorEnd = cs.sectorEnd
        /\ cs'.sectorCurrent = cs.sectorCurrent + 1
        /\ cs'.crcOk = ok
    BY <1>0, <1>1, <2>3 DEF CsType
  <2>6. DiskOK' /\ Ordered' /\ GonePast'
    BY <1>0, <1>1, <1>3, <2>5, GonePastStays, MirrorsStay
  <2>7. BeforeOK' /\ CopyOK' /\ PastOK'
    BY <2>5 DEF BeforeOK, BeforePlacing, CopyOK, PastOK
  <2>8. ReadOK'
    <3>1. SUFFICES ASSUME cs.hasSlots PROVE ReadOK'
      BY <2>5 DEF ReadOK
    <3>2. /\ Sealed(e) /\ cs.stored = slots[e] /\ Stored(e).file = cs.stored
          /\ cs.sectorBegin = Begin(e) /\ cs.sectorEnd = End(e)
          /\ cs.sectorBegin <= cs.sectorCurrent
          /\ cs.crcOk => Holds(cs.stored, cs.sectorBegin, cs.sectorCurrent - 1)
      BY <1>0, <1>1, <3>1 DEF ReadOK
    <3>3. cs.stored # NoFile
      <4>1. Stored(e).kind = "info"
        BY <3>2 DEF Sealed, Stored
      <4> QED BY <1>0, <3>2, <4>1, StoredFacts, CacheAssumption
    <3>4. ASSUME ok,
                 NEW q \in cs.sectorBegin .. cs.sectorCurrent + 1 - 1
          PROVE  q \in Sector /\ disk[q] = Data(cs.stored, q - cs.sectorBegin + 1)
      <4>1. CASE q = cs.sectorCurrent
        BY <1>3, <2>4, <3>3, <3>4, <4>1 DEF StoredPart
      <4>2. CASE q # cs.sectorCurrent
        <5>1. q \in cs.sectorBegin .. cs.sectorCurrent - 1
          BY <1>0, <3>4, <4>2 DEF CsType
        <5> QED BY <2>4, <3>2, <3>4, <5>1 DEF Holds
      <4> QED BY <4>1, <4>2
    <3>5. /\ cs'.sectorBegin <= cs'.sectorCurrent
          /\ cs'.sectorCurrent <= cs'.sectorEnd + 1
      BY <1>0, <2>5, <3>2 DEF CsType
    <3>6. /\ Sealed(e)' = Sealed(e) /\ Stored(e)' = Stored(e)
          /\ Begin(e)' = Begin(e) /\ End(e)' = End(e)
      BY <1>0, <1>3, MirrorsStay
    <3>7. cs'.crcOk => Holds(cs.stored, cs.sectorBegin, cs.sectorCurrent - 1)'
      BY <1>0, <1>3, <2>5, <3>4 DEF Holds, Sector, CsType
    <3> QED BY <1>0, <2>5, <3>2, <3>5, <3>6, <3>7
            DEF ReadOK, Sealed, Stored, Begin, End
  <2> QED BY <2>6, <2>7, <2>8 DEF CheckOK
<1> QED BY <1>0, <1>2, <1>3 DEF CheckElementData, Halt, InBounds

(* checkElementData, once all the data is read.                            *)
LEMMA CheckCrcMirrors ==
  ASSUME NEW m, SlotsStayApart, MirrorInv(m), CheckElementCrc
  PROVE  DiskOK' /\ Ordered' /\ CheckOK'
<1>0. /\ cs \in CsType /\ cs.nextTask = "CheckElementData"
      /\ TypeOK /\ TypeInv /\ DiskFits(m) /\ DiskOK /\ Ordered
      /\ CheckOK /\ GonePast /\ ReadOK
      /\ cs.element \in Slot
      /\ ~(cs.sectorCurrent <= cs.sectorEnd)
      /\ UNCHANGED <<disk, slots>>
  BY CacheAssumption
     DEF MirrorInv, CheckOK, TypeInv, TypeOK, CsType, CheckElementCrc, At,
         StagesOK, InSlot, Slot, environment, SectorsLeft
<1>1. PICK e \in Slot : e = cs.element
  BY <1>0
<1> DEFINE stage == IF cs.crcOk /\ cs.stored # NoFile
                    THEN "NextIteration" ELSE "EndIteration"
<1>2. Goto(stage) /\ stage \in {"NextIteration", "EndIteration"}
  BY DEF CheckElementCrc
<1>3. /\ cs'.nextTask = stage /\ cs'.element = cs.element
      /\ cs'.hasSlots = cs.hasSlots /\ cs'.sectorEnd = cs.sectorEnd
  <2> HIDE DEF stage
  <2> QED BY <1>0, <1>2, GotoType DEF Stage
<1>4. DiskOK' /\ Ordered' /\ GonePast'
  BY <1>0, <1>3, GonePastStays, MirrorsStay
<1>5. CASE stage = "EndIteration"
  BY <1>3, <1>4, <1>5, EndOK
<1>6. CASE stage = "NextIteration"
  <2>1. BeforeOK' /\ CopyOK' /\ ReadOK'
    BY <1>3, <1>6 DEF BeforeOK, BeforePlacing, CopyOK, ReadOK
  <2>2. PastOK'
    <3>1. SUFFICES ASSUME cs.hasSlots PROVE PastOK'
      BY <1>3 DEF PastOK
    <3>2. /\ Sealed(e) /\ cs.stored = slots[e] /\ Stored(e).file = cs.stored
          /\ cs.sectorBegin = Begin(e) /\ cs.sectorEnd = End(e)
          /\ cs.sectorCurrent = cs.sectorEnd + 1
          /\ Holds(cs.stored, cs.sectorBegin, cs.sectorEnd)
      <4>1. /\ cs.crcOk
            /\ cs.sectorCurrent = cs.sectorEnd + 1
            /\ cs.sectorCurrent - 1 = cs.sectorEnd
        BY <1>0, <1>6, <3>1 DEF ReadOK, CsType
      <4>2. Holds(cs.stored, cs.sectorBegin, cs.sectorCurrent - 1)
        BY <1>0, <3>1, <4>1 DEF ReadOK
      <4>3. Holds(cs.stored, cs.sectorBegin, cs.sectorEnd)
        BY <4>1, <4>2 DEF Holds
      <4> QED BY <1>0, <1>1, <3>1, <4>1, <4>3 DEF ReadOK
    <3>3. Stored(e).kind = "info" /\ Stored(e).sealed
      BY <3>2 DEF Sealed, Stored
    <3>4. Mirrors(e)
      BY <3>2, <3>3, IntactMeans DEF Mirrors, Begin, End, Stored
    <3>5. Mirrors(e)' /\ End(e)' = End(e)
      BY <1>0, <3>4, MirrorsStay
    <3> QED BY <1>1, <1>3, <3>2, <3>5
            DEF PastOK, Mirrors, Intact, Sealed, Begin, End, Stored
  <2> QED BY <1>4, <2>1, <2>2 DEF CheckOK
<1> QED BY <1>2, <1>5, <1>6

(* writeSector0.                                                           *)
LEMMA HeadMirrors ==
  ASSUME NEW m, SlotsStayApart, MirrorInv(m), WriteSector0
  PROVE  DiskOK' /\ Ordered' /\ CheckOK'
<1>0. /\ cs \in CsType
      /\ TypeOK /\ TypeInv /\ DiskFits(m) /\ DiskOK /\ Ordered /\ GonePast
      /\ Goto("Done") /\ UNCHANGED slots
      /\ 0 \in Sector
  BY VolumeAssumption
     DEF MirrorInv, CheckOK, TypeInv, TypeOK, CsType, WriteSector0,
         environment, Sector
<1>1. PICK h : h = HeadSector(version, cs.element)
  OBVIOUS
<1>2. h.kind = "head" /\ Junk.kind = "junk"
  BY <1>1, CacheAssumption DEF HeadSector
<1>3. PICK w \in LinearWrite(0, h) : disk' = w.disk
  BY <1>1 DEF WriteSector0
<1>4. PICK c \in {disk[0], h, Junk} : disk' = [disk EXCEPT ![0] = c]
  <2>1. disk \in [Sector -> Content]
    BY <1>0 DEF TypeOK
  <2>2. PICK c \in {disk[0], h, Junk} : w.disk = [disk EXCEPT ![0] = c]
    BY <2>1, WriteGives
  <2> QED BY <1>3, <2>2
<1>5. /\ cs'.nextTask = "Done" /\ cs'.element = cs.element
      /\ cs'.hasSlots = cs.hasSlots
  BY <1>0, GotoType DEF Stage
<1>6. DiskOK'
  BY <1>0, <1>2, <1>4, DiskKept DEF InfoOK
<1>7. Ordered'
  <2>1. \/ c = disk[0]
        \/ ~(c.kind = "info" /\ c.sealed) /\ \A f, n : c # Data(f, n)
    BY <1>2, <1>4, DataRecord
  <2> QED BY <1>0, <1>4, <2>1, NothingNew, OrderedKept
<1>8. GonePast'
  <2>1. ASSUME NEW k \in Slot, Mirrors(k)
        PROVE  Mirrors(k)'
    <3>1. 0 # InfoSector(k) /\ 0 \notin Begin(k) .. End(k)
      BY <1>0, <2>1, InfoSectors, IntactFacts DEF Mirrors
    <3> QED BY <1>0, <1>4, <2>1, <3>1, MirrorsKept
  <2> QED BY <1>0, <1>5, <2>1 DEF GonePast, Slot
<1> QED BY <1>5, <1>6, <1>7, <1>8, EndOK

(* The steps that only move on.                                            *)
LEMMA OtherMirrors ==
  ASSUME NEW m, SlotsStayApart, MirrorInv(m),
         \/ Start \/ ReadSector0 \/ BeginIteration \/ ReadSlot
         \/ NextIteration \/ EndIteration
  PROVE  DiskOK' /\ Ordered' /\ CheckOK'
<1>0. /\ cs \in CsType
      /\ TypeOK /\ TypeInv /\ StagesOK /\ DiskFits(m) /\ DiskOK /\ Ordered
      /\ CheckFits(m) /\ GonePast /\ BeforeOK /\ PastOK
      /\ UNCHANGED <<disk, slots>>
  <2>1. UNCHANGED <<disk, slots>>
    BY DEF Start, ReadSector0, BeginIteration, ReadSlot, NextIteration,
           EndIteration, environment
  <2> QED BY <2>1 DEF MirrorInv, CheckOK, TypeInv, TypeOK, CsType
<1>1. DiskOK' /\ Ordered' /\ \A k : LastEnd(k)' = LastEnd(k)
  BY <1>0, MirrorsStay
<1>2. ASSUME NEW stage \in BeforePlacing, cs.nextTask \in BeforePlacing,
             stage \notin {"CheckElementInfo", "SlotToElementInfo"},
             cs'.nextTask = stage, cs'.element = cs.element,
             cs'.hasSlots = cs.hasSlots, cs'.sectorEnd = cs.sectorEnd
      PROVE  CheckOK'
  <2>1. GonePast'
    BY <1>0, <1>2, GonePastStays
  <2>2. BeforeOK'
    BY <1>0, <1>2 DEF BeforeOK, BeforePlacing, LastEnd, End, InfoSector
  <2> QED BY <1>2, <2>1, <2>2 DEF CheckOK, CopyOK, ReadOK, PastOK, BeforePlacing
<1>3. ASSUME NEW stage \in {"EndIteration", "WriteSector0", "Done"},
             Goto(stage)
      PROVE  CheckOK'
  <2>1. /\ cs'.nextTask = stage /\ cs'.element = cs.element
        /\ cs'.hasSlots = cs.hasSlots
    BY <1>0, <1>3, GotoType DEF Stage
  <2>2. GonePast'
    BY <1>0, <2>1, GonePastStays
  <2> QED BY <2>1, <2>2, EndOK
<1>4. CASE Start
  <2>1. /\ cs'.nextTask \in {"ReadSector0", "Done"} /\ cs'.element = 0
        /\ cs'.sectorEnd = 0
    BY <1>0, <1>4 DEF Start, At, CsType, CheckFits, StagesOK
  <2>2. GonePast'
    BY <2>1, CacheAssumption DEF GonePast, Slot
  <2>3. BeforeOK'
    BY <2>1 DEF BeforeOK, BeforePlacing, LastEnd
  <2> QED BY <1>1, <2>1, <2>2, <2>3 DEF CheckOK, CopyOK, ReadOK, PastOK
<1>5. CASE ReadSector0
  <2>1. At("ReadSector0")
    BY <1>5 DEF ReadSector0
  <2>2. CASE Goto("Done")
    BY <1>1, <1>3, <2>2
  <2>3. ASSUME NEW count, NEW write, NEW stage \in {"Done", "BeginIteration"},
               cs' = [cs EXCEPT !.elementCount = count,
                                !.writeSector0 = write, !.nextTask = stage]
        PROVE  CheckOK'
    <3>1. /\ cs'.nextTask = stage /\ cs'.element = cs.element
          /\ cs'.hasSlots = cs.hasSlots /\ cs'.sectorEnd = cs.sectorEnd
      BY <1>0, <2>3 DEF CsType
    <3>2. GonePast'
      BY <1>0, <3>1, GonePastStays
    <3>3. CASE stage = "Done"
      BY <3>1, <3>2, <3>3, EndOK
    <3>4. CASE stage = "BeginIteration"
      BY <1>2, <2>1, <3>1, <3>4 DEF At, BeforePlacing
    <3> QED BY <3>3, <3>4
  <2>4. CASE \E r \in LinearRead(0, {Junk}) :
               LET isHead == r.data.kind = "head"
                   count  == IF isHead THEN r.data.count ELSE 0
                   checks == isHead /\ r.data.version = version
               IN  cs' = [cs EXCEPT
                     !.elementCount = count,
                     !.writeSector0 = cs.hasSlots /\ ~checks,
                     !.nextTask = IF ~cs.hasSlots /\ count = 0
                                  THEN "Done" ELSE "BeginIteration"]
    BY <1>1, <2>3, <2>4
  <2> QED BY <1>5, <2>2, <2>4 DEF ReadSector0
<1>6. CASE BeginIteration
  <2>1. /\ cs.nextTask = "BeginIteration"
        /\ cs'.nextTask = IF cs.hasSlots THEN "ReadSlot" ELSE "CheckElementInfo"
        /\ cs'.element = cs.element
        /\ cs'.hasSlots = cs.hasSlots /\ cs'.sectorEnd = cs.sectorEnd
    BY <1>0, <1>6 DEF BeginIteration, At, Goto, CsType
  <2>2. CASE cs.hasSlots
    BY <1>1, <1>2, <2>1, <2>2 DEF BeforePlacing
  <2>3. CASE ~cs.hasSlots
    BY <1>1, <2>1, <2>3
       DEF CheckOK, GonePast, BeforeOK, CopyOK, ReadOK, PastOK
  <2> QED BY <2>2, <2>3
<1>7. CASE ReadSlot
  <2>1. CASE Goto("EndIteration")
    BY <1>1, <1>3, <2>1
  <2>2. CASE /\ SlotFile(cs.element) # NoFile
             /\ cs' = [cs EXCEPT
                        !.fno = SlotFile(cs.element),
                        !.nextTask = IF cs.element < cs.elementCount
                                     THEN "CheckElementInfo"
                                     ELSE "SlotToElementInfo"]
    <3>1. /\ cs.nextTask = "ReadSlot"
          /\ cs'.nextTask \in {"CheckElementInfo", "SlotToElementInfo"}
          /\ cs'.element = cs.element /\ cs'.fno = SlotFile(cs.element)
          /\ cs'.hasSlots = cs.hasSlots /\ cs'.sectorEnd = cs.sectorEnd
      BY <1>0, <1>7, <2>2 DEF ReadSlot, At, CsType
    <3>2. SlotFile(cs.element) = slots[cs.element]
      BY <2>2 DEF SlotFile
    <3>3. GonePast'
      BY <1>0, <3>1, GonePastStays
    <3>4. BeforeOK'
      BY <1>0, <3>1, <3>2 DEF BeforeOK, BeforePlacing, LastEnd, End, InfoSector
    <3> QED BY <1>1, <3>1, <3>3, <3>4 DEF CheckOK, CopyOK, ReadOK, PastOK
  <2> QED BY <1>7, <2>1, <2>2 DEF ReadSlot
<1>8. CASE NextIteration
  <2>1. /\ cs.nextTask = "NextIteration"
        /\ cs.element \in Slot
        /\ cs'.nextTask = IF MoreElements THEN "BeginIteration"
                                          ELSE "EndIteration"
        /\ cs'.element = cs.element + 1
        /\ cs'.hasSlots = cs.hasSlots /\ cs'.sectorEnd = cs.sectorEnd
    BY <1>0, <1>8, CacheAssumption
       DEF NextIteration, At, CsType, StagesOK, InSlot, Slot
  <2>2. PICK e \in Slot : e = cs.element
    BY <2>1
  <2>3. cs.hasSlots => Mirrors(e) /\ cs.sectorEnd = End(e)
    BY <1>0, <2>1, <2>2 DEF PastOK
  <2>4. GonePast'
    <3>1. ASSUME cs.hasSlots, NEW k \in Slot, k < e + 1
          PROVE  Mirrors(k)'
      <4>1. k = e \/ k < e
        BY <3>1, CacheAssumption DEF Slot
      <4>2. Mirrors(k)
        BY <1>0, <2>2, <2>3, <3>1, <4>1 DEF GonePast
      <4> QED BY <1>0, <4>2, MirrorsStay
    <3> QED BY <2>1, <2>2, <3>1 DEF GonePast, Slot
  <2>5. CASE cs.hasSlots
    <3>1. cs'.nextTask = "BeginIteration"
      BY <2>1, <2>5 DEF MoreElements
    <3>2. LastEnd(e + 1)' = End(e)
      <4>1. e \in Nat /\ e + 1 # 0
        BY CacheAssumption DEF Slot
      <4>2. LastEnd(e + 1) = End(e)
        BY <4>1, VolumeAssumption DEF LastEnd, End, InfoSector
      <4> QED BY <1>1, <4>2
    <3>3. BeforeOK'
      BY <2>1, <2>2, <2>3, <2>5, <3>1, <3>2
         DEF BeforeOK, BeforePlacing, LastEnd, End, InfoSector
    <3> QED BY <1>1, <2>4, <3>1, <3>3 DEF CheckOK, CopyOK, ReadOK, PastOK
  <2>6. CASE ~cs.hasSlots
    BY <1>1, <2>1, <2>4, <2>6 DEF CheckOK, BeforeOK, CopyOK, ReadOK, PastOK
  <2> QED BY <2>5, <2>6
<1>9. CASE EndIteration
  <2> DEFINE stage == IF cs.writeSector0 THEN "WriteSector0" ELSE "Done"
  <2>1. stage \in {"EndIteration", "WriteSector0", "Done"} /\ Goto(stage)
    BY <1>9 DEF EndIteration
  <2> HIDE DEF stage
  <2> QED BY <1>1, <1>3, <2>1
<1> QED BY <1>4, <1>5, <1>6, <1>7, <1>8, <1>9

(***************************************************************************)
(* Every step keeps what is known of the partition and of the elements.    *)
(***************************************************************************)
LEMMA NextMirrors ==
  ASSUME NEW m, SlotsFit(m), SlotsStayApart, MirrorInv(m), [Next]_vars
  PROVE  DiskOK' /\ Ordered' /\ CheckOK'
<1>0. /\ TypeOK /\ TypeInv /\ StagesOK /\ DiskFits(m) /\ DiskOK /\ Ordered
      /\ CheckOK /\ BootOK
  BY DEF MirrorInv, TypeInv
<1>1. CASE ProcessNextTask
  BY <1>1, PlaceMirrors, CopyMirrors, SealMirrors, CheckInfoMirrors,
     CheckDataMirrors, CheckCrcMirrors, HeadMirrors, OtherMirrors
     DEF ProcessNextTask
<1>2. ASSUME NEW skip \in BOOLEAN, cs' = FreshState(skip)
      PROVE  CheckOK'
  <2>1. cs'.nextTask = "Start" /\ cs'.hasSlots = FALSE
    BY <1>2, FreshType
  <2> QED BY <2>1 DEF CheckOK, GonePast, BeforeOK, CopyOK, ReadOK, PastOK
<1>3. ASSUME NEW boot \in Boots, PowerOn(boot)
      PROVE  DiskOK' /\ Ordered' /\ CheckOK'
  <2>1. boot.skip \in BOOLEAN
    BY CacheAssumption
  <2> QED BY <1>0, <1>2, <1>3, <2>1, MirrorsStay DEF PowerOn
<1>4. CASE PowerOff
  <2>1. CheckOK' /\ UNCHANGED slots
    BY <1>2, <1>4 DEF PowerOff
  <2>2. CASE UNCHANGED disk
    BY <1>0, <2>1, <2>2, MirrorsStay
  <2>3. ASSUME NEW s \in InFlight, disk' = [disk EXCEPT ![s] = Junk]
        PROVE  DiskOK' /\ Ordered'
    <3>1. Junk.kind = "junk" /\ disk \in [Sector -> Content]
      BY <1>0, CacheAssumption DEF TypeOK
    <3>2. DiskOK'
      BY <1>0, <2>3, <3>1, DiskKept DEF InfoOK
    <3>3. CASE s \in Sector
      <4>1. /\ ~(Junk.kind = "info" /\ Junk.sealed)
            /\ \A f, n : Junk # Data(f, n)
        BY <3>1, DataRecord
      <4> QED BY <1>0, <2>3, <3>2, <3>3, <4>1, NothingNew, OrderedKept
    <3>4. CASE s \notin Sector
      <4>1. disk' = disk
        BY <2>3, <3>1, <3>4
      <4> QED BY <1>0, <2>1, <3>2, <4>1, MirrorsStay
    <3> QED BY <3>3, <3>4
  <2> QED BY <1>4, <2>1, <2>2, <2>3 DEF PowerOff
<1>5. ASSUME NEW e \in Slot, NEW f \in File \cup {NoFile}, EditSlot(e, f)
      PROVE  DiskOK' /\ Ordered' /\ CheckOK'
  <2>1. ~cs.hasSlots /\ UNCHANGED <<disk, cs>>
    BY <1>0, <1>5 DEF EditSlot, BootOK
  <2>2. cs.nextTask # "SlotToElementData"
    BY <1>0, <2>1 DEF StagesOK
  <2>3. CheckOK'
    BY <2>1, <2>2 DEF CheckOK, GonePast, BeforeOK, CopyOK, ReadOK, PastOK
  <2> QED BY <1>0, <2>1, <2>3
          DEF DiskOK, InfoOK, Ordered, Intact, Sealed, Begin, End,
              InfoSector, Sector, Slot
<1>6. ASSUME NEW v \in Version, UpgradeFirmware(v)
      PROVE  DiskOK' /\ Ordered' /\ CheckOK'
  BY <1>0, <1>6, AllStays DEF UpgradeFirmware
<1>7. CASE UNCHANGED vars
  BY <1>0, <1>7, AllStays DEF vars
<1> QED BY <1>1, <1>3, <1>4, <1>5, <1>6, <1>7 DEF Next

(* A step to a stage in the middle of the check, of element n from then on.*)
Midway == Stage \ {"Start", "ReadSector0", "Done"}

Moves(n) ==
  /\ board = "On" /\ UNCHANGED <<board, environment>>
  /\ cs.nextTask # "Done" /\ cs'.nextTask \in Midway
  /\ cs'.skipElementDataCheck = cs.skipElementDataCheck
  /\ cs'.hasSlots = cs.hasSlots
  /\ cs'.element = n

(* A step that moves on, or fails an assertion.                            *)
MovesOrHalts(n) == Moves(n) \/ (Halt /\ UNCHANGED environment)

LEMMA MidwayBoot ==
  ASSUME BootOK, NEW n, MovesOrHalts(n)
  PROVE  BootOK'
BY DEF BootOK, Midway, Moves, MovesOrHalts, Halt, environment

LEMMA GotoMoves ==
  ASSUME cs \in CsType, board = "On", UNCHANGED <<board, environment>>,
         cs.nextTask # "Done", NEW stage \in Midway, Goto(stage)
  PROVE  Moves(cs.element)
BY DEF Goto, CsType, Moves

(* The steps about one element.                                            *)
LEMMA ElementMoves ==
  ASSUME cs \in CsType,
         \/ SlotToElementInfo \/ SlotToElementData \/ SealElement
         \/ CheckElementInfo \/ CheckElementData \/ CheckElementCrc
         \/ BeginIteration \/ ReadSlot
  PROVE  MovesOrHalts(cs.element)
<1>1. ASSUME UNCHANGED environment, Halt
      PROVE  MovesOrHalts(cs.element)
  BY <1>1 DEF MovesOrHalts
<1>2. CASE SlotToElementInfo
  <2>1. ASSUME NEW stage \in Midway,
               cs' = [Placed EXCEPT !.nextTask = stage]
        PROVE  /\ cs'.skipElementDataCheck = cs.skipElementDataCheck
               /\ cs'.hasSlots = cs.hasSlots /\ cs'.nextTask = stage
               /\ cs'.element = cs.element
    BY <2>1 DEF Placed, CsType
  <2>2. \/ Halt /\ UNCHANGED environment
        \/ /\ \E stage \in Midway : cs' = [Placed EXCEPT !.nextTask = stage]
           /\ UNCHANGED <<board, environment>>
           /\ board = "On" /\ cs.nextTask # "Done"
    BY <1>2 DEF SlotToElementInfo, At, environment, Midway, Stage
  <2> QED BY <1>1, <2>1, <2>2 DEF Moves, MovesOrHalts
<1>3. CASE SlotToElementData
  <2>1. ASSUME NEW next, cs' = [cs EXCEPT !.sectorCurrent = next]
        PROVE  /\ cs'.skipElementDataCheck = cs.skipElementDataCheck
               /\ cs'.hasSlots = cs.hasSlots /\ cs'.nextTask = cs.nextTask
               /\ cs'.element = cs.element
    BY <2>1 DEF CsType
  <2>2. \/ Halt /\ UNCHANGED environment
        \/ /\ \/ Goto("EndIteration")
              \/ \E next : cs' = [cs EXCEPT !.sectorCurrent = next]
           /\ cs.nextTask = "SlotToElementData"
           /\ UNCHANGED <<board, environment>> /\ board = "On"
    BY <1>3 DEF SlotToElementData, At, environment, Goto
  <2> QED BY <1>1, <2>1, <2>2, GotoMoves DEF Midway, Stage, Moves, MovesOrHalts
<1>4. ASSUME NEW stage \in Midway, Goto(stage), board = "On",
             cs.nextTask # "Done", UNCHANGED <<board, environment>>
      PROVE  MovesOrHalts(cs.element)
  BY <1>4, GotoMoves DEF MovesOrHalts
<1>5. CASE SealElement
  <2>1. /\ \E stage \in Midway : Goto(stage)
        /\ UNCHANGED <<board, environment>>
        /\ board = "On" /\ cs.nextTask # "Done"
    BY <1>5 DEF SealElement, At, environment, Midway, Stage
  <2> QED BY <1>4, <2>1
<1>6. CASE CheckElementInfo
  <2>1. ASSUME NEW c, NEW begin, NEW end, NEW stored, At("CheckElementInfo"),
               UNCHANGED environment, UseElementInfo(c, begin, end, stored)
        PROVE  MovesOrHalts(cs.element)
    <3>1. ASSUME NEW stage \in Midway, NEW z, NEW write,
                 cs' = [Loaded(begin, end, stored) EXCEPT
                         !.sectorEnd = z, !.writeSector0 = write,
                         !.nextTask = stage]
          PROVE  /\ cs'.skipElementDataCheck = cs.skipElementDataCheck
                 /\ cs'.hasSlots = cs.hasSlots /\ cs'.nextTask = stage
                 /\ cs'.element = cs.element
      BY <3>1 DEF Loaded, CsType
    <3>2. ASSUME NEW stage \in Midway,
                 cs' = [Loaded(begin, end, stored) EXCEPT !.nextTask = stage]
          PROVE  /\ cs'.skipElementDataCheck = cs.skipElementDataCheck
                 /\ cs'.hasSlots = cs.hasSlots /\ cs'.nextTask = stage
                 /\ cs'.element = cs.element
      BY <3>2 DEF Loaded, CsType
    <3>3. CASE Halt
      BY <1>1, <2>1, <3>3
    <3>4. CASE ~Halt
      <4>1. /\ UNCHANGED <<board, environment>>
            /\ board = "On" /\ cs.nextTask # "Done"
        BY <2>1, <3>4 DEF UseElementInfo, At
      <4>2. \/ \E stage \in Midway : \E z, write :
                 cs' = [Loaded(begin, end, stored) EXCEPT
                         !.sectorEnd = z, !.writeSector0 = write,
                         !.nextTask = stage]
            \/ \E stage \in Midway :
                 cs' = [Loaded(begin, end, stored) EXCEPT !.nextTask = stage]
        BY <2>1, <3>4 DEF UseElementInfo, Midway, Stage
      <4>3. /\ cs'.skipElementDataCheck = cs.skipElementDataCheck
            /\ cs'.hasSlots = cs.hasSlots /\ cs'.nextTask \in Midway
            /\ cs'.element = cs.element
        <5>1. CASE \E stage \in Midway : \E z, write :
                     cs' = [Loaded(begin, end, stored) EXCEPT
                             !.sectorEnd = z, !.writeSector0 = write,
                             !.nextTask = stage]
          BY <3>1, <5>1
        <5>2. CASE \E stage \in Midway :
                     cs' = [Loaded(begin, end, stored) EXCEPT
                             !.nextTask = stage]
          BY <3>2, <5>2
        <5> QED BY <4>2, <5>1, <5>2
      <4> QED BY <4>1, <4>3 DEF Moves, MovesOrHalts
    <3> QED BY <3>3, <3>4
  <2>2. CASE /\ \E stage \in Midway : Goto(stage)
             /\ At("CheckElementInfo") /\ UNCHANGED <<board, environment>>
    BY <1>4, <2>2 DEF At
  <2> QED BY <1>6, <2>1, <2>2 DEF CheckElementInfo, Midway, Stage
<1>7. CASE CheckElementData
  <2>1. ASSUME NEW next, NEW unread, NEW ok,
               cs' = [cs EXCEPT !.sectorCurrent = next, !.unread = unread,
                                !.crcOk = ok]
        PROVE  /\ cs'.skipElementDataCheck = cs.skipElementDataCheck
               /\ cs'.hasSlots = cs.hasSlots /\ cs'.nextTask = cs.nextTask
               /\ cs'.element = cs.element
    BY <2>1 DEF CsType
  <2>2. /\ cs.nextTask = "CheckElementData"
        /\ Halt \/ UNCHANGED board
        /\ UNCHANGED environment /\ board = "On"
    BY <1>7 DEF CheckElementData, At
  <2>3. CASE Halt
    BY <1>1, <2>2, <2>3
  <2>4. CASE ~Halt
    <3>1. PICK r \in LinearRead(cs.sectorCurrent, Stale) :
            cs' = IF r.ok
                  THEN [cs EXCEPT
                         !.sectorCurrent = @ + 1,
                         !.unread = @ \/ ~r.given,
                         !.crcOk = @ /\ r.data = StoredPart(
                                     cs.sectorCurrent - cs.sectorBegin + 1)]
                  ELSE [cs EXCEPT !.nextTask = "EndIteration"]
      BY <1>7, <2>4 DEF CheckElementData
    <3>2. UNCHANGED <<board, environment>>
      BY <2>2, <2>4
    <3>3. CASE ~r.ok
      BY <1>4, <2>2, <3>1, <3>2, <3>3 DEF Goto, Midway, Stage
    <3>4. CASE r.ok
      <4> DEFINE next   == cs.sectorCurrent + 1
                 unread == cs.unread \/ ~r.given
                 ok     == cs.crcOk /\ r.data = StoredPart(
                             cs.sectorCurrent - cs.sectorBegin + 1)
      <4>1. cs' = [cs EXCEPT !.sectorCurrent = next, !.unread = unread,
                             !.crcOk = ok]
        BY <3>1, <3>4
      <4> HIDE DEF next, unread, ok
      <4> QED BY <2>1, <2>2, <3>2, <4>1 DEF Midway, Stage, Moves, MovesOrHalts
    <3> QED BY <3>3, <3>4
  <2> QED BY <2>3, <2>4
<1>8. CASE CheckElementCrc
  <2>1. /\ \E stage \in Midway : Goto(stage)
        /\ UNCHANGED <<board, environment>>
        /\ board = "On" /\ cs.nextTask # "Done"
    BY <1>8 DEF CheckElementCrc, At, environment, Midway, Stage
  <2> QED BY <1>4, <2>1
<1>9. CASE BeginIteration
  <2>1. /\ \E stage \in Midway : Goto(stage)
        /\ UNCHANGED <<board, environment>>
        /\ board = "On" /\ cs.nextTask # "Done"
    BY <1>9 DEF BeginIteration, At, environment, Midway, Stage
  <2> QED BY <1>4, <2>1
<1>10. CASE ReadSlot
  <2>1. ASSUME NEW f, NEW stage \in Midway,
               cs' = [cs EXCEPT !.fno = f, !.nextTask = stage]
        PROVE  /\ cs'.skipElementDataCheck = cs.skipElementDataCheck
               /\ cs'.hasSlots = cs.hasSlots /\ cs'.nextTask = stage
               /\ cs'.element = cs.element
    BY <2>1 DEF CsType
  <2>2. /\ \/ \E stage \in Midway : Goto(stage)
           \/ \E f : \E stage \in Midway :
                cs' = [cs EXCEPT !.fno = f, !.nextTask = stage]
        /\ UNCHANGED <<board, environment>>
        /\ board = "On" /\ cs.nextTask # "Done"
    BY <1>10 DEF ReadSlot, At, environment, Midway, Stage
  <2> QED BY <1>4, <2>1, <2>2 DEF Moves, MovesOrHalts
<1> QED BY <1>2, <1>3, <1>5, <1>6, <1>7, <1>8, <1>9, <1>10

LEMMA NextElementMoves ==
  ASSUME cs \in CsType, NextIteration
  PROVE  /\ Moves(cs.element + 1)
         /\ cs.nextTask = "NextIteration" /\ UNCHANGED disk
<1>1. /\ cs'.skipElementDataCheck = cs.skipElementDataCheck
      /\ cs'.hasSlots = cs.hasSlots /\ cs'.element = cs.element + 1
      /\ cs'.nextTask \in {"BeginIteration", "EndIteration"}
  BY DEF NextIteration, CsType
<1> QED BY <1>1 DEF NextIteration, At, environment, Midway, Stage, Moves

(* endIteration and writeSector0.                                          *)
LEMMA LastStages ==
  ASSUME cs \in CsType, EndIteration \/ WriteSector0
  PROVE  /\ board = "On" /\ UNCHANGED <<board, environment>>
         /\ cs.nextTask # "Done"
         /\ cs'.skipElementDataCheck = cs.skipElementDataCheck
         /\ cs'.hasSlots = cs.hasSlots /\ cs'.element = cs.element
         /\ cs'.writeSector0 = cs.writeSector0
         /\ EndIteration => cs'.nextTask = IF cs.writeSector0
                                           THEN "WriteSector0" ELSE "Done"
         /\ WriteSector0 => cs'.nextTask = "Done" /\ published' = cs.element
<1>1. CASE EndIteration
  <2>1. /\ cs'.skipElementDataCheck = cs.skipElementDataCheck
        /\ cs'.hasSlots = cs.hasSlots /\ cs'.element = cs.element
        /\ cs'.writeSector0 = cs.writeSector0
        /\ cs'.nextTask = IF cs.writeSector0 THEN "WriteSector0" ELSE "Done"
    BY <1>1 DEF EndIteration, Goto, CsType
  <2> QED BY <1>1, <2>1 DEF EndIteration, WriteSector0, At, environment
<1>2. CASE WriteSector0
  <2>1. /\ cs'.skipElementDataCheck = cs.skipElementDataCheck
        /\ cs'.hasSlots = cs.hasSlots /\ cs'.element = cs.element
        /\ cs'.writeSector0 = cs.writeSector0 /\ cs'.nextTask = "Done"
    BY <1>2 DEF WriteSector0, Goto, CsType
  <2> QED BY <1>2, <2>1 DEF EndIteration, WriteSector0, At, environment
<1> QED BY <1>1, <1>2

(* start.                                                                  *)
LEMMA StartStage ==
  ASSUME cs \in CsType, Start
  PROVE  /\ board = "On" /\ UNCHANGED <<board, environment, disk>>
         /\ cs.nextTask = "Start"
         /\ cs'.skipElementDataCheck = cs.skipElementDataCheck
         /\ cs'.hasSlots = ("FatFsDrive0" \in volumes)
         /\ cs'.writeSector0 = cs.writeSector0
         /\ cs'.element = cs.element
         /\ "LinearCache" \in volumes => cs'.nextTask = "ReadSector0"
BY DEF Start, At, CsType, environment

(* readSector0.                                                            *)
LEMMA HeadStage ==
  ASSUME cs \in CsType, ReadSector0
  PROVE  /\ board = "On" /\ UNCHANGED <<board, environment, disk>>
         /\ cs.nextTask = "ReadSector0"
         /\ cs'.skipElementDataCheck = cs.skipElementDataCheck
         /\ cs'.hasSlots = cs.hasSlots /\ cs'.element = cs.element
         /\ cs'.nextTask \in {"Done", "BeginIteration"}
         /\ cs'.nextTask = "Done" => cs'.writeSector0 = cs.writeSector0
                                     \/ ~cs.hasSlots
<1>1. /\ cs.nextTask = "ReadSector0" /\ board = "On"
      /\ UNCHANGED <<board, environment, disk>>
  BY DEF ReadSector0, At, environment
<1>2. CASE Goto("Done")
  <2>1. /\ cs'.skipElementDataCheck = cs.skipElementDataCheck
        /\ cs'.hasSlots = cs.hasSlots /\ cs'.nextTask = "Done"
        /\ cs'.writeSector0 = cs.writeSector0 /\ cs'.element = cs.element
    BY <1>2 DEF Goto, CsType
  <2> QED BY <1>1, <2>1
<1>3. ASSUME NEW count, NEW write, NEW stage \in {"Done", "BeginIteration"},
             cs' = [cs EXCEPT !.elementCount = count,
                              !.writeSector0 = write, !.nextTask = stage]
      PROVE  /\ cs'.skipElementDataCheck = cs.skipElementDataCheck
             /\ cs'.hasSlots = cs.hasSlots /\ cs'.nextTask = stage
             /\ cs'.element = cs.element
  BY <1>3 DEF CsType
<1>4. CASE \E r \in LinearRead(0, {Junk}) :
             LET isHead == r.data.kind = "head"
                 count  == IF isHead THEN r.data.count ELSE 0
                 checks == isHead /\ r.data.version = version
             IN  cs' = [cs EXCEPT
                   !.elementCount = count,
                   !.writeSector0 = cs.hasSlots /\ ~checks,
                   !.nextTask = IF ~cs.hasSlots /\ count = 0
                                THEN "Done" ELSE "BeginIteration"]
  <2>1. PICK r \in LinearRead(0, {Junk}) :
             LET isHead == r.data.kind = "head"
                 count  == IF isHead THEN r.data.count ELSE 0
                 checks == isHead /\ r.data.version = version
             IN  cs' = [cs EXCEPT
                   !.elementCount = count,
                   !.writeSector0 = cs.hasSlots /\ ~checks,
                   !.nextTask = IF ~cs.hasSlots /\ count = 0
                                THEN "Done" ELSE "BeginIteration"]
    BY <1>4
  <2> DEFINE isHead == r.data.kind = "head"
             count  == IF isHead THEN r.data.count ELSE 0
             write  == cs.hasSlots /\ ~(isHead /\ r.data.version = version)
             stage  == IF ~cs.hasSlots /\ count = 0
                       THEN "Done" ELSE "BeginIteration"
  <2>2. cs' = [cs EXCEPT !.elementCount = count, !.writeSector0 = write,
                         !.nextTask = stage]
    BY <2>1
  <2>3. stage \in {"Done", "BeginIteration"} /\ (stage = "Done" => ~cs.hasSlots)
    OBVIOUS
  <2> HIDE DEF count, write, stage
  <2>4. /\ cs'.skipElementDataCheck = cs.skipElementDataCheck
        /\ cs'.hasSlots = cs.hasSlots /\ cs'.nextTask = stage
        /\ cs'.element = cs.element
    BY <1>3, <2>2, <2>3
  <2> QED BY <1>1, <2>3, <2>4
<1> QED BY <1>2, <1>4 DEF ReadSector0

(* A boot that checks slots checks their data, and publishes the count it  *)
(* wrote to sector 0 when it rebuilt it.                                   *)
LEMMA NextBoot ==
  ASSUME NEW m, SlotsStayApart, MirrorInv(m), [Next]_vars
  PROVE  BootOK'
<1>0. cs \in CsType /\ BootOK
  BY DEF MirrorInv, TypeInv, TypeOK, CsType
<1>1. CASE Start
  BY <1>0, <1>1, StartStage DEF BootOK, environment
<1>2. CASE ReadSector0
  BY <1>0, <1>2, HeadStage DEF BootOK, environment
<1>3. CASE EndIteration \/ WriteSector0
  BY <1>0, <1>3, LastStages DEF BootOK, environment
<1>4. CASE NextIteration
  BY <1>0, <1>4, NextElementMoves, MidwayBoot DEF MovesOrHalts
<1>5. ASSUME NEW skip \in BOOLEAN, cs' = FreshState(skip),
             skip => "FatFsDrive0" \notin volumes'
      PROVE  BootOK'
  <2>1. /\ cs'.skipElementDataCheck = skip /\ cs'.hasSlots = FALSE
        /\ cs'.writeSector0 = FALSE
    BY <1>5 DEF FreshState
  <2> QED BY <1>5, <2>1 DEF BootOK
<1>6. ASSUME NEW boot \in Boots, PowerOn(boot)
      PROVE  BootOK'
  <2>1. boot.skip \in BOOLEAN /\ (boot.skip => "FatFsDrive0" \notin boot.roles)
    BY CacheAssumption DEF SlotsStayApart
  <2> QED BY <1>5, <1>6, <2>1 DEF PowerOn
<1>7. CASE PowerOff
  BY <1>5, <1>7 DEF PowerOff
<1>8. CASE UNCHANGED <<board, volumes, cs, published>>
  BY <1>0, <1>8 DEF BootOK
<1>9. CASE \/ SlotToElementInfo \/ SlotToElementData \/ SealElement
           \/ CheckElementInfo \/ CheckElementData \/ CheckElementCrc
           \/ BeginIteration \/ ReadSlot
  BY <1>0, <1>9, ElementMoves, MidwayBoot
<1> QED BY <1>1, <1>2, <1>3, <1>4, <1>6, <1>7, <1>8, <1>9
        DEF Next, ProcessNextTask, EditSlot, UpgradeFirmware, vars

LEMMA NextSlots ==
  ASSUME SlotsOK, TypeOK, [Next]_vars
  PROVE  SlotsOK'
<1>1. CASE UNCHANGED slots
  BY <1>1 DEF SlotsOK, Slot
<1>2. ASSUME NEW e \in Slot, NEW f \in File \cup {NoFile}, EditSlot(e, f)
      PROVE  SlotsOK'
  BY <1>2 DEF EditSlot, SlotsOK, TypeOK, Slot
<1>3. CASE ProcessNextTask
  BY <1>1, <1>3
     DEF ProcessNextTask, Start, ReadSector0, BeginIteration, ReadSlot,
         SlotToElementInfo, SlotToElementData, SealElement, CheckElementInfo,
         CheckElementData, CheckElementCrc, NextIteration, EndIteration,
         WriteSector0, environment
<1> QED BY <1>1, <1>2, <1>3 DEF Next, PowerOn, PowerOff, UpgradeFirmware, vars

LEMMA InitMirrors ==
  ASSUME Init
  PROVE  DiskOK /\ Ordered /\ SlotsOK /\ BootOK /\ CheckOK
<1>1. /\ \A s \in Sector : disk[s] = Junk
      /\ Junk.kind = "junk"
  BY CacheAssumption DEF Init
<1>2. DiskOK /\ \A k \in Slot : ~Intact(k)
  BY <1>1, InfoSectors DEF DiskOK, InfoOK, Intact, Sealed
<1>3. /\ cs.nextTask = "Start" /\ cs.hasSlots = FALSE
      /\ cs.skipElementDataCheck = FALSE /\ cs.writeSector0 = FALSE
  BY DEF Init, FreshState
<1>4. SlotsOK
  BY DEF Init, SlotsOK
<1> QED BY <1>2, <1>3, <1>4
        DEF Ordered, BootOK, CheckOK, GonePast, BeforeOK, CopyOK, ReadOK, PastOK

THEOREM MirrorInvHolds ==
  ASSUME NEW m, SlotsFit(m), SlotsStayApart
  PROVE  Spec => []MirrorInv(m)
<1>1. Init => MirrorInv(m)
  BY InitTypeInv, InitFits, InitMirrors DEF MirrorInv, SlotsFit
<1>2. MirrorInv(m) /\ [Next]_vars => MirrorInv(m)'
  <2> SUFFICES ASSUME MirrorInv(m), [Next]_vars PROVE MirrorInv(m)'
    OBVIOUS
  <2>1. TypeInv' /\ DiskFits(m)' /\ CheckFits(m)'
    BY NextTypeInv, NextFits DEF MirrorInv
  <2>2. DiskOK' /\ Ordered' /\ CheckOK' /\ BootOK' /\ SlotsOK'
    BY NextMirrors, NextBoot, NextSlots DEF MirrorInv, TypeInv
  <2> QED BY <2>1, <2>2 DEF MirrorInv
<1> QED BY <1>1, <1>2, PTL DEF Spec

-----------------------------------------------------------------------------
(* What follows for every partition with room for the slots.               *)

(***************************************************************************)
(* A full check leaves every element it went past readable, whatever it    *)
(* rewrote afterwards.                                                     *)
(***************************************************************************)
THEOREM CheckedStayIntact ==
  ASSUME NEW m, SlotsFit(m), SlotsStayApart
  PROVE  Spec => []CheckedElementsIntact
<1>1. MirrorInv(m) => CheckedElementsIntact
  <2> SUFFICES ASSUME MirrorInv(m), Checking, NEW e \in 0 .. cs.element - 1
               PROVE  Intact(e)
    BY DEF CheckedElementsIntact
  <2>1. cs.element \in 0 .. MaxSlots
    BY DEF MirrorInv, TypeInv, TypeOK
  <2>2. e \in Slot /\ e < cs.element
    BY <2>1, CacheAssumption DEF Slot
  <2> QED BY <2>2 DEF MirrorInv, CheckOK, GonePast, Mirrors, Checking
<1> QED BY <1>1, MirrorInvHolds, PTL

(***************************************************************************)
(* Elements that can be read back come one after the other, in slot order, *)
(* at any time: in the middle of a check, after a torn write, between      *)
(* boots.                                                                  *)
(***************************************************************************)
THEOREM IntactStayInOrder ==
  ASSUME NEW m, SlotsFit(m), SlotsStayApart
  PROVE  Spec => []IntactDataInOrder
<1>1. MirrorInv(m) => IntactDataInOrder
  BY DEF MirrorInv, Ordered, IntactDataInOrder
<1> QED BY <1>1, MirrorInvHolds, PTL

(***************************************************************************)
(* What the readers give of an element that mirrors its slot.              *)
(***************************************************************************)
LEMMA ReadersGiveSlotFile ==
  ASSUME NEW e \in Slot, Mirrors(e), DiskOK, SlotsOK, TypeOK, SlotsStayApart,
         NEW ei \in ElementInfo(e)
  PROVE  /\ ei.filepath = slots[e]
         /\ ei.sectorCount = FileSectors[slots[e]]
         /\ \A delta, count \in 0 .. ei.sectorCount :
              delta + count <= ei.sectorCount =>
                \A s \in SectorsRead(ei, delta, count) :
                  /\ InBounds(s)
                  /\ disk[s] = Data(slots[e], s - ei.sectorBegin + 1)
<1>1. Stored(e).kind = "info" /\ Stored(e).file = slots[e] /\ Intact(e)
  BY DEF Mirrors, Intact, Sealed, Stored
<1>2. LinearRead(InfoSector(e), Stale) =
        [data : {Stored(e)}, ok : {TRUE}, given : {TRUE}]
  BY DEF LinearRead, SlotsStayApart, Stored
<1>3. ei = [filepath |-> Stored(e).file, sectorBegin |-> Begin(e),
            sectorCount |-> End(e) - Begin(e) + 1]
  <2>1. PICK r \in [data : {Stored(e)}, ok : {TRUE}, given : {TRUE}] :
          ei \in IF r.data.kind = "info"
                 THEN {[filepath |-> r.data.file, sectorBegin |-> r.data.begin,
                        sectorCount |-> r.data.end - r.data.begin + 1]}
                 ELSE {[filepath |-> NoFile, sectorBegin |-> range[1],
                        sectorCount |-> range[2] - range[1] + 1] :
                         range \in GarbageRange}
    BY <1>2 DEF ElementInfo
  <2>2. r.data = Stored(e)
    OBVIOUS
  <2> QED BY <2>1, <2>2, <1>1 DEF Begin, End, Stored
<1>4. InfoSector(e) \in Sector
  BY CacheAssumption, VolumeAssumption DEF Slot, Sector, InfoSector
<1>5. /\ Begin(e) \in Nat /\ End(e) \in Nat
      /\ End(e) = Begin(e) + FileSectors[slots[e]] - 1
      /\ slots[e] \in File /\ FileSectors[slots[e]] \in Nat
  <2>1. Stored(e) \in Content /\ InfoOK(Stored(e))
    BY <1>4 DEF TypeOK, DiskOK, Stored
  <2>2. Stored(e) \in [kind : {"info"}, slot : Slot, file : File, begin : Nat,
                       end : Nat, sealed : BOOLEAN]
    BY <2>1, <1>1, CacheAssumption DEF Content, Mangled
  <2> QED BY <2>1, <2>2, <1>1, CacheAssumption DEF InfoOK, Begin, End, Stored
<1>6. ei.filepath = slots[e] /\ ei.sectorCount = FileSectors[slots[e]]
  BY <1>1, <1>3, <1>5
<1>7. ASSUME NEW delta \in 0 .. ei.sectorCount, NEW count \in 0 .. ei.sectorCount,
             delta + count <= ei.sectorCount,
             NEW s \in SectorsRead(ei, delta, count)
      PROVE  InBounds(s) /\ disk[s] = Data(slots[e], s - ei.sectorBegin + 1)
  <2>1. s \in Begin(e) .. End(e)
    BY <1>3, <1>5, <1>7 DEF SectorsRead
  <2> QED BY <2>1, <1>1, <1>3 DEF Intact, InBounds, Stored
<1> QED BY <1>6, <1>7

(***************************************************************************)
(* The count a full check writes to sector 0 covers only elements that the *)
(* readers give the files of their slots of.                               *)
(***************************************************************************)
THEOREM RebuiltCountIsUsable ==
  ASSUME NEW m, SlotsFit(m), SlotsStayApart
  PROVE  Spec => []RebuiltCountUsable
<1>1. MirrorInv(m) => RebuiltCountUsable
  <2> SUFFICES ASSUME MirrorInv(m), Checking, cs.nextTask = "Done",
                      cs.writeSector0, NEW e \in 0 .. published - 1
               PROVE  e \in Slot /\ Mirrors(e)
    BY ReadersGiveSlotFile DEF RebuiltCountUsable, MirrorInv, TypeInv
  <2>1. cs.element \in 0 .. MaxSlots
    BY DEF MirrorInv, TypeInv, TypeOK
  <2>2. published = cs.element
    BY DEF MirrorInv, BootOK, Checking
  <2>3. e \in Slot /\ e < cs.element
    BY <2>1, <2>2, CacheAssumption DEF Slot
  <2> QED BY <2>3
          DEF MirrorInv, CheckOK, GonePast, Checking
<1> QED BY <1>1, MirrorInvHolds, PTL

(***************************************************************************)
(* The data of an element is placed after all the elements gone past.      *)
(***************************************************************************)
THEOREM DataIsPlacedAfterLast ==
  ASSUME NEW m, SlotsFit(m), SlotsStayApart
  PROVE  Spec => PlacedAfterLast
<1>1. ASSUME MirrorInv(m), Checking, SlotToElementInfo,
             NEW e \in 0 .. cs.element - 1
      PROVE  End(e) < cs'.sectorBegin
  <2>1. /\ cs \in CsType /\ cs.hasSlots /\ cs.nextTask = "SlotToElementInfo"
        /\ TypeInv /\ DiskFits(m) /\ DiskOK /\ Ordered /\ GonePast
        /\ BeforeOK /\ cs.fno \in File /\ cs.element < MaxSlots
    BY <1>1 DEF MirrorInv, CheckOK, TypeInv, TypeOK, CsType, Checking,
                SlotToElementInfo, At, StagesOK, InSlot
  <2>2. cs.sectorEnd = LastEnd(cs.element) /\ cs.sectorEnd \in Nat
    BY <2>1 DEF BeforeOK, BeforePlacing, CsType
  <2>3. e \in Slot /\ e < cs.element
    BY <2>1, CacheAssumption DEF Slot, CsType
  <2>4. End(e) <= cs.sectorEnd /\ End(e) \in Nat
    <3>1. Intact(e)
      BY <2>1, <2>3 DEF GonePast, Mirrors
    <3> QED BY <2>1, <2>2, <2>3, <3>1, LastEndFacts, IntactFacts DEF TypeInv
  <2>5. ~ProgressTraps(SectorsOf(cs.fno))
    BY <2>1, CacheAssumption DEF ProgressTraps, SectorsOf, SlotsStayApart
  <2>6. \E stage \in Stage : cs' = [Placed EXCEPT !.nextTask = stage]
    BY <1>1, <2>5 DEF SlotToElementInfo, Stage
  <2>7. Placed \in CsType /\ Placed.sectorBegin = cs.sectorEnd + 1
    BY <2>1, PlacedType
  <2>8. cs'.sectorBegin = cs.sectorEnd + 1
    BY <2>6, <2>7 DEF CsType
  <2> QED BY <2>2, <2>4, <2>8
<1>2. MirrorInv(m) => (Checking /\ SlotToElementInfo =>
        \A e \in 0 .. cs.element - 1 : Sealed(e) => End(e) < cs'.sectorBegin)
  BY <1>1
<1> QED BY <1>2, MirrorInvHolds, PTL DEF PlacedAfterLast

(* No other step than the last of slotToElementData seals an info sector.  *)
LEMMA OnlySealed ==
  ASSUME NEW m, SlotsFit(m), SlotsStayApart, MirrorInv(m), [Next]_vars,
         NEW k \in Slot, Sealed(k)', ~Sealed(k)
  PROVE  Intact(k)'
<1>0. TypeOK /\ InfoSector(k) \in Sector /\ disk \in [Sector -> Content]
  BY InfoSectors DEF MirrorInv, TypeInv, TypeOK
<1>1. CASE UNCHANGED disk
  BY <1>1 DEF Sealed, InfoSector
<1>2. ASSUME NEW s, NEW v, ~(v.kind = "info" /\ v.sealed),
             disk' = [disk EXCEPT ![s] = v] \/ disk' = [disk EXCEPT ![s] = disk[s]]
      PROVE  FALSE
  BY <1>0, <1>2 DEF Sealed, InfoSector
<1>3. ASSUME NEW s, NEW v, ~(v.kind = "info" /\ v.sealed),
             NEW w \in LinearWrite(s, v), disk' = w.disk
      PROVE  FALSE
  <2>1. PICK c \in {disk[s], v, Junk} : w.disk = [disk EXCEPT ![s] = c]
    BY <1>0, WriteGives
  <2>2. Junk.kind = "junk"
    BY CacheAssumption
  <2> QED BY <1>2, <1>3, <2>1, <2>2
<1>4. CASE SlotToElementInfo
  <2>1. \/ UNCHANGED disk
        \/ \E b, z : \E w \in LinearWrite(InfoSector(cs.element),
                                Info(cs.element, cs.fno, b, z, FALSE)) :
             disk' = w.disk
    BY <1>4 DEF SlotToElementInfo, Halt
  <2>2. \A b, z : ~Info(cs.element, cs.fno, b, z, FALSE).sealed
    BY DEF Info
  <2> QED BY <1>1, <1>3, <2>1, <2>2
<1>5. CASE SlotToElementData
  <2>1. \/ UNCHANGED disk
        \/ \E n : \E w \in LinearWrite(cs.sectorCurrent, Data(cs.fno, n)) :
             disk' = w.disk
    BY <1>5 DEF SlotToElementData, Halt
  <2> QED BY <1>1, <1>3, <2>1, DataRecord
<1>6. CASE SealElement
  BY <1>6, SealMirrors
<1>7. CASE WriteSector0
  <2>1. \E w \in LinearWrite(0, HeadSector(version, cs.element)) : disk' = w.disk
    BY <1>7 DEF WriteSector0
  <2>2. HeadSector(version, cs.element).kind = "head"
    BY DEF HeadSector
  <2> QED BY <1>3, <2>1, <2>2
<1>8. CASE PowerOff
  <2>1. Junk.kind = "junk"
    BY CacheAssumption
  <2> QED BY <1>1, <1>2, <1>8, <2>1 DEF PowerOff
<1>9. CASE \/ Start \/ ReadSector0 \/ BeginIteration \/ ReadSlot
           \/ CheckElementCrc \/ NextIteration \/ EndIteration
  BY <1>1, <1>9 DEF Start, ReadSector0, BeginIteration, ReadSlot,
     CheckElementCrc, NextIteration, EndIteration
<1>10. CASE CheckElementInfo \/ CheckElementData
  BY <1>1, <1>10 DEF CheckElementInfo, CheckElementData, UseElementInfo, Halt
<1> QED BY <1>1, <1>4, <1>5, <1>6, <1>7, <1>8, <1>9, <1>10
        DEF Next, ProcessNextTask, PowerOn, EditSlot, UpgradeFirmware, vars

(***************************************************************************)
(* An info sector gets its CRCs in a step that finds all the data of the   *)
(* element in place, and in no other.                                      *)
(***************************************************************************)
THEOREM SealedWhenComplete ==
  ASSUME NEW m, SlotsFit(m), SlotsStayApart
  PROVE  Spec => SealedOnlyWhenComplete
<1>1. MirrorInv(m) /\ [Next]_vars =>
        [\A e \in Slot : Sealed(e)' /\ ~Sealed(e) => Intact(e)']_vars
  BY OnlySealed
<1> QED BY <1>1, MirrorInvHolds, PTL DEF Spec, SealedOnlyWhenComplete

-----------------------------------------------------------------------------
(* A full check implements SlotMirror.                                     *)

(* The state of SlotMirror.                                                *)
Phase ==
  IF ~Checking THEN "idle"
  ELSE IF cs.nextTask = "Done" THEN "ready" ELSE "checking"

Mirrored ==
  IF ~Checking THEN <<>>
  ELSE [i \in 1 .. cs.element |->
          IF Intact(i - 1) THEN disk[InfoSector(i - 1)].file ELSE NoFile]

(* Mirrored is the files of the slots gone past.                           *)
LEMMA MirroredSlots ==
  ASSUME NEW m
  PROVE  MirrorInv(m) /\ Checking =>
           Mirrored = [i \in 1 .. cs.element |-> slots[i - 1]]
<1> SUFFICES ASSUME MirrorInv(m), Checking
             PROVE  Mirrored = [i \in 1 .. cs.element |-> slots[i - 1]]
  OBVIOUS
<1>1. ASSUME NEW i \in 1 .. cs.element
      PROVE  /\ Intact(i - 1)
             /\ disk[InfoSector(i - 1)].file = slots[i - 1]
  <2>1. cs.element \in 0 .. MaxSlots
    BY DEF MirrorInv, TypeInv, TypeOK
  <2>2. PICK e \in Slot : e = i - 1 /\ e < cs.element
    BY <2>1, CacheAssumption DEF Slot
  <2>3. Mirrors(e)
    BY <2>2 DEF MirrorInv, CheckOK, GonePast, Checking
  <2> QED BY <2>2, <2>3 DEF Mirrors, Stored
<1> QED BY <1>1 DEF Mirrored

LEMMA MirroredSlotsNext ==
  ASSUME NEW m
  PROVE  (MirrorInv(m) /\ Checking)' =>
           (Mirrored = [i \in 1 .. cs.element |-> slots[i - 1]])'
BY MirroredSlots, PTL

(* What a step of Next does to the board.                                  *)
LEMMA NextSteps ==
  ASSUME NEW m, MirrorInv(m), [Next]_vars
  PROVE  \/ UNCHANGED <<slots, board, volumes, cs>>
         \/ /\ board = "Off" /\ UNCHANGED <<board, volumes, cs>>
         \/ board' # "On" /\ UNCHANGED slots
         \/ cs'.hasSlots = FALSE /\ UNCHANGED slots
         \/ /\ Start
            /\ UNCHANGED <<slots, board, volumes>> /\ board = "On"
            /\ cs.nextTask = "Start" /\ cs'.element = 0
            /\ cs'.skipElementDataCheck = cs.skipElementDataCheck
            /\ "LinearCache" \in volumes => cs'.nextTask = "ReadSector0"
         \/ /\ UNCHANGED <<slots, board, volumes>> /\ board = "On"
            /\ cs.nextTask # "Done"
            /\ cs'.skipElementDataCheck = cs.skipElementDataCheck
            /\ cs'.hasSlots = cs.hasSlots /\ cs'.element = cs.element
         \/ /\ NextIteration
            /\ UNCHANGED <<slots, board, volumes>> /\ board = "On"
            /\ cs.nextTask = "NextIteration" /\ cs'.nextTask # "Done"
            /\ cs'.skipElementDataCheck = cs.skipElementDataCheck
            /\ cs'.hasSlots = cs.hasSlots /\ cs'.element = cs.element + 1
<1>0. cs \in CsType /\ StagesOK
  BY DEF MirrorInv, TypeInv, TypeOK, CsType
<1>1. CASE Start
  BY <1>0, <1>1, StartStage DEF StagesOK, environment
<1>2. CASE ReadSector0
  BY <1>0, <1>2, HeadStage DEF environment
<1>3. CASE EndIteration \/ WriteSector0
  BY <1>0, <1>3, LastStages DEF environment
<1>4. CASE NextIteration
  BY <1>0, <1>4, NextElementMoves DEF Moves, Midway, environment
<1>5. CASE \/ SlotToElementInfo \/ SlotToElementData \/ SealElement
           \/ CheckElementInfo \/ CheckElementData \/ CheckElementCrc
           \/ BeginIteration \/ ReadSlot
  <2>1. MovesOrHalts(cs.element)
    BY <1>0, <1>5, ElementMoves
  <2> QED BY <2>1 DEF MovesOrHalts, Moves, Halt, environment
<1>6. ASSUME NEW boot \in Boots, PowerOn(boot)
      PROVE  cs'.hasSlots = FALSE /\ UNCHANGED slots
  BY <1>6 DEF PowerOn, FreshState
<1> QED BY <1>1, <1>2, <1>3, <1>4, <1>5, <1>6
        DEF Next, ProcessNextTask, PowerOff, EditSlot, UpgradeFirmware, vars

(* One more slot is mirrored when the check goes past its element.         *)
LEMMA NextMirrored ==
  ASSUME NEW m, SlotsFit(m), SlotsStayApart, MirrorInv(m), MirrorInv(m)',
         Checking, Checking', NextIteration, UNCHANGED slots,
         cs.nextTask = "NextIteration", cs'.element = cs.element + 1
  PROVE  /\ Len(Mirrored) \in Slot
         /\ slots[Len(Mirrored)] # NoFile
         /\ Mirrored' = Append(Mirrored, slots[Len(Mirrored)])
<1>1. /\ cs.element \in Slot /\ cs.hasSlots /\ PastOK
      /\ TypeOK /\ DiskFits(m) /\ DiskOK
  <2>1. /\ cs \in CsType /\ StagesOK
        /\ TypeOK /\ DiskFits(m) /\ DiskOK /\ PastOK /\ cs.hasSlots
    BY DEF MirrorInv, CheckOK, TypeInv, TypeOK, CsType, Checking
  <2> QED BY <2>1, CacheAssumption DEF StagesOK, InSlot, Slot, CsType
<1>2. PICK e \in Slot : e = cs.element
  BY <1>1
<1>3. slots[e] \in File
  <2>1. Stored(e).kind = "info" /\ Stored(e).file = slots[e]
    BY <1>1, <1>2 DEF PastOK, Mirrors, Intact, Sealed, Stored
  <2> QED BY <1>1, <2>1, StoredFacts
<1>4. Mirrored = [i \in 1 .. e |-> slots[i - 1]]
  BY <1>2, MirroredSlots
<1>5. Mirrored' = [i \in 1 .. e + 1 |-> slots[i - 1]]
  <2>1. Mirrored' = [i \in 1 .. cs'.element |-> slots'[i - 1]]
    BY MirroredSlotsNext
  <2> QED BY <1>2, <2>1
<1> QED BY <1>2, <1>3, <1>4, <1>5, CacheAssumption DEF Slot

LEMMA MirrorInit ==
  ASSUME Init
  PROVE  Mirror!Init
<1>1. ~Checking
  BY DEF Init, Checking
<1>2. Phase = "idle" /\ Mirrored = <<>>
  BY <1>1 DEF Phase, Mirrored
<1> QED BY <1>2 DEF Init, Mirror!Init, Phase, Mirrored, Slot, Mirror!Slot

LEMMA MirrorNext ==
  ASSUME NEW m, SlotsFit(m), SlotsStayApart, MirrorInv(m), MirrorInv(m)',
         [Next]_vars
  PROVE  [Mirror!Next]_(Mirror!vars)
<1>1. SUFFICES \/ UNCHANGED <<slots, Phase, Mirrored>>
               \/ /\ Phase = "idle"
                  /\ slots' \in [Slot -> File \cup {NoFile}]
                  /\ UNCHANGED <<Phase, Mirrored>>
               \/ /\ Phase = "idle" /\ Phase' = "checking"
                  /\ UNCHANGED <<slots, Mirrored>>
               \/ /\ Phase = "checking"
                  /\ Len(Mirrored) \in Slot
                  /\ slots[Len(Mirrored)] # NoFile
                  /\ Mirrored' = Append(Mirrored, slots[Len(Mirrored)])
                  /\ UNCHANGED <<slots, Phase>>
               \/ /\ Phase = "checking" /\ Phase' = "ready"
                  /\ UNCHANGED <<slots, Mirrored>>
               \/ Phase' = "idle" /\ Mirrored' = <<>> /\ UNCHANGED slots
  BY DEF Mirror!Next, Mirror!vars, Mirror!Edit, Mirror!Begin, Mirror!Mirror,
         Mirror!Finish, Mirror!PowerOff, Mirror!Slot, Slot, Phase, Mirrored
<1>2. ~Checking => Phase = "idle" /\ Mirrored = <<>>
  BY DEF Phase, Mirrored
<1>3. ~Checking' => Phase' = "idle" /\ Mirrored' = <<>>
  BY DEF Phase, Mirrored
<1>4. CASE ~Checking /\ ~Checking'
  <2>1. UNCHANGED slots \/ slots' \in [Slot -> File \cup {NoFile}]
    BY DEF MirrorInv, TypeInv, TypeOK, Slot
  <2> QED BY <1>2, <1>3, <1>4, <2>1
<1>5. CASE ~Checking /\ Checking'
  <2>1. /\ UNCHANGED slots /\ cs'.element = 0
        /\ cs'.nextTask = "ReadSector0"
    BY <1>5, NextSteps DEF Checking
  <2>2. Mirrored' = [i \in 1 .. cs'.element |-> slots'[i - 1]]
    BY <1>5, MirroredSlotsNext
  <2>3. Mirrored' = <<>>
    BY <2>1, <2>2
  <2>4. Phase' = "checking"
    BY <1>5, <2>1 DEF Phase
  <2> QED BY <1>2, <1>5, <2>1, <2>3, <2>4
<1>6. CASE Checking /\ ~Checking'
  <2>1. UNCHANGED slots
    BY <1>6, NextSteps DEF Checking
  <2> QED BY <1>3, <1>6, <2>1
<1>7. CASE Checking /\ Checking'
  <2>1. Mirrored = [i \in 1 .. cs.element |-> slots[i - 1]]
    BY <1>7, MirroredSlots
  <2>2. Mirrored' = [i \in 1 .. cs'.element |-> slots'[i - 1]]
    BY <1>7, MirroredSlotsNext
  <2>3. /\ Phase = IF cs.nextTask = "Done" THEN "ready" ELSE "checking"
        /\ Phase' = IF cs'.nextTask = "Done" THEN "ready" ELSE "checking"
    BY <1>7 DEF Phase
  <2>4. cs.nextTask = "Start" => cs.element = 0
    BY DEF MirrorInv, TypeInv, StagesOK
  <2>5. CASE NextIteration
    <3>1. /\ UNCHANGED slots /\ cs.nextTask = "NextIteration"
          /\ cs'.nextTask # "Done" /\ cs'.element = cs.element + 1
      <4>1. cs \in CsType
        BY DEF MirrorInv, TypeInv, TypeOK, CsType
      <4> QED BY <2>5, <4>1, NextElementMoves DEF Moves, Midway, environment
    <3>2. Phase = "checking" /\ UNCHANGED Phase
      BY <2>3, <3>1
    <3> QED BY <1>7, <2>5, <3>1, <3>2, NextMirrored
  <2>6. CASE ~NextIteration
    <3>1. /\ UNCHANGED slots /\ cs'.element = cs.element
          /\ cs.nextTask = "Done" => cs'.nextTask = "Done"
      BY <1>7, <2>4, <2>6, NextSteps DEF Checking
    <3>2. UNCHANGED Mirrored
      BY <2>1, <2>2, <3>1
    <3> QED BY <2>3, <3>1, <3>2
  <2> QED BY <2>5, <2>6
<1> QED BY <1>4, <1>5, <1>6, <1>7

(***************************************************************************)
(* A full check implements SlotMirror: it goes past the slots in order,    *)
(* has each one's file on the partition when it does, and loses none of    *)
(* them while it writes the next.                                          *)
(***************************************************************************)
THEOREM CheckImplementsMirror ==
  ASSUME NEW m, SlotsFit(m), SlotsStayApart
  PROVE  Spec => MirrorsSlots
<1>1. Init => Mirror!Init
  BY MirrorInit
<1>2. MirrorInv(m) /\ MirrorInv(m)' /\ [Next]_vars
        => [Mirror!Next]_(Mirror!vars)
  BY MirrorNext
<1> QED BY <1>1, <1>2, MirrorInvHolds, PTL
        DEF Spec, MirrorsSlots, Mirror!Spec

=============================================================================

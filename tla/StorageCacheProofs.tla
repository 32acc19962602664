------------------------- MODULE StorageCacheProofs -------------------------
(***************************************************************************)
(* Proofs about StorageCache, for every set of files, number of slots and  *)
(* volume, whatever the media and the power do.                            *)
(***************************************************************************)
EXTENDS StorageCache, WellFoundedInduction, TLAPS

-----------------------------------------------------------------------------
(* What a sector holds, and what reading and writing one may give.         *)

LEMMA ContentFields ==
  ASSUME NEW v \in Content
  PROVE  /\ v.kind = "head" => v.count \in 0 .. MaxSlots
         /\ v.kind = "info" => /\ v.slot \in Slot
                               /\ v.file \in File
                               /\ v.begin \in Nat
                               /\ v.end \in Nat
BY CacheAssumption DEF Content, Mangled

LEMMA ContentTypes ==
  /\ Junk \in Content
  /\ Mangled \in Content
  /\ \A v \in Version, n \in 0 .. MaxSlots : HeadSector(v, n) \in Content
  /\ \A e \in Slot, f \in File, b, z \in Nat, crc \in BOOLEAN :
       Info(e, f, b, z, crc) \in Content
  /\ \A f \in File, k \in Nat : Data(f, k) \in Content
BY DEF Content, HeadSector, Info, Data, Mangled

LEMMA ReadGives ==
  ASSUME NEW s, NEW left, NEW r \in LinearRead(s, left)
  PROVE  r.data = disk[s] \/ r.data \in left
BY DEF LinearRead

LEMMA WriteGives ==
  ASSUME NEW s, NEW v, NEW w \in LinearWrite(s, v),
         disk \in [Sector -> Content]
  PROVE  \E c \in {disk[s], v, Junk} : w.disk = [disk EXCEPT ![s] = c]
BY DEF LinearWrite

LEMMA SealedType ==
  ASSUME NEW v \in Content, NEW z \in Seals(v)
  PROVE  /\ z \in Content
         /\ \/ z \in {Mangled, Junk}
            \/ v.kind = "info" /\ z = [v EXCEPT !.sealed = TRUE]
<1>1. CASE v.kind = "info"
  <2>1. v \in [kind : {"info"}, slot : Slot, file : File, begin : Nat,
               end : Nat, sealed : BOOLEAN]
    BY <1>1, CacheAssumption DEF Content, Mangled
  <2>2. z = [v EXCEPT !.sealed = TRUE]
    BY <1>1 DEF Seals
  <2>3. z \in [kind : {"info"}, slot : Slot, file : File, begin : Nat,
               end : Nat, sealed : BOOLEAN]
    BY <2>1, <2>2
  <2> QED BY <1>1, <2>2, <2>3 DEF Content
<1>2. CASE v.kind # "info"
  BY <1>2, ContentTypes DEF Seals
<1> QED BY <1>1, <1>2

-----------------------------------------------------------------------------
(***************************************************************************)
(* The strengthening that makes TypeOK inductive: which element and which  *)
(* file a stage may be entered with.  Info sectors and counts stay within  *)
(* the slots because of it.                                                *)
(***************************************************************************)
InSlot == {"SlotToElementInfo", "SlotToElementData", "CheckElementInfo",
           "CheckElementData", "NextIteration"}

StagesOK ==
  /\ cs.nextTask \in {"Start", "ReadSector0"} => cs.element = 0
  /\ cs.nextTask \in InSlot => cs.element < MaxSlots
  /\ cs.nextTask = "BeginIteration" /\ ~cs.hasSlots => cs.element < MaxSlots
  /\ cs.hasSlots /\ cs.nextTask \in {"CheckElementInfo", "SlotToElementInfo"}
       => cs.fno \in File
  /\ cs.nextTask = "SlotToElementData"
       => /\ cs.hasSlots
          /\ cs.fno \in File
          /\ cs.sectorBegin <= cs.sectorCurrent

CsType ==
  [skipElementDataCheck : BOOLEAN, hasSlots : BOOLEAN,
   nextTask : Stage, elementCount : 0 .. MaxSlots,
   element : 0 .. MaxSlots, writeSector0 : BOOLEAN,
   fno : File \cup {NoFile}, sectorBegin : Nat, sectorEnd : Nat,
   sectorCurrent : Nat, stored : File \cup {NoFile},
   crcOk : BOOLEAN, unread : BOOLEAN]

TypeInv == TypeOK /\ StagesOK

LEMMA FreshType ==
  ASSUME NEW skip \in BOOLEAN
  PROVE  /\ FreshState(skip) \in CsType
         /\ FreshState(skip).nextTask = "Start"
         /\ FreshState(skip).element = 0
         /\ FreshState(skip).hasSlots = FALSE
         /\ FreshState(skip).sectorEnd = 0
BY CacheAssumption DEF FreshState, CsType, Stage

LEMMA InitTypeInv == Init => TypeInv
<1> SUFFICES ASSUME Init PROVE TypeInv
  OBVIOUS
<1>1. cs \in CsType /\ cs.nextTask = "Start" /\ cs.element = 0
  BY FreshType DEF Init
<1>2. TypeOK
  BY <1>1, ContentTypes, CacheAssumption DEF Init, TypeOK, CsType
<1>3. StagesOK
  BY <1>1 DEF StagesOK, InSlot
<1> QED BY <1>2, <1>3 DEF TypeInv

(* Writing a typed sector leaves a typed partition.                        *)
LEMMA WriteType ==
  ASSUME NEW s, NEW v \in Content, NEW w \in LinearWrite(s, v),
         disk \in [Sector -> Content]
  PROVE  w.disk \in [Sector -> Content]
<1>1. PICK c \in {disk[s], v, Junk} : w.disk = [disk EXCEPT ![s] = c]
  BY WriteGives
<1>2. CASE s \in Sector
  <2>1. c \in Content
    BY <1>1, <1>2, ContentTypes
  <2> QED BY <1>1, <2>1
<1>3. CASE s \notin Sector
  BY <1>1, <1>3
<1> QED BY <1>2, <1>3

LEMMA PlacedType ==
  ASSUME cs \in CsType
  PROVE  /\ Placed \in CsType
         /\ Placed.sectorBegin = cs.sectorEnd + 1
         /\ Placed.sectorEnd = cs.sectorEnd + SectorsOf(cs.fno)
         /\ Placed.sectorCurrent = Placed.sectorBegin
         /\ Placed.fno = cs.fno
         /\ Placed.element = cs.element
         /\ Placed.hasSlots = cs.hasSlots
         /\ SectorsOf(cs.fno) \in Nat
<1>1. SectorsOf(cs.fno) \in Nat
  BY CacheAssumption DEF SectorsOf, CsType
<1> DEFINE n == SectorsOf(cs.fno)
<1> HIDE DEF n
<1>2. Placed = [cs EXCEPT !.sectorBegin = cs.sectorEnd + 1,
                          !.sectorEnd = cs.sectorEnd + n,
                          !.sectorCurrent = cs.sectorEnd + 1]
  BY DEF Placed, n
<1>3. cs.sectorEnd \in Nat /\ n \in Nat
  BY <1>1 DEF CsType, n
<1>4. cs.sectorEnd + 1 \in Nat /\ cs.sectorEnd + n \in Nat
  BY <1>3
<1> QED BY <1>1, <1>2, <1>4 DEF CsType, n

(* Steps that only move on to another stage.                               *)
LEMMA GotoType ==
  ASSUME cs \in CsType, NEW stage \in Stage, Goto(stage)
  PROVE  /\ cs' \in CsType
         /\ cs'.nextTask = stage
         /\ cs'.element = cs.element
         /\ cs'.hasSlots = cs.hasSlots
         /\ cs'.fno = cs.fno
         /\ cs'.sectorBegin = cs.sectorBegin
         /\ cs'.sectorEnd = cs.sectorEnd
         /\ cs'.sectorCurrent = cs.sectorCurrent
BY DEF Goto, CsType

LEMMA GotoEndType ==
  ASSUME cs \in CsType, NEW stage \in {"EndIteration", "WriteSector0", "Done"},
         Goto(stage)
  PROVE  cs' \in CsType /\ StagesOK'
<1>1. cs' \in CsType /\ cs'.nextTask = stage
  BY GotoType DEF Stage
<1> QED BY <1>1 DEF StagesOK, InSlot

LEMMA UseElementInfoType ==
  ASSUME cs \in CsType, StagesOK, cs.nextTask = "CheckElementInfo",
         NEW c, NEW begin \in Nat, NEW end \in Nat,
         NEW stored \in File \cup {NoFile},
         UseElementInfo(c, begin, end, stored)
  PROVE  cs' \in CsType /\ StagesOK' /\ UNCHANGED <<disk, published>>
<1>1. CASE UNCHANGED cs /\ UNCHANGED <<disk, published>>
  BY <1>1 DEF StagesOK
<1>2. ASSUME NEW stage \in {"SlotToElementInfo", "NextIteration",
                            "CheckElementData"},
             NEW z \in Nat, NEW write \in BOOLEAN,
             cs' = [Loaded(begin, end, stored) EXCEPT
                     !.sectorEnd = z, !.writeSector0 = write,
                     !.nextTask = stage]
      PROVE  cs' \in CsType /\ StagesOK'
  <2>1. /\ cs' \in CsType
        /\ cs'.nextTask = stage
        /\ cs'.element = cs.element
        /\ cs'.hasSlots = cs.hasSlots
        /\ cs'.fno = cs.fno
    BY <1>2 DEF Loaded, CsType, Stage
  <2> QED BY <2>1 DEF StagesOK, InSlot
<1>3. CASE /\ ~ProgressTraps(end - begin + 1)
           /\ cs.hasSlots /\ ~MetricsMatch(c)
  <2>1. cs' = [Loaded(begin, end, stored) EXCEPT
                !.sectorEnd = cs.sectorEnd, !.writeSector0 = TRUE,
                !.nextTask = "SlotToElementInfo"]
    BY <1>3 DEF UseElementInfo
  <2>2. cs.sectorEnd \in Nat
    BY DEF CsType
  <2> QED BY <1>2, <1>3, <2>1, <2>2 DEF UseElementInfo
<1>4. CASE /\ ~ProgressTraps(end - begin + 1)
           /\ ~(cs.hasSlots /\ ~MetricsMatch(c))
  <2> DEFINE stage == IF cs.skipElementDataCheck THEN "NextIteration"
                                                 ELSE "CheckElementData"
  <2>1. cs' = [Loaded(begin, end, stored) EXCEPT !.nextTask = stage]
    BY <1>4 DEF UseElementInfo
  <2>2. cs.writeSector0 \in BOOLEAN
    BY DEF CsType
  <2>3. cs' = [Loaded(begin, end, stored) EXCEPT
                !.sectorEnd = end, !.writeSector0 = cs.writeSector0,
                !.nextTask = stage]
    BY <2>1 DEF Loaded, CsType
  <2>4. stage \in {"NextIteration", "CheckElementData"}
    OBVIOUS
  <2> HIDE DEF stage
  <2> QED BY <1>2, <1>4, <2>2, <2>3, <2>4 DEF UseElementInfo
<1> QED BY <1>1, <1>3, <1>4 DEF UseElementInfo, Halt

(***************************************************************************)
(* Every step of the check keeps the types.                                *)
(***************************************************************************)
LEMMA ProcessTypeInv ==
  ASSUME TypeInv, ProcessNextTask
  PROVE  /\ disk' \in [Sector -> Content]
         /\ cs' \in CsType
         /\ published' \in 0 .. MaxSlots
         /\ board' \in {"Off", "On", "Halted"}
         /\ UNCHANGED environment
         /\ StagesOK'
<1> DEFINE Typed == /\ disk' \in [Sector -> Content]
                    /\ cs' \in CsType
                    /\ published' \in 0 .. MaxSlots
                    /\ board' \in {"Off", "On", "Halted"}
                    /\ UNCHANGED environment
                    /\ StagesOK'
<1>0. /\ disk \in [Sector -> Content]
      /\ cs \in CsType
      /\ published \in 0 .. MaxSlots
      /\ board \in {"Off", "On", "Halted"}
      /\ StagesOK
      /\ version \in Version
      /\ MaxSlots \in Nat
  BY CacheAssumption DEF TypeInv, TypeOK, CsType
<1>1. ASSUME cs.element < MaxSlots
      PROVE  /\ cs.element \in Slot
             /\ InfoSector(cs.element) \in Sector
  BY <1>0, <1>1, CacheAssumption, VolumeAssumption
     DEF CsType, Slot, Sector, InfoSector
<1>2. CASE Start
  <2>1. /\ cs' \in CsType /\ cs'.element = 0
        /\ cs'.nextTask \in {"ReadSector0", "Done"}
    <3> DEFINE hasSlots == "FatFsDrive0" \in volumes
               stage == IF "LinearCache" \in volumes THEN "ReadSector0"
                                                     ELSE "Done"
    <3>1. cs' = [cs EXCEPT !.hasSlots = hasSlots, !.nextTask = stage]
      BY <1>2 DEF Start
    <3>2. hasSlots \in BOOLEAN /\ stage \in {"ReadSector0", "Done"}
      OBVIOUS
    <3>3. stage \in Stage
      BY <3>2 DEF Stage
    <3>4. cs.element = 0
      BY <1>0, <1>2 DEF Start, At, StagesOK
    <3> HIDE DEF hasSlots, stage
    <3>5. cs' \in CsType
      BY <1>0, <3>1, <3>2, <3>3, Zenon DEF CsType
    <3>6. cs'.element = 0 /\ cs'.nextTask = stage
      BY <1>0, <3>1, <3>4 DEF CsType
    <3> QED BY <3>2, <3>5, <3>6
  <2> QED BY <1>0, <1>2, <2>1 DEF Start, StagesOK, InSlot
<1>3. CASE ReadSector0
  <2>1. PICK r \in LinearRead(0, {Junk}) :
          LET isHead == r.data.kind = "head"
              count  == IF isHead THEN r.data.count ELSE 0
              checks == isHead /\ r.data.version = version
          IN  IF ~r.ok
              THEN Goto("Done") /\ UNCHANGED published
              ELSE /\ published' = count
                   /\ cs' = [cs EXCEPT
                        !.elementCount = count,
                        !.writeSector0 = cs.hasSlots /\ ~checks,
                        !.nextTask = IF ~cs.hasSlots /\ count = 0
                                     THEN "Done" ELSE "BeginIteration"]
    BY <1>3 DEF ReadSector0
  <2> DEFINE isHead == r.data.kind = "head"
             count  == IF isHead THEN r.data.count ELSE 0
             write  == cs.hasSlots /\ ~(isHead /\ r.data.version = version)
             next   == IF ~cs.hasSlots /\ count = 0
                       THEN "Done" ELSE "BeginIteration"
  <2>2. r.data \in Content
    <3>1. 0 \in Sector
      BY VolumeAssumption DEF Sector
    <3> QED BY <1>0, <3>1, ReadGives, ContentTypes
  <2>3. count \in 0 .. MaxSlots
    BY <1>0, <2>2, ContentFields
  <2>4. /\ UNCHANGED <<disk, board, environment>>
        /\ cs.element = 0
    BY <1>0, <1>3 DEF ReadSector0, At, StagesOK
  <2>5. CASE ~r.ok
    <3>1. Goto("Done") /\ UNCHANGED published
      BY <2>1, <2>5
    <3>2. cs' \in CsType /\ cs'.nextTask = "Done"
      BY <1>0, <3>1, GotoType DEF Stage
    <3> QED BY <1>0, <2>4, <3>1, <3>2 DEF StagesOK, InSlot
  <2>6. CASE r.ok
    <3>1. /\ published' = count
          /\ cs' = [cs EXCEPT !.elementCount = count, !.writeSector0 = write,
                              !.nextTask = next]
      BY <2>1, <2>6
    <3>2. write \in BOOLEAN /\ next \in {"Done", "BeginIteration"}
      BY <1>0 DEF CsType
    <3>3. next = "BeginIteration" /\ ~cs.hasSlots => 0 < MaxSlots
      BY <1>0, <2>3
    <3> HIDE DEF count, write, next
    <3>4. cs' \in CsType /\ cs'.nextTask = next /\ cs'.element = 0
          /\ cs'.hasSlots = cs.hasSlots
      BY <1>0, <2>3, <2>4, <3>1, <3>2 DEF CsType, Stage
    <3>5. StagesOK'
      BY <3>2, <3>3, <3>4 DEF StagesOK, InSlot
    <3> QED BY <1>0, <2>3, <2>4, <3>1, <3>4, <3>5
  <2> QED BY <2>5, <2>6
<1>4. CASE BeginIteration
  <2> DEFINE stage == IF cs.hasSlots THEN "ReadSlot" ELSE "CheckElementInfo"
  <2>1. Goto(stage) /\ cs.nextTask = "BeginIteration"
        /\ UNCHANGED <<disk, board, published, environment>>
    BY <1>4 DEF BeginIteration, At
  <2>2. stage \in Stage
    BY DEF Stage
  <2> HIDE DEF stage
  <2>3. /\ cs' \in CsType
        /\ cs'.nextTask = stage
        /\ cs'.element = cs.element
        /\ cs'.hasSlots = cs.hasSlots
    BY <1>0, <2>1, <2>2, GotoType
  <2>4. StagesOK'
    BY <1>0, <2>1, <2>3 DEF StagesOK, InSlot, stage
  <2> QED BY <1>0, <2>1, <2>3, <2>4
<1>5. CASE ReadSlot
  <2>0. UNCHANGED <<disk, board, published, environment>>
    BY <1>5 DEF ReadSlot
  <2>1. CASE Goto("EndIteration")
    <3>1. cs' \in CsType /\ cs'.nextTask = "EndIteration"
      BY <1>0, <2>1, GotoType DEF Stage
    <3> QED BY <1>0, <2>0, <3>1 DEF StagesOK, InSlot
  <2>2. CASE /\ SlotFile(cs.element) # NoFile
             /\ cs' = [cs EXCEPT
                  !.fno = SlotFile(cs.element),
                  !.nextTask = IF cs.element < cs.elementCount
                               THEN "CheckElementInfo"
                               ELSE "SlotToElementInfo"]
    <3>1. cs.element \in Slot /\ SlotFile(cs.element) \in File
      BY <2>2 DEF SlotFile, TypeInv, TypeOK
    <3>2. cs.element < MaxSlots
      BY <1>0, <3>1 DEF Slot
    <3> DEFINE f == SlotFile(cs.element)
    <3> HIDE DEF f
    <3>3. /\ cs' \in CsType
          /\ cs'.nextTask \in {"CheckElementInfo", "SlotToElementInfo"}
          /\ cs'.element = cs.element
          /\ cs'.fno \in File
      BY <1>0, <2>2, <3>1 DEF CsType, Stage
    <3> QED BY <1>0, <2>0, <3>2, <3>3 DEF StagesOK, InSlot
  <2> QED BY <1>5, <2>1, <2>2 DEF ReadSlot
<1>6. CASE SlotToElementInfo
  <2>0. /\ cs.element \in Slot /\ cs.element < MaxSlots
        /\ cs.hasSlots => cs.fno \in File
        /\ UNCHANGED environment
    BY <1>0, <1>1, <1>6 DEF SlotToElementInfo, At, StagesOK, InSlot
  <2>1. CASE Halt
    BY <1>0, <2>0, <2>1 DEF Halt, StagesOK
  <2>2. ASSUME NEW stage \in {"SlotToElementData", "EndIteration"},
               cs' = [Placed EXCEPT !.nextTask = stage],
               stage = "SlotToElementData" => cs.hasSlots
        PROVE  cs' \in CsType /\ StagesOK'
    <3>1. /\ Placed \in CsType
          /\ Placed.sectorCurrent = Placed.sectorBegin
          /\ Placed.fno = cs.fno
          /\ Placed.element = cs.element
          /\ Placed.hasSlots = cs.hasSlots
      BY <1>0, PlacedType
    <3>2. /\ cs' \in CsType
          /\ cs'.nextTask = stage
          /\ cs'.element = cs.element
          /\ cs'.hasSlots = cs.hasSlots
          /\ cs'.fno = cs.fno
          /\ cs'.sectorBegin = cs'.sectorCurrent
          /\ cs'.sectorBegin \in Nat
      BY <2>2, <3>1 DEF CsType, Stage
    <3> QED BY <2>0, <2>2, <3>2 DEF StagesOK, InSlot
  <2>3. CASE /\ cs.hasSlots
             /\ \E w \in LinearWrite(InfoSector(cs.element),
                           Info(cs.element, cs.fno, Placed.sectorBegin,
                                Placed.sectorEnd, FALSE)) :
                  /\ disk' = w.disk
                  /\ cs' = [Placed EXCEPT
                       !.nextTask = IF w.ok THEN "SlotToElementData"
                                            ELSE "EndIteration"]
             /\ UNCHANGED <<board, published>>
    <3> DEFINE info == Info(cs.element, cs.fno, Placed.sectorBegin,
                            Placed.sectorEnd, FALSE)
    <3>1. PICK w \in LinearWrite(InfoSector(cs.element), info) :
            /\ disk' = w.disk
            /\ cs' = [Placed EXCEPT
                 !.nextTask = IF w.ok THEN "SlotToElementData"
                                      ELSE "EndIteration"]
      BY <2>3
    <3>2. info \in Content
      <4>1. Placed.sectorBegin \in Nat /\ Placed.sectorEnd \in Nat
        BY <1>0, PlacedType DEF CsType
      <4> QED BY <2>0, <2>3, <4>1, ContentTypes
    <3> HIDE DEF info
    <3>3. disk' \in [Sector -> Content]
      BY <1>0, <3>1, <3>2, WriteType
    <3> DEFINE stage == IF w.ok THEN "SlotToElementData" ELSE "EndIteration"
    <3>4. /\ stage \in {"SlotToElementData", "EndIteration"}
          /\ cs' = [Placed EXCEPT !.nextTask = stage]
      BY <3>1
    <3> HIDE DEF stage
    <3>5. cs' \in CsType /\ StagesOK'
      BY <2>2, <2>3, <3>4
    <3> QED BY <1>0, <2>0, <2>3, <3>3, <3>5
  <2>4. CASE /\ cs' = [Placed EXCEPT !.nextTask = "EndIteration"]
             /\ UNCHANGED <<disk, board, published>>
    BY <1>0, <2>0, <2>2, <2>4
  <2> QED BY <1>6, <2>1, <2>3, <2>4 DEF SlotToElementInfo
<1>7. CASE SlotToElementData
  <2>0. /\ cs.nextTask = "SlotToElementData"
        /\ cs.hasSlots /\ cs.fno \in File
        /\ cs.sectorBegin <= cs.sectorCurrent
        /\ cs.element < MaxSlots
        /\ UNCHANGED environment
    BY <1>0, <1>7 DEF SlotToElementData, SectorsLeft, At, StagesOK, InSlot
  <2> DEFINE k == cs.sectorCurrent - cs.sectorBegin + 1
  <2>1. CASE /\ \E w \in LinearWrite(cs.sectorCurrent, Data(cs.fno, k)) :
                  /\ disk' = w.disk
                  /\ cs' = IF w.ok
                           THEN [cs EXCEPT !.sectorCurrent = @ + 1]
                           ELSE [cs EXCEPT !.nextTask = "EndIteration"]
             /\ UNCHANGED <<board, published>>
    <3>1. PICK w \in LinearWrite(cs.sectorCurrent, Data(cs.fno, k)) :
            /\ disk' = w.disk
            /\ cs' = IF w.ok
                     THEN [cs EXCEPT !.sectorCurrent = @ + 1]
                     ELSE [cs EXCEPT !.nextTask = "EndIteration"]
      BY <2>1
    <3>2. Data(cs.fno, k) \in Content
      <4>1. k \in Nat
        BY <1>0, <2>0 DEF CsType
      <4> HIDE DEF k
      <4> QED BY <2>0, <4>1, ContentTypes
    <3>3. disk' \in [Sector -> Content]
      <4> HIDE DEF k
      <4> QED BY <1>0, <3>1, <3>2, WriteType
    <3>4. CASE w.ok
      <4>0. /\ cs' = [cs EXCEPT !.sectorCurrent = cs.sectorCurrent + 1]
            /\ cs.sectorBegin \in Nat /\ cs.sectorCurrent \in Nat
            /\ cs.sectorCurrent + 1 \in Nat
        BY <1>0, <3>1, <3>4 DEF CsType
      <4>1. /\ cs' \in CsType
            /\ cs'.nextTask = "SlotToElementData"
            /\ cs'.hasSlots = cs.hasSlots
            /\ cs'.fno = cs.fno
            /\ cs'.element = cs.element
            /\ cs'.sectorBegin = cs.sectorBegin
            /\ cs'.sectorCurrent = cs.sectorCurrent + 1
        BY <1>0, <2>0, <4>0 DEF CsType
      <4>2. StagesOK'
        BY <2>0, <4>0, <4>1 DEF StagesOK, InSlot
      <4> QED BY <1>0, <2>0, <2>1, <3>3, <4>1, <4>2
    <3>5. CASE ~w.ok
      <4>1. Goto("EndIteration")
        BY <3>1, <3>5 DEF Goto
      <4> QED BY <1>0, <2>0, <2>1, <3>3, <4>1, GotoEndType
    <3> QED BY <3>4, <3>5
  <2>2. CASE Halt
    BY <1>0, <2>0, <2>2 DEF Halt, StagesOK
  <2>3. CASE Goto("EndIteration") /\ UNCHANGED <<disk, board, published>>
    BY <1>0, <2>0, <2>3, GotoEndType
  <2> QED BY <1>7, <2>1, <2>2, <2>3 DEF SlotToElementData
<1>8. CASE SealElement
  <2> DEFINE lastData == Data(cs.fno, cs.sectorEnd - cs.sectorBegin + 1)
             sector   == InfoSector(cs.element)
  <2>0. /\ sector \in Sector
        /\ cs.element < MaxSlots
        /\ cs.nextTask = "SlotToElementData"
        /\ UNCHANGED <<board, published, environment>>
    BY <1>0, <1>1, <1>8 DEF SealElement, SectorsLeft, At, StagesOK, InSlot
  <2>1. PICK r \in LinearRead(sector, {lastData, Junk}) :
          IF ~r.ok
          THEN Goto("EndIteration") /\ UNCHANGED disk
          ELSE \E c \in Seals(r.data) : \E w \in LinearWrite(sector, c) :
                 /\ disk' = w.disk
                 /\ Goto(IF w.ok THEN "NextIteration" ELSE "EndIteration")
    BY <1>8 DEF SealElement
  <2>2. CASE ~r.ok
    BY <1>0, <2>0, <2>1, <2>2, GotoEndType
  <2>3. CASE r.ok
    <3>0. PICK c \in Seals(r.data) :
            \E w \in LinearWrite(sector, c) :
              /\ disk' = w.disk
              /\ Goto(IF w.ok THEN "NextIteration" ELSE "EndIteration")
      BY <2>1, <2>3
    <3>1. PICK w \in LinearWrite(sector, c) :
            /\ disk' = w.disk
            /\ Goto(IF w.ok THEN "NextIteration" ELSE "EndIteration")
      BY <3>0
    <3>2. c \in Content
      <4>1. CASE r.data \in Content
        BY <4>1, SealedType
      <4>2. CASE r.data = lastData
        BY <4>2, ContentTypes DEF Seals, Data
      <4> HIDE DEF lastData
      <4>3. r.data = disk[sector] \/ r.data \in {lastData, Junk}
        BY ReadGives
      <4> HIDE DEF sector
      <4> QED BY <1>0, <2>0, <4>1, <4>2, <4>3, ContentTypes
    <3> HIDE DEF sector
    <3>3. disk' \in [Sector -> Content]
      BY <1>0, <3>1, <3>2, WriteType
    <3> DEFINE stage == IF w.ok THEN "NextIteration" ELSE "EndIteration"
    <3>4. stage \in {"NextIteration", "EndIteration"} /\ Goto(stage)
      BY <3>1
    <3> HIDE DEF stage
    <3>5. cs' \in CsType /\ cs'.nextTask = stage /\ cs'.element = cs.element
      BY <1>0, <3>4, GotoType DEF Stage
    <3>6. StagesOK'
      BY <2>0, <3>4, <3>5 DEF StagesOK, InSlot
    <3> QED BY <1>0, <2>0, <3>3, <3>5, <3>6
  <2> QED BY <2>2, <2>3
<1>9. CASE CheckElementInfo
  <2>0. /\ cs.nextTask = "CheckElementInfo"
        /\ InfoSector(cs.element) \in Sector
        /\ cs.element < MaxSlots
        /\ cs.hasSlots => cs.fno \in File
        /\ UNCHANGED environment
    BY <1>0, <1>1, <1>9 DEF CheckElementInfo, At, StagesOK, InSlot
  <2>1. PICK r \in LinearRead(InfoSector(cs.element), Stale) :
          \/ /\ r.ok /\ ChecksumOk(r.data) /\ r.data.kind = "info"
             /\ UseElementInfo(r.data, r.data.begin, r.data.end, r.data.file)
          \/ /\ r.ok /\ ChecksumOk(r.data) /\ r.data.kind # "info"
             /\ \E range \in GarbageRange :
                  UseElementInfo(r.data, range[1], range[2], NoFile)
          \/ /\ ~(r.ok /\ ChecksumOk(r.data))
             /\ Goto(IF r.ok THEN "SlotToElementInfo" ELSE "EndIteration")
             /\ UNCHANGED <<disk, board, published>>
    BY <1>9 DEF CheckElementInfo
  <2>2. r.data \in Content
    <3>1. Stale \subseteq Content
      BY <1>0, ContentTypes DEF Stale
    <3> QED BY <1>0, <2>0, <3>1, ReadGives
  <2>3. ASSUME NEW c, NEW begin \in Nat, NEW end \in Nat,
               NEW stored \in File \cup {NoFile},
               UseElementInfo(c, begin, end, stored)
        PROVE  Typed
    <3>1. cs' \in CsType /\ StagesOK' /\ UNCHANGED <<disk, published>>
      BY <1>0, <2>0, <2>3, UseElementInfoType
    <3>2. board' \in {"Off", "On", "Halted"}
      BY <1>0, <2>3 DEF UseElementInfo, Halt
    <3> QED BY <1>0, <2>0, <3>1, <3>2
  <2>4. CASE /\ r.data.kind = "info"
             /\ UseElementInfo(r.data, r.data.begin, r.data.end, r.data.file)
    BY <2>2, <2>3, <2>4, ContentFields
  <2>5. CASE \E range \in GarbageRange :
               UseElementInfo(r.data, range[1], range[2], NoFile)
    <3>1. PICK range \in GarbageRange :
            UseElementInfo(r.data, range[1], range[2], NoFile)
      BY <2>5
    <3>2. range[1] \in Nat /\ range[2] \in Nat
      BY VolumeAssumption DEF GarbageRange
    <3> QED BY <2>3, <3>1, <3>2
  <2>6. CASE /\ Goto(IF r.ok THEN "SlotToElementInfo" ELSE "EndIteration")
             /\ UNCHANGED <<disk, board, published>>
    <3> DEFINE stage == IF r.ok THEN "SlotToElementInfo" ELSE "EndIteration"
    <3>1. stage \in {"SlotToElementInfo", "EndIteration"} /\ Goto(stage)
      BY <2>6
    <3> HIDE DEF stage
    <3>2. /\ cs' \in CsType
          /\ cs'.nextTask = stage
          /\ cs'.element = cs.element
          /\ cs'.fno = cs.fno
          /\ cs'.hasSlots = cs.hasSlots
      BY <1>0, <3>1, GotoType DEF Stage
    <3>3. StagesOK'
      BY <2>0, <3>1, <3>2 DEF StagesOK, InSlot
    <3> QED BY <1>0, <2>0, <2>6, <3>2, <3>3
  <2> QED BY <2>1, <2>4, <2>5, <2>6
<1>10. CASE CheckElementData
  <2>0. /\ cs.nextTask = "CheckElementData"
        /\ cs.element < MaxSlots
        /\ UNCHANGED environment
    BY <1>0, <1>10 DEF CheckElementData, SectorsLeft, At, StagesOK, InSlot
  <2>1. CASE Halt
    BY <1>0, <2>0, <2>1 DEF Halt, StagesOK
  <2>2. CASE /\ \E r \in LinearRead(cs.sectorCurrent, Stale) :
                  cs' = IF r.ok
                        THEN [cs EXCEPT
                               !.sectorCurrent = @ + 1,
                               !.unread = @ \/ ~r.given,
                               !.crcOk = @ /\ r.data = StoredPart(
                                           cs.sectorCurrent - cs.sectorBegin + 1)]
                        ELSE [cs EXCEPT !.nextTask = "EndIteration"]
             /\ UNCHANGED <<disk, board, published>>
    <3>1. PICK r \in LinearRead(cs.sectorCurrent, Stale) :
            cs' = IF r.ok
                  THEN [cs EXCEPT
                         !.sectorCurrent = @ + 1,
                         !.unread = @ \/ ~r.given,
                         !.crcOk = @ /\ r.data = StoredPart(
                                     cs.sectorCurrent - cs.sectorBegin + 1)]
                  ELSE [cs EXCEPT !.nextTask = "EndIteration"]
      BY <2>2
    <3>2. CASE ~r.ok
      BY <1>0, <2>0, <2>2, <3>1, <3>2, GotoEndType DEF Goto
    <3>3. CASE r.ok
      <4> DEFINE next   == cs.sectorCurrent + 1
                 unread == cs.unread \/ ~r.given
                 ok == cs.crcOk /\ r.data = StoredPart(
                                     cs.sectorCurrent - cs.sectorBegin + 1)
      <4>1. cs' = [cs EXCEPT !.sectorCurrent = next, !.unread = unread,
                             !.crcOk = ok]
        BY <3>1, <3>3
      <4>2. next \in Nat
        BY <1>0 DEF CsType
      <4>3. unread \in BOOLEAN /\ ok \in BOOLEAN
        OBVIOUS
      <4> HIDE DEF next, unread, ok
      <4>4. /\ cs' \in CsType
            /\ cs'.nextTask = "CheckElementData"
            /\ cs'.element = cs.element
        BY <1>0, <2>0, <4>1, <4>2, <4>3 DEF CsType
      <4>5. StagesOK'
        BY <2>0, <4>4 DEF StagesOK, InSlot
      <4> QED BY <1>0, <2>0, <2>2, <4>4, <4>5
    <3> QED BY <3>2, <3>3
  <2> QED BY <1>10, <2>1, <2>2 DEF CheckElementData
<1>11. CASE CheckElementCrc
  <2> DEFINE stage == IF cs.crcOk /\ cs.stored # NoFile
                      THEN "NextIteration" ELSE "EndIteration"
  <2>1. /\ Goto(stage)
        /\ stage \in {"NextIteration", "EndIteration"}
        /\ cs.element < MaxSlots
        /\ UNCHANGED <<disk, board, published, environment>>
    BY <1>0, <1>11 DEF CheckElementCrc, At, StagesOK, InSlot
  <2> HIDE DEF stage
  <2>2. cs' \in CsType /\ cs'.nextTask = stage /\ cs'.element = cs.element
    BY <1>0, <2>1, GotoType DEF Stage
  <2>3. StagesOK'
    BY <2>1, <2>2 DEF StagesOK, InSlot
  <2> QED BY <1>0, <2>1, <2>2, <2>3
<1>12. CASE NextIteration
  <2> DEFINE stage == IF MoreElements THEN "BeginIteration"
                                      ELSE "EndIteration"
  <2>1. /\ cs' = [cs EXCEPT !.element = cs.element + 1, !.nextTask = stage]
        /\ stage \in {"BeginIteration", "EndIteration"}
        /\ cs.element < MaxSlots
        /\ UNCHANGED <<disk, board, published, environment>>
    BY <1>0, <1>12 DEF NextIteration, At, StagesOK, InSlot
  <2>2. /\ cs.element + 1 \in 0 .. MaxSlots
        /\ stage = "BeginIteration" /\ ~cs.hasSlots
             => cs.element + 1 < MaxSlots
    BY <1>0, <2>1 DEF CsType, MoreElements
  <2> HIDE DEF stage
  <2>3. /\ cs' \in CsType
        /\ cs'.nextTask = stage
        /\ cs'.element = cs.element + 1
        /\ cs'.hasSlots = cs.hasSlots
    BY <1>0, <2>1, <2>2 DEF CsType, Stage
  <2>4. StagesOK'
    BY <2>1, <2>2, <2>3 DEF StagesOK, InSlot
  <2> QED BY <1>0, <2>1, <2>3, <2>4
<1>13. CASE EndIteration
  <2> DEFINE stage == IF cs.writeSector0 THEN "WriteSector0" ELSE "Done"
  <2>1. /\ Goto(stage)
        /\ stage \in {"EndIteration", "WriteSector0", "Done"}
        /\ UNCHANGED <<disk, board, published, environment>>
    BY <1>13 DEF EndIteration
  <2> HIDE DEF stage
  <2> QED BY <1>0, <2>1, GotoEndType
<1>14. CASE WriteSector0
  <2>1. PICK w \in LinearWrite(0, HeadSector(version, cs.element)) :
          disk' = w.disk
    BY <1>14 DEF WriteSector0
  <2>2. /\ published' = cs.element
        /\ cs.element \in 0 .. MaxSlots
        /\ Goto("Done")
        /\ UNCHANGED <<board, environment>>
    BY <1>0, <1>14 DEF WriteSector0, CsType
  <2>3. disk' \in [Sector -> Content]
    BY <1>0, <2>1, <2>2, ContentTypes, WriteType
  <2>4. cs' \in CsType /\ StagesOK'
    BY <1>0, <2>2, GotoEndType
  <2> QED BY <1>0, <2>2, <2>3, <2>4
<1> QED BY <1>2, <1>3, <1>4, <1>5, <1>6, <1>7, <1>8, <1>9, <1>10, <1>11,
           <1>12, <1>13, <1>14 DEF ProcessNextTask

LEMMA NextTypeInv == TypeInv /\ [Next]_vars => TypeInv'
<1> SUFFICES ASSUME TypeInv, [Next]_vars PROVE TypeInv'
  OBVIOUS
<1>0. /\ disk \in [Sector -> Content]
      /\ slots \in [Slot -> File \cup {NoFile}]
      /\ version \in Version
      /\ board \in {"Off", "On", "Halted"}
      /\ volumes \subseteq Role
      /\ cs \in CsType
      /\ published \in 0 .. MaxSlots
      /\ StagesOK
  BY DEF TypeInv, TypeOK, CsType
<1>1. CASE ProcessNextTask
  <2>1. /\ disk' \in [Sector -> Content]
        /\ cs' \in CsType
        /\ published' \in 0 .. MaxSlots
        /\ board' \in {"Off", "On", "Halted"}
        /\ UNCHANGED environment
        /\ StagesOK'
    BY <1>1, ProcessTypeInv
  <2>2. UNCHANGED <<slots, version, volumes>>
    BY <2>1 DEF environment
  <2> QED BY <1>0, <2>1, <2>2 DEF TypeInv, TypeOK, CsType
<1>2. ASSUME NEW skip \in BOOLEAN, cs' = FreshState(skip), published' = 0
      PROVE  cs' \in CsType /\ StagesOK' /\ published' \in 0 .. MaxSlots
  <2>1. cs' \in CsType /\ cs'.nextTask = "Start" /\ cs'.element = 0
    BY <1>2, FreshType
  <2> QED BY <1>2, <2>1, CacheAssumption DEF StagesOK, InSlot
<1>3. ASSUME NEW boot \in Boots, PowerOn(boot)
      PROVE  TypeInv'
  <2>1. boot.skip \in BOOLEAN /\ boot.roles \subseteq Role
    BY CacheAssumption DEF Role
  <2>2. /\ cs' = FreshState(boot.skip) /\ published' = 0
        /\ board' = "On" /\ volumes' = boot.roles
        /\ UNCHANGED <<disk, slots, version>>
    BY <1>3 DEF PowerOn
  <2>3. cs' \in CsType /\ StagesOK' /\ published' \in 0 .. MaxSlots
    BY <1>2, <2>1, <2>2
  <2> QED BY <1>0, <2>1, <2>2, <2>3 DEF TypeInv, TypeOK, CsType
<1>4. CASE PowerOff
  <2>1. /\ cs' = FreshState(FALSE) /\ published' = 0
        /\ board' = "Off" /\ volumes' = {}
        /\ UNCHANGED <<slots, version>>
    BY <1>4 DEF PowerOff
  <2>2. cs' \in CsType /\ StagesOK' /\ published' \in 0 .. MaxSlots
    BY <1>2, <2>1
  <2>3. disk' \in [Sector -> Content]
    BY <1>0, <1>4, ContentTypes DEF PowerOff
  <2> QED BY <1>0, <2>1, <2>2, <2>3 DEF TypeInv, TypeOK, CsType
<1>5. ASSUME NEW e \in Slot, NEW f \in File \cup {NoFile}, EditSlot(e, f)
      PROVE  TypeInv'
  BY <1>0, <1>5 DEF EditSlot, TypeInv, TypeOK, CsType, StagesOK
<1>6. ASSUME NEW v \in Version, UpgradeFirmware(v)
      PROVE  TypeInv'
  BY <1>0, <1>6 DEF UpgradeFirmware, TypeInv, TypeOK, CsType, StagesOK
<1>7. CASE UNCHANGED vars
  BY <1>0, <1>7 DEF vars, TypeInv, TypeOK, CsType, StagesOK
<1> QED BY <1>1, <1>3, <1>4, <1>5, <1>6, <1>7 DEF Next

(***************************************************************************)
(* Elements and counts stay within the slots, and every sector of the      *)
(* partition is one of the kinds cache.c writes, whatever the media does,  *)
(* whenever the power goes and whichever slots are edited.                 *)
(***************************************************************************)
THEOREM CacheTypeCorrect == Spec => []TypeOK
<1>1. TypeInv => TypeOK
  BY DEF TypeInv
<1> QED BY <1>1, InitTypeInv, NextTypeInv, PTL DEF Spec

THEOREM TypeInvHolds == Spec => []TypeInv
BY InitTypeInv, NextTypeInv, PTL DEF Spec

-----------------------------------------------------------------------------
(* That a check advances: every step of it keeps the element, or goes on   *)
(* to the next one, and moves to a later stage or to a later sector.       *)

(* The stages in the order that a check goes through them.                 *)
LEMMA StageOrder ==
  /\ cs.nextTask = "Start" => StagesToGo = 10
  /\ cs.nextTask = "ReadSector0" => StagesToGo = 9
  /\ cs.nextTask = "BeginIteration" => StagesToGo = 8
  /\ cs.nextTask = "ReadSlot" => StagesToGo = 7
  /\ cs.nextTask = "CheckElementInfo" => StagesToGo = 6
  /\ cs.nextTask = "SlotToElementInfo" => StagesToGo = 5
  /\ cs.nextTask \in {"SlotToElementData", "CheckElementData"} => StagesToGo = 4
  /\ cs.nextTask = "NextIteration" => StagesToGo = 3
  /\ cs.nextTask = "EndIteration" => StagesToGo = 2
  /\ cs.nextTask = "WriteSector0" => StagesToGo = 1
  /\ cs.nextTask = "Done" => StagesToGo = 0
BY DEF StagesToGo

LEMMA StageOrderNext ==
  /\ cs'.nextTask = "Start" => StagesToGo' = 10
  /\ cs'.nextTask = "ReadSector0" => StagesToGo' = 9
  /\ cs'.nextTask = "BeginIteration" => StagesToGo' = 8
  /\ cs'.nextTask = "ReadSlot" => StagesToGo' = 7
  /\ cs'.nextTask = "CheckElementInfo" => StagesToGo' = 6
  /\ cs'.nextTask = "SlotToElementInfo" => StagesToGo' = 5
  /\ cs'.nextTask \in {"SlotToElementData", "CheckElementData"} => StagesToGo' = 4
  /\ cs'.nextTask = "NextIteration" => StagesToGo' = 3
  /\ cs'.nextTask = "EndIteration" => StagesToGo' = 2
  /\ cs'.nextTask = "WriteSector0" => StagesToGo' = 1
  /\ cs'.nextTask = "Done" => StagesToGo' = 0
BY DEF StagesToGo

(* What is left is counted in natural numbers.                             *)
LEMMA ToGoType ==
  TypeOK => /\ ElementsToGo \in Nat
            /\ StagesToGo \in Nat
            /\ SectorsToGo \in Nat
<1> SUFFICES ASSUME TypeOK
             PROVE  ElementsToGo \in Nat /\ StagesToGo \in Nat /\ SectorsToGo \in Nat
  OBVIOUS
<1>1. /\ MaxSlots \in Nat /\ cs.element \in 0 .. MaxSlots /\ cs.nextTask \in Stage
      /\ cs.sectorEnd \in Nat /\ cs.sectorCurrent \in Nat
  BY CacheAssumption DEF TypeOK
<1>2. ElementsToGo \in Nat
  BY <1>1 DEF ElementsToGo
<1>3. StagesToGo \in Nat
  BY <1>1, StageOrder DEF Stage
<1>4. SectorsToGo \in Nat
  BY <1>1 DEF SectorsToGo, SectorsLeft
<1> QED
  BY <1>2, <1>3, <1>4

LEMMA ToGoTypeNext ==
  TypeOK' => /\ ElementsToGo' \in Nat
             /\ StagesToGo' \in Nat
             /\ SectorsToGo' \in Nat
<1> SUFFICES ASSUME TypeOK'
             PROVE  /\ ElementsToGo' \in Nat
                    /\ StagesToGo' \in Nat
                    /\ SectorsToGo' \in Nat
  OBVIOUS
<1>1. /\ MaxSlots \in Nat /\ cs'.element \in 0 .. MaxSlots
      /\ cs'.nextTask \in Stage
      /\ cs'.sectorEnd \in Nat /\ cs'.sectorCurrent \in Nat
  BY CacheAssumption DEF TypeOK
<1>2. ElementsToGo' \in Nat
  BY <1>1 DEF ElementsToGo
<1>3. StagesToGo' \in Nat
  BY <1>1, StageOrderNext DEF Stage
<1>4. SectorsToGo' \in Nat
  BY <1>1 DEF SectorsToGo, SectorsLeft
<1> QED
  BY <1>2, <1>3, <1>4

(* A step to a later stage of the same element advances.                   *)
LEMMA LaterStage ==
  ASSUME cs'.element = cs.element, StagesToGo' < StagesToGo
  PROVE  Advances
BY DEF Advances, ElementsToGo

(* So does one to a later sector in the same stage.                        *)
LEMMA LaterSector ==
  ASSUME cs \in CsType, SectorsLeft,
         cs'.element = cs.element, cs'.nextTask = cs.nextTask,
         cs'.sectorEnd = cs.sectorEnd, cs'.sectorCurrent = cs.sectorCurrent + 1
  PROVE  Advances
<1>1. cs.sectorEnd \in Nat /\ cs.sectorCurrent \in Nat
  BY DEF CsType
<1>2. SectorsToGo' < SectorsToGo
  BY <1>1 DEF SectorsToGo, SectorsLeft
<1>3. ElementsToGo' = ElementsToGo /\ StagesToGo' = StagesToGo
  BY DEF ElementsToGo, StagesToGo
<1> QED
  BY <1>2, <1>3 DEF Advances

(* checkElementInfo goes on with the element, rewrites it or stops.        *)
LEMMA UseAdvances ==
  ASSUME cs \in CsType, cs.nextTask = "CheckElementInfo",
         NEW c, NEW begin \in Nat, NEW end \in Nat,
         NEW stored \in File \cup {NoFile},
         UseElementInfo(c, begin, end, stored)
  PROVE  Advances \/ board' = "Halted"
<1>1. CASE ProgressTraps(end - begin + 1)
  BY <1>1 DEF UseElementInfo, Halt
<1>2. CASE ~ ProgressTraps(end - begin + 1)
  <2>1. /\ cs'.element = cs.element
        /\ cs'.nextTask \in {"SlotToElementInfo", "NextIteration",
                             "CheckElementData"}
    BY <1>2 DEF UseElementInfo, Loaded, CsType
  <2> QED
    BY <2>1, LaterStage, StageOrder, StageOrderNext
<1> QED
  BY <1>1, <1>2

(* Each task of the check leaves less to do.                               *)
LEMMA ProcessAdvances ==
  ASSUME TypeInv, ProcessNextTask
  PROVE  Advances \/ board' = "Halted"
<1>0. /\ cs \in CsType /\ disk \in [Sector -> Content] /\ StagesOK
      /\ MaxSlots \in Nat
  BY CacheAssumption DEF TypeInv, TypeOK, CsType
<1> USE StageOrder, StageOrderNext
<1>1. CASE Start
  <2>1. /\ cs.nextTask = "Start" /\ cs'.element = cs.element
        /\ cs'.nextTask \in {"ReadSector0", "Done"}
    BY <1>0, <1>1 DEF Start, At, CsType
  <2> QED
    BY <2>1, LaterStage
<1>2. CASE ReadSector0
  <2>1. /\ cs.nextTask = "ReadSector0" /\ cs'.element = cs.element
        /\ cs'.nextTask \in {"BeginIteration", "Done"}
    BY <1>0, <1>2 DEF ReadSector0, At, CsType, Goto
  <2> QED
    BY <2>1, LaterStage
<1>3. CASE BeginIteration
  <2>1. /\ cs.nextTask = "BeginIteration" /\ cs'.element = cs.element
        /\ cs'.nextTask \in {"ReadSlot", "CheckElementInfo"}
    BY <1>0, <1>3 DEF BeginIteration, At, CsType, Goto
  <2> QED
    BY <2>1, LaterStage
<1>4. CASE ReadSlot
  <2>1. /\ cs.nextTask = "ReadSlot" /\ cs'.element = cs.element
        /\ cs'.nextTask \in {"CheckElementInfo", "SlotToElementInfo",
                             "EndIteration"}
    BY <1>0, <1>4 DEF ReadSlot, At, CsType, Goto
  <2> QED
    BY <2>1, LaterStage
<1>5. CASE SlotToElementInfo
  <2>1. CASE board' = "Halted"
    BY <2>1
  <2>2. CASE \E stage \in {"SlotToElementData", "EndIteration"} :
               cs' = [Placed EXCEPT !.nextTask = stage]
    <3>1. /\ cs'.element = cs.element
          /\ cs'.nextTask \in {"SlotToElementData", "EndIteration"}
      BY <1>0, <2>2, PlacedType DEF CsType
    <3>2. cs.nextTask = "SlotToElementInfo"
      BY <1>5 DEF SlotToElementInfo, At
    <3> QED
      BY <3>1, <3>2, LaterStage
  <2> QED
    BY <1>5, <2>1, <2>2 DEF SlotToElementInfo, Halt
<1>6. CASE SlotToElementData
  <2>1. cs.nextTask = "SlotToElementData" /\ SectorsLeft
    BY <1>6 DEF SlotToElementData, At
  <2>2. CASE cs' = [cs EXCEPT !.sectorCurrent = @ + 1]
    BY <1>0, <2>1, <2>2, LaterSector DEF CsType
  <2>3. CASE Goto("EndIteration")
    <3>1. cs'.element = cs.element /\ cs'.nextTask = "EndIteration"
      BY <1>0, <2>3 DEF Goto, CsType
    <3> QED
      BY <2>1, <3>1, LaterStage
  <2>4. CASE board' = "Halted"
    BY <2>4
  <2> QED
    BY <1>6, <2>2, <2>3, <2>4 DEF SlotToElementData, Halt, Goto
<1>7. CASE SealElement
  <2>1. /\ cs.nextTask = "SlotToElementData" /\ cs'.element = cs.element
        /\ cs'.nextTask \in {"NextIteration", "EndIteration"}
    BY <1>0, <1>7 DEF SealElement, At, Goto, CsType
  <2> QED
    BY <2>1, LaterStage
<1>8. CASE CheckElementInfo
  <2>1. cs.nextTask = "CheckElementInfo" /\ cs.element < MaxSlots
    BY <1>0, <1>8 DEF CheckElementInfo, At, StagesOK, InSlot
  <2>2. PICK r \in LinearRead(InfoSector(cs.element), Stale) :
       \/ /\ r.ok /\ ChecksumOk(r.data) /\ r.data.kind = "info"
          /\ UseElementInfo(r.data, r.data.begin, r.data.end, r.data.file)
       \/ /\ r.ok /\ ChecksumOk(r.data) /\ r.data.kind # "info"
          /\ \E range \in GarbageRange :
               UseElementInfo(r.data, range[1], range[2], NoFile)
       \/ /\ ~(r.ok /\ ChecksumOk(r.data))
          /\ Goto(IF r.ok THEN "SlotToElementInfo" ELSE "EndIteration")
    BY <1>8 DEF CheckElementInfo
  <2>3. r.data \in Content
    <3>1. InfoSector(cs.element) \in Sector
      BY <1>0, <2>1, CacheAssumption, VolumeAssumption
      DEF CsType, Sector, InfoSector
    <3>2. Stale \subseteq Content
      BY <1>0, ContentTypes DEF Stale
    <3> QED
      BY <1>0, <3>1, <3>2, ReadGives
  <2>4. CASE /\ r.data.kind = "info"
             /\ UseElementInfo(r.data, r.data.begin, r.data.end, r.data.file)
    <3>1. r.data.begin \in Nat /\ r.data.end \in Nat /\ r.data.file \in File
      BY <2>3, <2>4, ContentFields
    <3> QED
      BY <1>0, <2>1, <2>4, <3>1, UseAdvances
  <2>5. CASE \E range \in GarbageRange :
               UseElementInfo(r.data, range[1], range[2], NoFile)
    <3>1. PICK range \in GarbageRange :
            UseElementInfo(r.data, range[1], range[2], NoFile)
      BY <2>5
    <3>2. range[1] \in Nat /\ range[2] \in Nat
      BY VolumeAssumption DEF GarbageRange
    <3> QED
      BY <1>0, <2>1, <3>1, <3>2, UseAdvances
  <2>6. CASE \E stage \in {"SlotToElementInfo", "EndIteration"} : Goto(stage)
    <3>1. /\ cs'.element = cs.element
          /\ cs'.nextTask \in {"SlotToElementInfo", "EndIteration"}
      BY <1>0, <2>6 DEF Goto, CsType
    <3> QED
      BY <2>1, <3>1, LaterStage
  <2> QED
    BY <2>2, <2>4, <2>5, <2>6
<1>9. CASE CheckElementData
  <2>1. cs.nextTask = "CheckElementData" /\ SectorsLeft
    BY <1>9 DEF CheckElementData, At
  <2>2. CASE /\ cs'.element = cs.element /\ cs'.nextTask = cs.nextTask
             /\ cs'.sectorEnd = cs.sectorEnd
             /\ cs'.sectorCurrent = cs.sectorCurrent + 1
    BY <1>0, <2>1, <2>2, LaterSector
  <2>3. CASE cs' = [cs EXCEPT !.nextTask = "EndIteration"]
    <3>1. cs'.element = cs.element /\ cs'.nextTask = "EndIteration"
      BY <1>0, <2>3 DEF CsType
    <3> QED
      BY <2>1, <3>1, LaterStage
  <2>4. CASE board' = "Halted"
    BY <2>4
  <2> QED
    BY <1>0, <1>9, <2>2, <2>3, <2>4 DEF CheckElementData, Halt, CsType
<1>10. CASE CheckElementCrc
  <2>1. /\ cs.nextTask = "CheckElementData" /\ cs'.element = cs.element
        /\ cs'.nextTask \in {"NextIteration", "EndIteration"}
    BY <1>0, <1>10 DEF CheckElementCrc, At, Goto, CsType
  <2> QED
    BY <2>1, LaterStage
<1>11. CASE NextIteration
  <2>1. cs'.element = cs.element + 1 /\ cs.element \in Nat
    BY <1>0, <1>11 DEF NextIteration, CsType
  <2> QED
    BY <1>0, <2>1 DEF Advances, ElementsToGo
<1>12. CASE EndIteration
  <2>1. /\ cs.nextTask = "EndIteration" /\ cs'.element = cs.element
        /\ cs'.nextTask \in {"WriteSector0", "Done"}
    BY <1>0, <1>12 DEF EndIteration, At, Goto, CsType
  <2> QED
    BY <2>1, LaterStage
<1>13. CASE WriteSector0
  <2>1. /\ cs.nextTask = "WriteSector0" /\ cs'.element = cs.element
        /\ cs'.nextTask = "Done"
    BY <1>0, <1>13 DEF WriteSector0, At, Goto, CsType
  <2> QED
    BY <2>1, LaterStage
<1> QED
  BY <1>1, <1>2, <1>3, <1>4, <1>5, <1>6, <1>7, <1>8, <1>9, <1>10, <1>11, <1>12,
     <1>13 DEF ProcessNextTask

(***************************************************************************)
(* Every call of STORAGE_CACHE_ProcessNextTask leaves less to do, with any *)
(* number of slots and whatever the media and the directories give.        *)
(***************************************************************************)
THEOREM CheckAlwaysAdvances == Spec => CheckAdvances
<1>1. TypeInv => (ProcessNextTask => Advances \/ board' = "Halted")
  BY ProcessAdvances
<1>2. Next /\ board = "On" => ProcessNextTask \/ board' = "Off"
  BY DEF Next, PowerOn, PowerOff, EditSlot, UpgradeFirmware
<1>3. TypeInv /\ [Next]_vars
        => [board = "On" /\ board' = "On" => Advances]_vars
  BY <1>1, <1>2
<1> QED
  BY <1>3, InitTypeInv, NextTypeInv, PTL DEF Spec, CheckAdvances

(* Less to do: fewer elements, or as many and fewer stages, or as many of  *)
(* both and fewer sectors.                                                 *)
Less == OpToRel(<, Nat)
LessToDo ==
  LexPairOrdering(Less, LexPairOrdering(Less, Less, Nat, Nat), Nat, Nat \X Nat)

ToDo == <<ElementsToGo, <<StagesToGo, SectorsToGo>>>>

(***************************************************************************)
(* It cannot be left less to do for ever: the steps of Advances go down in *)
(* an order with no infinite descent, so that the loop of checkCache       *)
(* (run.c:850) takes finitely many turns in a boot.                        *)
(***************************************************************************)
THEOREM AdvancesIsWellFounded ==
  /\ IsWellFoundedOn(LessToDo, Nat \X (Nat \X Nat))
  /\ TypeOK /\ TypeOK' /\ Advances => <<ToDo', ToDo>> \in LessToDo
<1>1. IsWellFoundedOn(LessToDo, Nat \X (Nat \X Nat))
  BY NatLessThanWellFounded, WFLexPairOrdering DEF LessToDo, Less
<1>2. ASSUME TypeOK, TypeOK', Advances PROVE <<ToDo', ToDo>> \in LessToDo
  <2>1. /\ ElementsToGo \in Nat /\ StagesToGo \in Nat /\ SectorsToGo \in Nat
        /\ ElementsToGo' \in Nat /\ StagesToGo' \in Nat /\ SectorsToGo' \in Nat
    BY <1>2, ToGoType, ToGoTypeNext
  <2> QED
    BY <1>2, <2>1 DEF Advances, ToDo, LessToDo, Less, LexPairOrdering, OpToRel
<1> QED
  BY <1>1, <1>2

-----------------------------------------------------------------------------
(***************************************************************************)
(* cache.c never compares where it is about to write data with where the   *)
(* info sectors are.  What follows says when that is safe: a partition     *)
(* with room for as many sectors of data as the slots may ever hold, and   *)
(* for their info sectors, keeps the two apart.                            *)
(***************************************************************************)

(* The sectors that n elements of m sectors take.                          *)
Room(n, m) == n * m

(* No file takes more than m sectors, and MaxSlots files of m sectors fit. *)
SlotsFit(m) ==
  /\ m \in Nat
  /\ \A f \in File : FileSectors[f] <= m
  /\ Room(MaxSlots, m) + MaxSlots <= LastSector

(* v may be what sector s holds.                                           *)
SectorFits(v, s, m) ==
  /\ v.kind = "data" => s \in 1 .. LastSector - MaxSlots
  /\ v.kind = "info" => /\ s = InfoSector(v.slot)
                        /\ v.end <= Room(v.slot + 1, m)
  /\ v.kind = "head" => s = 0

DiskFits(m) == \A s \in Sector : SectorFits(disk[s], s, m)

BeforePlacing == {"Start", "ReadSector0", "BeginIteration", "ReadSlot",
                  "CheckElementInfo", "SlotToElementInfo"}

AfterPlacing == {"SlotToElementData", "CheckElementData", "NextIteration"}

(* The elements gone past leave room for those that follow.                *)
CheckFits(m) ==
  /\ cs.nextTask = "Start" => cs.sectorEnd = 0
  /\ cs.hasSlots /\ cs.nextTask \in BeforePlacing
       => cs.sectorEnd <= Room(cs.element, m)
  /\ cs.hasSlots /\ cs.nextTask \in AfterPlacing
       => cs.sectorEnd <= Room(cs.element + 1, m)
  /\ cs.nextTask = "SlotToElementData" => 1 <= cs.sectorBegin

LEMMA RoomFacts ==
  ASSUME NEW m \in Nat
  PROVE  /\ \A n \in Nat : Room(n, m) \in Nat
         /\ \A n \in Nat : Room(n + 1, m) = Room(n, m) + m
         /\ \A n, k \in Nat : n <= k => Room(n, m) <= Room(k, m)
         /\ Room(0, m) = 0
BY DEF Room

LEMMA WriteFits ==
  ASSUME TypeOK, NEW m, DiskFits(m),
         NEW s, NEW v, SectorFits(v, s, m),
         NEW w \in LinearWrite(s, v), disk' = w.disk
  PROVE  DiskFits(m)'
<1>0. disk \in [Sector -> Content]
  BY DEF TypeOK
<1>1. PICK c \in {disk[s], v, Junk} : w.disk = [disk EXCEPT ![s] = c]
  BY <1>0, WriteGives
<1>2. SectorFits(Junk, s, m)
  <2>1. Junk.kind = "junk"
    BY CacheAssumption
  <2> QED BY <2>1 DEF SectorFits
<1>3. ASSUME NEW q \in Sector
      PROVE  SectorFits(disk'[q], q, m)
  <2>1. CASE q = s
    <3>1. disk'[q] = c
      BY <1>0, <1>1, <2>1
    <3> QED BY <1>1, <1>2, <2>1, <3>1 DEF DiskFits
  <2>2. CASE q # s
    <3>1. disk'[q] = disk[q]
      BY <1>0, <1>1, <2>2
    <3> QED BY <3>1 DEF DiskFits
  <2> QED BY <2>1, <2>2
<1> QED BY <1>3 DEF DiskFits

(* Moving on to a later stage of the same element.                         *)
LEMMA GotoFits ==
  ASSUME cs \in CsType, NEW m, CheckFits(m), NEW stage \in Stage, Goto(stage),
         stage \in BeforePlacing => cs.nextTask \in BeforePlacing,
         stage \in AfterPlacing => cs.nextTask \in AfterPlacing,
         stage \notin {"Start", "SlotToElementData"}
  PROVE  CheckFits(m)'
<1>1. /\ cs'.nextTask = stage
      /\ cs'.element = cs.element
      /\ cs'.hasSlots = cs.hasSlots
      /\ cs'.sectorEnd = cs.sectorEnd
  BY GotoType
<1> QED BY <1>1 DEF CheckFits

LEMMA InitFits ==
  ASSUME NEW m \in Nat, Init
  PROVE  DiskFits(m) /\ CheckFits(m)
<1>1. \A s \in Sector : disk[s] = Junk
  BY DEF Init
<1>2. DiskFits(m)
  BY <1>1, CacheAssumption DEF DiskFits, SectorFits
<1>3. cs.nextTask = "Start" /\ cs.hasSlots = FALSE /\ cs.sectorEnd = 0
  BY FreshType DEF Init
<1> QED BY <1>2, <1>3 DEF CheckFits

(* The three steps that write to the partition or place an element.        *)

LEMMA PlaceFits ==
  ASSUME TypeInv, NEW m, SlotsFit(m), DiskFits(m), CheckFits(m),
         SlotToElementInfo
  PROVE  DiskFits(m)' /\ CheckFits(m)'
<1>0. /\ cs \in CsType
      /\ cs.nextTask = "SlotToElementInfo"
      /\ cs.element \in Slot
      /\ cs.element \in Nat
      /\ cs.hasSlots => cs.fno \in File /\ cs.sectorEnd <= Room(cs.element, m)
      /\ m \in Nat
  BY CacheAssumption DEF TypeInv, TypeOK, CsType, SlotToElementInfo, At, Slot,
     StagesOK, InSlot, CheckFits, BeforePlacing, SlotsFit
<1>1. ASSUME cs.hasSlots
      PROVE  Placed.sectorEnd <= Room(cs.element + 1, m)
  <2>1. FileSectors[cs.fno] \in Nat /\ FileSectors[cs.fno] <= m
    BY <1>0, <1>1, CacheAssumption DEF SlotsFit
  <2>2. SectorsOf(cs.fno) = FileSectors[cs.fno]
    BY <1>0, <1>1, CacheAssumption DEF SectorsOf
  <2>3. Placed.sectorEnd = cs.sectorEnd + FileSectors[cs.fno]
    BY <1>0, <2>2, PlacedType
  <2>4. /\ Room(cs.element, m) \in Nat
        /\ Room(cs.element + 1, m) = Room(cs.element, m) + m
    BY <1>0, RoomFacts
  <2>5. cs.sectorEnd \in Nat
    BY <1>0 DEF CsType
  <2> QED BY <1>0, <1>1, <2>1, <2>3, <2>4, <2>5
<1>2. /\ Placed \in CsType
      /\ Placed.sectorBegin = cs.sectorEnd + 1
      /\ Placed.element = cs.element
      /\ Placed.hasSlots = cs.hasSlots
      /\ cs.sectorEnd \in Nat
  BY <1>0, PlacedType DEF CsType
<1>3. ASSUME NEW stage \in {"SlotToElementData", "EndIteration"},
             cs' = [Placed EXCEPT !.nextTask = stage]
      PROVE  CheckFits(m)'
  <2>1. /\ cs'.nextTask = stage
        /\ cs'.element = cs.element
        /\ cs'.hasSlots = cs.hasSlots
        /\ cs'.sectorBegin = cs.sectorEnd + 1
        /\ cs'.sectorEnd = Placed.sectorEnd
    BY <1>2, <1>3 DEF CsType
  <2> QED BY <1>1, <1>2, <2>1 DEF CheckFits, BeforePlacing, AfterPlacing
<1>4. CASE UNCHANGED <<disk, cs>>
  BY <1>4 DEF DiskFits, CheckFits
<1>5. CASE /\ cs.hasSlots
           /\ \E w \in LinearWrite(InfoSector(cs.element),
                         Info(cs.element, cs.fno, Placed.sectorBegin,
                              Placed.sectorEnd, FALSE)) :
                /\ disk' = w.disk
                /\ cs' = [Placed EXCEPT
                     !.nextTask = IF w.ok THEN "SlotToElementData"
                                          ELSE "EndIteration"]
  <2> DEFINE info == Info(cs.element, cs.fno, Placed.sectorBegin,
                          Placed.sectorEnd, FALSE)
  <2>1. PICK w \in LinearWrite(InfoSector(cs.element), info) :
          /\ disk' = w.disk
          /\ cs' = [Placed EXCEPT
               !.nextTask = IF w.ok THEN "SlotToElementData"
                                    ELSE "EndIteration"]
    BY <1>5
  <2>2. SectorFits(info, InfoSector(cs.element), m)
    BY <1>1, <1>5 DEF SectorFits, Info
  <2> HIDE DEF info
  <2>3. DiskFits(m)'
    BY <2>1, <2>2, WriteFits DEF TypeInv
  <2> DEFINE stage == IF w.ok THEN "SlotToElementData" ELSE "EndIteration"
  <2>4. /\ stage \in {"SlotToElementData", "EndIteration"}
        /\ cs' = [Placed EXCEPT !.nextTask = stage]
    BY <2>1
  <2> HIDE DEF stage
  <2> QED BY <1>3, <2>3, <2>4
<1>6. CASE UNCHANGED disk /\ cs' = [Placed EXCEPT !.nextTask = "EndIteration"]
  BY <1>3, <1>6 DEF DiskFits
<1> QED BY <1>4, <1>5, <1>6 DEF SlotToElementInfo, Halt

(* slotToElementData writes below the info sectors.                        *)
LEMMA CopyInRoom ==
  ASSUME TypeInv, NEW m, SlotsFit(m), CheckFits(m), SlotToElementData
  PROVE  cs.sectorCurrent \in 1 .. LastSector - MaxSlots
<1>0. /\ cs \in CsType
      /\ cs.element < MaxSlots
      /\ cs.sectorBegin <= cs.sectorCurrent /\ cs.sectorCurrent <= cs.sectorEnd
      /\ cs.sectorEnd <= Room(cs.element + 1, m)
      /\ 1 <= cs.sectorBegin
      /\ m \in Nat
  BY DEF TypeInv, TypeOK, CsType, SlotToElementData, SectorsLeft, At, StagesOK, InSlot,
         CheckFits, AfterPlacing, SlotsFit
<1>1. /\ cs.element \in Nat /\ cs.element + 1 \in Nat /\ MaxSlots \in Nat
      /\ cs.element + 1 <= MaxSlots
      /\ cs.sectorBegin \in Nat /\ cs.sectorCurrent \in Nat
      /\ cs.sectorEnd \in Nat
      /\ LastSector \in Nat
  BY <1>0, CacheAssumption, VolumeAssumption DEF CsType
<1>2. /\ Room(cs.element + 1, m) \in Nat /\ Room(MaxSlots, m) \in Nat
      /\ Room(cs.element + 1, m) <= Room(MaxSlots, m)
  BY <1>0, <1>1, RoomFacts
<1>3. Room(MaxSlots, m) + MaxSlots <= LastSector
  BY DEF SlotsFit
<1> QED BY <1>0, <1>1, <1>2, <1>3

LEMMA CopyFits ==
  ASSUME TypeInv, NEW m, SlotsFit(m), DiskFits(m), CheckFits(m),
         SlotToElementData
  PROVE  DiskFits(m)' /\ CheckFits(m)'
<1>0. /\ cs \in CsType
      /\ cs.nextTask = "SlotToElementData"
      /\ 1 <= cs.sectorBegin
      /\ m \in Nat
  BY DEF TypeInv, TypeOK, CsType, SlotToElementData, At, CheckFits, SlotsFit
<1>1. cs.sectorCurrent \in 1 .. LastSector - MaxSlots
  BY CopyInRoom
<1>2. CASE UNCHANGED <<disk, cs>>
  BY <1>2 DEF DiskFits, CheckFits
<1>3. ASSUME Goto("EndIteration")
      PROVE  CheckFits(m)'
  BY <1>0, <1>3, GotoFits DEF BeforePlacing, AfterPlacing, Stage
<1>4. CASE \E w \in LinearWrite(cs.sectorCurrent,
                      Data(cs.fno, cs.sectorCurrent - cs.sectorBegin + 1)) :
             /\ disk' = w.disk
             /\ cs' = IF w.ok
                      THEN [cs EXCEPT !.sectorCurrent = @ + 1]
                      ELSE [cs EXCEPT !.nextTask = "EndIteration"]
  <2> DEFINE data == Data(cs.fno, cs.sectorCurrent - cs.sectorBegin + 1)
  <2>1. PICK w \in LinearWrite(cs.sectorCurrent, data) :
             /\ disk' = w.disk
             /\ cs' = IF w.ok
                      THEN [cs EXCEPT !.sectorCurrent = @ + 1]
                      ELSE [cs EXCEPT !.nextTask = "EndIteration"]
    BY <1>4
  <2>2. SectorFits(data, cs.sectorCurrent, m)
    BY <1>1 DEF SectorFits, Data
  <2> HIDE DEF data
  <2>3. DiskFits(m)'
    BY <2>1, <2>2, WriteFits DEF TypeInv
  <2>4. CASE w.ok
    <3>1. /\ cs'.nextTask = cs.nextTask
          /\ cs'.element = cs.element
          /\ cs'.hasSlots = cs.hasSlots
          /\ cs'.sectorBegin = cs.sectorBegin
          /\ cs'.sectorEnd = cs.sectorEnd
      BY <1>0, <2>1, <2>4 DEF CsType
    <3> QED BY <2>3, <3>1 DEF CheckFits
  <2>5. CASE ~w.ok
    BY <1>3, <2>1, <2>3, <2>5 DEF Goto
  <2> QED BY <2>4, <2>5
<1>5. CASE UNCHANGED disk /\ Goto("EndIteration")
  BY <1>3, <1>5 DEF DiskFits
<1> QED BY <1>2, <1>4, <1>5 DEF SlotToElementData, Halt

LEMMA SealFits ==
  ASSUME TypeInv, NEW m, SlotsFit(m), DiskFits(m), CheckFits(m), SealElement
  PROVE  DiskFits(m)' /\ CheckFits(m)'
<1> DEFINE lastData == Data(cs.fno, cs.sectorEnd - cs.sectorBegin + 1)
           sector   == InfoSector(cs.element)
<1>0. /\ cs \in CsType
      /\ cs.nextTask = "SlotToElementData"
      /\ sector \in Sector
  BY CacheAssumption, VolumeAssumption
     DEF TypeInv, TypeOK, CsType, SealElement, At, StagesOK, InSlot, Sector,
         InfoSector
<1>1. ASSUME NEW stage \in {"NextIteration", "EndIteration"}, Goto(stage)
      PROVE  CheckFits(m)'
  BY <1>0, <1>1, GotoFits DEF BeforePlacing, AfterPlacing, Stage
<1>2. PICK r \in LinearRead(sector, {lastData, Junk}) :
        IF ~r.ok
        THEN Goto("EndIteration") /\ UNCHANGED disk
        ELSE \E c \in Seals(r.data) : \E w \in LinearWrite(sector, c) :
               /\ disk' = w.disk
               /\ Goto(IF w.ok THEN "NextIteration" ELSE "EndIteration")
  BY DEF SealElement
<1>3. CASE ~r.ok
  BY <1>1, <1>2, <1>3 DEF DiskFits
<1>4. CASE r.ok
  <2>1. PICK c \in Seals(r.data) :
          \E w \in LinearWrite(sector, c) :
            /\ disk' = w.disk
            /\ Goto(IF w.ok THEN "NextIteration" ELSE "EndIteration")
    BY <1>2, <1>4
  <2>2. PICK w \in LinearWrite(sector, c) :
            /\ disk' = w.disk
            /\ Goto(IF w.ok THEN "NextIteration" ELSE "EndIteration")
    BY <2>1
  <2>3. SectorFits(c, sector, m)
    <3>1. CASE r.data.kind # "info"
      <4>1. c \in {Mangled, Junk}
        BY <2>1, <3>1 DEF Seals
      <4>2. Mangled.kind = "mangled" /\ Junk.kind = "junk"
        BY CacheAssumption DEF Mangled
      <4>3. c.kind \in {"mangled", "junk"}
        BY <4>1, <4>2
      <4> QED BY <4>3 DEF SectorFits
    <3>2. CASE r.data.kind = "info"
      <4>1. r.data = disk[sector] \/ r.data \in {lastData, Junk}
        BY ReadGives
      <4>2. lastData.kind = "data" /\ Junk.kind = "junk"
        BY CacheAssumption DEF Data
      <4>3. r.data = disk[sector]
        BY <3>2, <4>1, <4>2
      <4>4. disk[sector] \in [kind : {"info"}, slot : Slot, file : File,
                              begin : Nat, end : Nat, sealed : BOOLEAN]
        <5>1. disk[sector] \in Content
          BY <1>0 DEF TypeInv, TypeOK
        <5> QED BY <3>2, <4>3, <5>1, CacheAssumption DEF Content, Mangled
      <4>5. c = [disk[sector] EXCEPT !.sealed = TRUE]
        BY <2>1, <3>2, <4>3 DEF Seals
      <4>6. /\ c.kind = disk[sector].kind
            /\ c.slot = disk[sector].slot
            /\ c.end = disk[sector].end
        BY <4>4, <4>5
      <4> QED BY <1>0, <4>6 DEF DiskFits, SectorFits
    <3> QED BY <3>1, <3>2
  <2> HIDE DEF sector
  <2>4. DiskFits(m)'
    BY <2>2, <2>3, WriteFits DEF TypeInv
  <2> DEFINE stage == IF w.ok THEN "NextIteration" ELSE "EndIteration"
  <2>5. stage \in {"NextIteration", "EndIteration"} /\ Goto(stage)
    BY <2>2
  <2> HIDE DEF stage
  <2> QED BY <1>1, <2>4, <2>5
<1> QED BY <1>3, <1>4

(* checkElementInfo takes over the sectors of its own element, or leaves   *)
(* sectorEnd where the previous one ended.                                 *)
LEMMA CheckInfoFits ==
  ASSUME TypeInv, NEW m, DiskFits(m), CheckFits(m), CheckElementInfo
  PROVE  DiskFits(m)' /\ CheckFits(m)'
<1>0. /\ cs \in CsType
      /\ cs.nextTask = "CheckElementInfo"
      /\ cs.hasSlots => cs.sectorEnd <= Room(cs.element, m)
      /\ InfoSector(cs.element) \in Sector
  BY CacheAssumption, VolumeAssumption
     DEF TypeInv, TypeOK, CsType, CheckElementInfo, At, StagesOK, InSlot,
         Sector, InfoSector, CheckFits, BeforePlacing
<1>1. PICK r \in LinearRead(InfoSector(cs.element), Stale) :
        \/ /\ r.ok /\ ChecksumOk(r.data) /\ r.data.kind = "info"
           /\ UseElementInfo(r.data, r.data.begin, r.data.end, r.data.file)
        \/ /\ r.ok /\ ChecksumOk(r.data) /\ r.data.kind # "info"
           /\ \E range \in GarbageRange :
                UseElementInfo(r.data, range[1], range[2], NoFile)
        \/ /\ ~(r.ok /\ ChecksumOk(r.data))
           /\ Goto(IF r.ok THEN "SlotToElementInfo" ELSE "EndIteration")
           /\ UNCHANGED <<disk, board, published>>
  BY DEF CheckElementInfo
<1>2. ASSUME r.data.kind = "info", r.data.slot = cs.element
      PROVE  r.data.end <= Room(cs.element + 1, m)
  <2>1. Junk.kind = "junk"
    BY CacheAssumption
  <2>2. PICK s \in Sector : r.data = disk[s]
    <3>1. r.data = disk[InfoSector(cs.element)] \/ r.data \in Stale
      BY ReadGives
    <3> QED BY <1>0, <1>2, <2>1, <3>1 DEF Stale
  <2> QED BY <1>2, <2>2 DEF DiskFits, SectorFits
<1>3. ASSUME NEW begin, NEW end, NEW stored,
             UseElementInfo(r.data, begin, end, stored),
             r.data.kind = "info" => end = r.data.end
      PROVE  UNCHANGED disk /\ CheckFits(m)'
  <2>1. CASE UNCHANGED <<disk, cs>>
    BY <2>1 DEF CheckFits
  <2>2. CASE /\ cs.hasSlots /\ ~MetricsMatch(r.data)
             /\ UNCHANGED disk
             /\ cs' = [Loaded(begin, end, stored) EXCEPT
                        !.sectorEnd = cs.sectorEnd, !.writeSector0 = TRUE,
                        !.nextTask = "SlotToElementInfo"]
    <3>1. /\ cs'.nextTask = "SlotToElementInfo"
          /\ cs'.element = cs.element
          /\ cs'.sectorEnd = cs.sectorEnd
      BY <1>0, <2>2 DEF Loaded, CsType
    <3> QED BY <1>0, <2>2, <3>1 DEF CheckFits, BeforePlacing, AfterPlacing
  <2>3. CASE /\ cs.hasSlots => MetricsMatch(r.data)
             /\ UNCHANGED disk
             /\ cs' = [Loaded(begin, end, stored) EXCEPT
                        !.nextTask = IF cs.skipElementDataCheck
                                     THEN "NextIteration"
                                     ELSE "CheckElementData"]
    <3>1. /\ cs'.nextTask \in {"NextIteration", "CheckElementData"}
          /\ cs'.element = cs.element
          /\ cs'.hasSlots = cs.hasSlots
          /\ cs'.sectorEnd = end
      BY <1>0, <2>3 DEF Loaded, CsType
    <3>2. cs.hasSlots => end <= Room(cs.element + 1, m)
      BY <1>2, <1>3, <2>3 DEF MetricsMatch
    <3> QED BY <2>3, <3>1, <3>2 DEF CheckFits, BeforePlacing, AfterPlacing
  <2> QED BY <1>3, <2>1, <2>2, <2>3 DEF UseElementInfo, Halt
<1>4. CASE /\ r.data.kind = "info"
           /\ UseElementInfo(r.data, r.data.begin, r.data.end, r.data.file)
  BY <1>3, <1>4 DEF DiskFits
<1>5. CASE /\ r.data.kind # "info"
           /\ \E range \in GarbageRange :
                UseElementInfo(r.data, range[1], range[2], NoFile)
  BY <1>3, <1>5 DEF DiskFits
<1>6. CASE /\ Goto(IF r.ok THEN "SlotToElementInfo" ELSE "EndIteration")
           /\ UNCHANGED disk
  <2> DEFINE stage == IF r.ok THEN "SlotToElementInfo" ELSE "EndIteration"
  <2>1. stage \in {"SlotToElementInfo", "EndIteration"} /\ Goto(stage)
    BY <1>6
  <2> HIDE DEF stage
  <2>2. CheckFits(m)'
    BY <1>0, <2>1, GotoFits DEF BeforePlacing, AfterPlacing, Stage
  <2> QED BY <1>6, <2>2 DEF DiskFits
<1> QED BY <1>1, <1>4, <1>5, <1>6

(* The steps that write nothing but sector 0.                              *)
LEMMA OtherFits ==
  ASSUME TypeInv, NEW m, SlotsFit(m), DiskFits(m), CheckFits(m),
         \/ Start \/ ReadSector0 \/ BeginIteration \/ ReadSlot
         \/ CheckElementData \/ CheckElementCrc
         \/ NextIteration \/ EndIteration \/ WriteSector0
  PROVE  DiskFits(m)' /\ CheckFits(m)'
<1>0. cs \in CsType /\ m \in Nat
  BY DEF TypeInv, TypeOK, CsType, SlotsFit
<1>1. ASSUME UNCHANGED disk
      PROVE  DiskFits(m)'
  BY <1>1 DEF DiskFits
<1>2. ASSUME NEW stage \in {"ReadSlot", "CheckElementInfo", "EndIteration",
                            "NextIteration", "WriteSector0", "Done"},
             Goto(stage),
             stage \in {"ReadSlot", "CheckElementInfo"}
               => cs.nextTask = "BeginIteration",
             stage = "NextIteration" => cs.nextTask = "CheckElementData"
      PROVE  CheckFits(m)'
  BY <1>0, <1>2, GotoFits DEF BeforePlacing, AfterPlacing, Stage
<1>3. CASE Start
  <2>1. /\ cs'.nextTask \in {"ReadSector0", "Done"}
        /\ cs'.element = cs.element
        /\ cs'.sectorEnd = 0
    BY <1>0, <1>3 DEF Start, At, CsType, CheckFits
  <2>2. 0 <= Room(cs.element, m)
    BY <1>0, RoomFacts DEF CsType
  <2> QED BY <1>1, <1>3, <2>1, <2>2
          DEF Start, CheckFits, BeforePlacing, AfterPlacing
<1>4. CASE ReadSector0
  <2>1. CASE Goto("Done")
    BY <1>1, <1>2, <1>4, <2>1 DEF ReadSector0
  <2>2. ASSUME NEW count, NEW write, NEW stage \in {"Done", "BeginIteration"},
               cs' = [cs EXCEPT !.elementCount = count,
                                !.writeSector0 = write, !.nextTask = stage]
        PROVE  CheckFits(m)'
    <3>1. /\ cs'.nextTask = stage
          /\ cs'.element = cs.element
          /\ cs'.hasSlots = cs.hasSlots
          /\ cs'.sectorEnd = cs.sectorEnd
      BY <1>0, <2>2 DEF CsType
    <3> QED BY <1>4, <3>1
            DEF ReadSector0, At, CheckFits, BeforePlacing, AfterPlacing
  <2>3. CASE \E r \in LinearRead(0, {Junk}) :
               LET isHead == r.data.kind = "head"
                   count  == IF isHead THEN r.data.count ELSE 0
                   checks == isHead /\ r.data.version = version
               IN  cs' = [cs EXCEPT
                     !.elementCount = count,
                     !.writeSector0 = cs.hasSlots /\ ~checks,
                     !.nextTask = IF ~cs.hasSlots /\ count = 0
                                  THEN "Done" ELSE "BeginIteration"]
    BY <1>1, <1>4, <2>2, <2>3 DEF ReadSector0
  <2> QED BY <1>4, <2>1, <2>3 DEF ReadSector0
<1>5. CASE BeginIteration
  BY <1>1, <1>2, <1>5 DEF BeginIteration, At
<1>6. CASE ReadSlot
  <2>1. CASE Goto("EndIteration")
    BY <1>1, <1>2, <1>6, <2>1 DEF ReadSlot
  <2>2. ASSUME NEW f, NEW stage \in {"CheckElementInfo", "SlotToElementInfo"},
               cs' = [cs EXCEPT !.fno = f, !.nextTask = stage]
        PROVE  CheckFits(m)'
    <3>1. /\ cs'.nextTask = stage
          /\ cs'.element = cs.element
          /\ cs'.hasSlots = cs.hasSlots
          /\ cs'.sectorEnd = cs.sectorEnd
      BY <1>0, <2>2 DEF CsType
    <3> QED BY <1>6, <3>1
            DEF ReadSlot, At, CheckFits, BeforePlacing, AfterPlacing
  <2>3. CASE cs' = [cs EXCEPT
                     !.fno = SlotFile(cs.element),
                     !.nextTask = IF cs.element < cs.elementCount
                                  THEN "CheckElementInfo"
                                  ELSE "SlotToElementInfo"]
    BY <1>1, <1>6, <2>2, <2>3 DEF ReadSlot
  <2> QED BY <1>6, <2>1, <2>3 DEF ReadSlot
<1>7. CASE CheckElementData
  <2>1. CASE Goto("EndIteration") /\ UNCHANGED disk
    BY <1>1, <1>2, <2>1
  <2>2. CASE UNCHANGED <<disk, cs>>
    BY <1>1, <2>2 DEF CheckFits
  <2>3. ASSUME NEW next, NEW unread, NEW ok, UNCHANGED disk,
               cs' = [cs EXCEPT !.sectorCurrent = next, !.unread = unread,
                                !.crcOk = ok]
        PROVE  DiskFits(m)' /\ CheckFits(m)'
    <3>1. /\ cs'.nextTask = cs.nextTask
          /\ cs'.element = cs.element
          /\ cs'.hasSlots = cs.hasSlots
          /\ cs'.sectorBegin = cs.sectorBegin
          /\ cs'.sectorEnd = cs.sectorEnd
      BY <1>0, <2>3 DEF CsType
    <3> QED BY <1>1, <2>3, <3>1 DEF CheckFits
  <2>4. CASE /\ \E r \in LinearRead(cs.sectorCurrent, Stale) :
                  cs' = IF r.ok
                        THEN [cs EXCEPT
                               !.sectorCurrent = @ + 1,
                               !.unread = @ \/ ~r.given,
                               !.crcOk = @ /\ r.data = StoredPart(
                                           cs.sectorCurrent - cs.sectorBegin + 1)]
                        ELSE [cs EXCEPT !.nextTask = "EndIteration"]
             /\ UNCHANGED disk
    <3>1. PICK r \in LinearRead(cs.sectorCurrent, Stale) :
            cs' = IF r.ok
                  THEN [cs EXCEPT
                         !.sectorCurrent = @ + 1,
                         !.unread = @ \/ ~r.given,
                         !.crcOk = @ /\ r.data = StoredPart(
                                     cs.sectorCurrent - cs.sectorBegin + 1)]
                  ELSE [cs EXCEPT !.nextTask = "EndIteration"]
      BY <2>4
    <3>2. CASE ~r.ok
      BY <2>1, <2>4, <3>1, <3>2 DEF Goto
    <3>3. CASE r.ok
      <4> DEFINE next   == cs.sectorCurrent + 1
                 unread == cs.unread \/ ~r.given
                 ok == cs.crcOk /\ r.data = StoredPart(
                                     cs.sectorCurrent - cs.sectorBegin + 1)
      <4>1. cs' = [cs EXCEPT !.sectorCurrent = next, !.unread = unread,
                             !.crcOk = ok]
        BY <3>1, <3>3
      <4> HIDE DEF next, unread, ok
      <4> QED BY <2>3, <2>4, <4>1
    <3> QED BY <3>2, <3>3
  <2> QED BY <1>7, <2>2, <2>4 DEF CheckElementData, Halt
<1>8. CASE CheckElementCrc
  BY <1>1, <1>2, <1>8 DEF CheckElementCrc, At
<1>9. CASE NextIteration
  <2>1. /\ cs.nextTask = "NextIteration"
        /\ cs'.nextTask \in {"BeginIteration", "EndIteration"}
        /\ cs'.element = cs.element + 1
        /\ cs'.hasSlots = cs.hasSlots
        /\ cs'.sectorEnd = cs.sectorEnd
    BY <1>0, <1>9 DEF NextIteration, At, CsType
  <2>2. CheckFits(m)'
    BY <2>1 DEF CheckFits, BeforePlacing, AfterPlacing
  <2> QED BY <1>1, <1>9, <2>2 DEF NextIteration
<1>10. CASE EndIteration
  BY <1>1, <1>2, <1>10 DEF EndIteration
<1>11. CASE WriteSector0
  <2>1. PICK w \in LinearWrite(0, HeadSector(version, cs.element)) :
          disk' = w.disk
    BY <1>11 DEF WriteSector0
  <2>2. SectorFits(HeadSector(version, cs.element), 0, m)
    BY DEF SectorFits, HeadSector
  <2>3. DiskFits(m)'
    BY <2>1, <2>2, WriteFits DEF TypeInv
  <2> QED BY <1>2, <1>11, <2>3 DEF WriteSector0
<1> QED BY <1>3, <1>4, <1>5, <1>6, <1>7, <1>8, <1>9, <1>10, <1>11

LEMMA NextFits ==
  ASSUME NEW m, SlotsFit(m), TypeInv, DiskFits(m), CheckFits(m), [Next]_vars
  PROVE  DiskFits(m)' /\ CheckFits(m)'
<1>1. CASE ProcessNextTask
  BY <1>1, PlaceFits, CopyFits, SealFits, CheckInfoFits, OtherFits
     DEF ProcessNextTask
<1>2. ASSUME NEW skip \in BOOLEAN, cs' = FreshState(skip)
      PROVE  CheckFits(m)'
  <2>1. /\ cs'.nextTask = "Start" /\ cs'.hasSlots = FALSE
        /\ cs'.sectorEnd = 0
    BY <1>2, FreshType
  <2> QED BY <2>1 DEF CheckFits
<1>3. ASSUME NEW boot \in Boots, PowerOn(boot)
      PROVE  DiskFits(m)' /\ CheckFits(m)'
  <2>1. boot.skip \in BOOLEAN
    BY CacheAssumption
  <2> QED BY <1>2, <1>3, <2>1 DEF PowerOn, DiskFits
<1>4. CASE PowerOff
  <2>1. CheckFits(m)'
    BY <1>2, <1>4 DEF PowerOff
  <2>2. CASE UNCHANGED disk
    BY <2>1, <2>2 DEF DiskFits
  <2>3. ASSUME NEW s, disk' = [disk EXCEPT ![s] = Junk]
        PROVE  DiskFits(m)'
    <3>1. disk \in [Sector -> Content] /\ Junk.kind = "junk"
      BY CacheAssumption DEF TypeInv, TypeOK
    <3> QED BY <2>3, <3>1 DEF DiskFits, SectorFits
  <2> QED BY <1>4, <2>1, <2>2, <2>3 DEF PowerOff
<1>5. ASSUME NEW e \in Slot, NEW f \in File \cup {NoFile}, EditSlot(e, f)
      PROVE  DiskFits(m)' /\ CheckFits(m)'
  BY <1>5 DEF EditSlot, DiskFits, CheckFits
<1>6. ASSUME NEW v \in Version, UpgradeFirmware(v)
      PROVE  DiskFits(m)' /\ CheckFits(m)'
  BY <1>6 DEF UpgradeFirmware, DiskFits, CheckFits
<1>7. CASE UNCHANGED vars
  BY <1>7 DEF vars, DiskFits, CheckFits
<1> QED BY <1>1, <1>3, <1>4, <1>5, <1>6, <1>7 DEF Next

(***************************************************************************)
(* When the partition has room for every slot, no sequence of edits,       *)
(* checks, failed reads and writes, and power losses makes the data of the *)
(* elements creep into the info sectors, or the other way round.           *)
(***************************************************************************)
THEOREM DataStaysClear ==
  ASSUME NEW m, SlotsFit(m)
  PROVE  Spec => []DataClearOfInfo
<1>1. Init => DiskFits(m) /\ CheckFits(m)
  BY InitFits DEF SlotsFit
<1>2. /\ TypeInv /\ DiskFits(m) /\ CheckFits(m)
      /\ [Next]_vars
      => DiskFits(m)' /\ CheckFits(m)'
  BY NextFits
<1>3. DiskFits(m) => DataClearOfInfo
  BY DEF DiskFits, SectorFits, DataClearOfInfo
<1> QED BY <1>1, <1>2, <1>3, TypeInvHolds, PTL DEF Spec

=============================================================================

SPECIFICATION Spec
CONSTANTS
  f1 = f1
  f2 = f2
  File = {f1, f2}
  NoFile = NoFile
  FileSectors <- MCFileSectors
  Archived = {f2}
  MaxSlots = 2
  SlotFiles <- AnyFile
  LastSector = 6
  Boots <- AnyBoot
  Version = {v1, v2}
  Junk <- MCJunk
  ReadsMayFail = FALSE
  WritesMayFail = TRUE
  FilesMayFail = TRUE
  DivByZeroTraps = FALSE
INVARIANTS TypeOK DataClearOfInfo CheckedElementsIntact IntactDataInOrder RebuiltCountUsable
PROPERTIES SealedOnlyWhenComplete CheckAdvances MirrorsSlots
SYMMETRY VersionSymmetry

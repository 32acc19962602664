SPECIFICATION Spec
CONSTANTS
  f1 = f1
  f2 = f2
  File = {f1, f2}
  NoFile = NoFile
  FileSectors <- MCFileSectors
  Archived = {f1, f2}
  MaxSlots = 2
  SlotFiles <- AnyFile
  LastSector = 6
  Boots <- FullCheck
  Version = {1}
  Junk <- MCJunk
  ReadsMayFail = FALSE
  WritesMayFail = FALSE
  FilesMayFail = FALSE
  DivByZeroTraps = FALSE
INVARIANT CountedAreAvailable

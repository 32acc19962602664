SPECIFICATION Spec
CONSTANTS
  small = small
  large = large
  copied = copied
  third = third
  fifth = fifth
  File = {small, large, copied, third, fifth}
  NoFile = NoFile
  FileSectors <- MovedFileSectors
  Archived = {small, large, copied}
  MaxSlots = 5
  SlotFiles <- MovedSlotFiles
  LastSector = 12
  Boots <- MovedBoots
  Version = {1}
  Junk <- MovedJunk
  ReadsMayFail = FALSE
  WritesMayFail = FALSE
  FilesMayFail = FALSE
  DivByZeroTraps = FALSE
PROPERTY PlacedAfterLast

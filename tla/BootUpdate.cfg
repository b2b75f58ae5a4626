\* Two images of different lengths in three cells and two sectors; the counter wraps.
CONSTANTS
  old = old
  new = new
  Blank = Blank
  Garbage = Garbage
  Images = {old, new}
  Length <- SomeLength
  Factory = old
  Cells = 3
  PacketCells = 2
  Sectors <- SomeSectors
  JumpTimeout = 2
  ReadTimeout = 1
  MaxTick = 7
  MaxPackets = 4
  MaxResets = 1
CHECK_DEADLOCK FALSE
SPECIFICATION FairSpec
INVARIANTS
  StartsWhatWasWritten
PROPERTIES
  CompleteStarts

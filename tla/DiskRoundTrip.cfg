CONSTANTS
  NBlocks = 10
  ALL1 = 99
  Header = 2
  BlkSize = 2
  Words = 4
  NSlots = 2
  MaxSize = 9
  MaxSpill = 0
  GarbageOffs = {0}
  GarbageSizes = {0}
  NameBits = {}
  Earlier <- MCEarlier
  SizeMod = 16
SPECIFICATION DiskSpec
INVARIANT RoundTrip
CHECK_DEADLOCK FALSE

CONSTANTS
  NBlocks = 10
  ALL1 = 99
  Header = 2
  BlkSize = 2
  Words = 4
  NSlots = 2
  MaxSize = 9
  MaxSpill = 2
  GarbageOffs = {99, 0, 3, 4, 50}
  GarbageSizes = {0, 9}
  NameBits = {{0, 5}, {0, 1, 3}}
  Earlier <- MCEarlier
  SizeMod = 16
SPECIFICATION DiskSpec
INVARIANTS BitmapExact KilledShowsNothing FileReadBack
PROPERTIES WriteOnce RoundTripEnds
CHECK_DEADLOCK FALSE

CONSTANTS
  NPages = 26
  RefMod = 4
  MaxSkew = 0
  NULL = NULL
  PgSize = 4
  NPT = 8
  NPD = 8
  Ends = {18, 38, 51, 66, 70}
  VramBases = {128, 160, 192}
  VramSizes = {18, 20, 30, 34}
  BufSize = 18
  TestPages = 3
  WalkPages = 3
SPECIFICATION BootSpec
INVARIANT RangeMapped
CHECK_DEADLOCK FALSE

CONSTANTS
  NPages = 26
  RefMod = 4
  MaxSkew = 0
  NULL = NULL
  PgSize = 4
  NPT = 8
  NPD = 8
  Ends = {38}
  VramBases = {128}
  VramSizes = {18}
  BufSize = 18
  TestPages = 3
  WalkPages = 3
  IRQs = {0, 1, 2}
  TssBase <- MCTssBase
  MaxRaised = 2
SPECIFICATION MachineSpec
INVARIANT VectorsBeyondReserved
CHECK_DEADLOCK FALSE

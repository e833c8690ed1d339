CONSTANTS
  NPages = 26
  RefMod = 4
  MaxSkew = 0
  NULL = NULL
  PgSize = 4
  NPT = 8
  NPD = 8
  Ends = {18, 38, 51, 64, 66, 70}
  VramBases = {128, 160, 192}
  VramSizes = {18, 20, 30, 34}
  BufSize = 18
  TestPages = 3
  WalkPages = 3
  IRQs = {0, 1, 2}
  TssBase <- MCTssBase
  MaxRaised = 2
SPECIFICATION MachineSpec
INVARIANTS BootOutcome IdentityMap TablesOwned HandlerAlone NoLineBlocked TssDescribed
PROPERTIES TranslationsStay FirstFrameShown MainUndisturbed
CHECK_DEADLOCK FALSE

CONSTANTS
  NPages = 5
  RefMod = 4
  MaxSkew = 2
  NULL = NULL
SPECIFICATION Spec
INVARIANTS FramesExclusive FreeListSound PanicJustified
PROPERTY PoolSpec
CHECK_DEADLOCK FALSE

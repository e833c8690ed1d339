CONSTANTS
  NPages = 6
  RefMod = 4
  MaxSkew = 0
  NULL = NULL
SPECIFICATION Spec
PROPERTY ReleasedIsFree
CHECK_DEADLOCK FALSE

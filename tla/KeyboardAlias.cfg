CONSTANTS
  Modes <- MCAlias
  c48 = c48
  c39 = c39
  MaxStrokes = 3
SPECIFICATION Spec
INVARIANT WaitsForRelease

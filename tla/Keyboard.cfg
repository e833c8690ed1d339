CONSTANTS
  Modes <- MCModes
  c48 = c48
  c39 = c39
  MaxStrokes = 4
SPECIFICATION Spec
INVARIANT ReadsWholeCodes
PROPERTIES ReaderSpec WaitEnds LoneStrokeReturned

CONSTANTS
  SectSize = 4
  ElfHdr = 4
  HdrSects = 2
  LineA20 = 16
  ModeInfo = {0, 1}
  Segments <- MCSegments
  MaxSegments = 3
SPECIFICATION Spec
INVARIANTS KernelLoaded NothingElseTouched
PROPERTY LoaderEnds
CHECK_DEADLOCK FALSE

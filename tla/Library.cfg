CONSTANTS
  Formats <- MCFormats
  Strings <- MCStrings
  Ints <- MCInts
  LongLongs <- MCLongLongs
  StarArgs <- MCStarArgs
  BufferSizes = {0, 1, 4, 8}
  ErrorString <- MCErrorString
  IntRange = 256
  LongRange = 65536
  LastCell = 9
  Top = 13
  Word = 4
  Memories <- MCMemories
  Dst = 2
  Src = 8
  Counts = {0, 1, 2, 3, 4, 5}
  Chars = {0, 1, 200}
  NBytes = 2
  Bits = 4
  Texts <- MCTexts
  FifoSize = 2
  Xres = 2
  Yres = 2
  pitch = 7
  BufSize = 15
  Points <- MCPoints
  Colors <- MCColors
  Junk = {0, 9}
SPECIFICATION Spec
INVARIANTS SnprintfContract FormatKept StringFields NumberFields MoveExact StringsAsPromised
PROPERTIES MapSpec LogDelivered CanvasSpec
CHECK_DEADLOCK FALSE

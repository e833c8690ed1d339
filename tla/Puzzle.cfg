CONSTANTS
  PicW = 7
  PicH = 9
  BlockW = 3
  BlockH = 3
  Xres = 8
  Yres = 10
  LineWidth = 2
  Thick = 1
SPECIFICATION Spec
INVARIANTS TypeOK BlocksPermuted EndsWhenSolved ScreenTells
PROPERTY SwapsWhatIsMarked
CHECK_DEADLOCK FALSE

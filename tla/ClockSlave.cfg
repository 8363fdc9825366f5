SPECIFICATION ClockSpec
CONSTANTS
  SubNs = 4
  NsMod = 1024
  MsbMod = 2
  MAXLENGTH = 3
  Step = 256
  Rates = {216, 256, 296}
  Limit = 4
  Delay = 4
  CorrectionNs = {0, 2}
  Start <- Starts
  Jumps <- SmallAndLarge
  MaxSamples = 5
  MaxGap = 2
INVARIANTS
  ClockTypeOK
  RateSettles
PROPERTIES
  WindowSlides
  OffsetIsClose
CHECK_DEADLOCK FALSE

SPECIFICATION Spec
CONSTANTS
  Streams = {0, 1, 2}
  CYCLE_TIME = 6
  COMPUTE_OFFSET = 3
  SendOffset <- SendAt
  MaxDelay = 2
  ScanTime = 2
  MaxCycles = 6
  MaxLost = 3
  MaxOperates = 2
INVARIANTS
  InputsOfOneCycle
  LossCostsOneScan
PROPERTIES
  OutputsMoveForward
CHECK_DEADLOCK FALSE

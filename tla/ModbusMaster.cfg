SPECIFICATION Spec
CONSTANTS
  NumDevices = 3
  Tcp = {0}
  Port <- Wiring
  Size <- Sizes
  MaxIO = 3
  MaxScans = 1
  MaxFaults = 2
  Null = Null
INVARIANTS
  SlotsBelongToRegisters
  MessageIsOneScan
  ScanReadsOneAnswer
PROPERTIES
  OutputsArrive

SPECIFICATION Spec
CONSTANTS
  A = 3
  BYTE = 3
  BITS = 2
  MaxBytes = 6
  Located <- Declared
  MaxCoils = 5
  Counts = {0, 1, 3, 4}
  Data <- Words
  CoilData <- Bits
  Null = Null
  MaxRequests = 2
INVARIANTS
  TypeOK
  CrashNeedsMixedRequest
PROPERTIES
  ReadsAreAsAsked
  OnlyWhatIsAsked
CHECK_DEADLOCK FALSE

SPECIFICATION FairSpec
CONSTANTS
  Regs = {0, 1}
  Threads = {t1, t2}
  NoThread = NoThread
  Junk = Junk
  Absent = Absent
  Empty = Empty
  MaxScans = 2
  MaxCommands = 3
  MaxLives = 2
  MaxFaults = 1
INVARIANTS
  FileIsOneScan
PROPERTIES
  RestoresWhatWasSaved
  OlderScanNeedsTwoThreads
  FileCatchesUp

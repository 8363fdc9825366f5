SPECIFICATION FairSpec
CONSTANTS
    NPorts = 2
    Enabled = {1, 2}
    SeqMod = 4
    InitialSeqIds = {3}
    MaxSync = 0
    MaxTick = 2
    MaxReselect = 0
    TsuMayLose = FALSE
PROPERTY SampleReachesNeighbour
CHECK_DEADLOCK FALSE

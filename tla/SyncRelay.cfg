SPECIFICATION FairSpec
CONSTANTS
    NPorts = 2
    Enabled = {1, 2}
    SeqMod = 8
    InitialSeqIds = {1}
    MaxSync = 2
    MaxTick = 1
    MaxReselect = 2
    TsuMayLose = TRUE
PROPERTY SampleReachesNeighbour
INVARIANTS TwoStepPairs FollowUpIsGenuine AtMostOneStaleSync
CHECK_DEADLOCK FALSE

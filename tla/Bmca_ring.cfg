SPECIFICATION BmcaFairSpec
CONSTANTS
    Bridges = {1, 2, 3}
    Ports <- RingPorts
    Peer <- RingPeer
    NotGmCapable = {3}
    LowByte = 256
    MAX_PATH_TRACE_N = 8
    AnnounceTimeout = 3
    SyncTimeout = 5
    InitialSync = {0}
    MaxFailures = 1
    MaxRestarts = 1
    MaxLosses = 1
INVARIANTS BmcaTypeOK OwnInformationIsCurrent NoTimingLoop
PROPERTY Converges
CHECK_DEADLOCK FALSE

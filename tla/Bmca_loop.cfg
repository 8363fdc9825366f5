SPECIFICATION BmcaSpec
CONSTANTS
    Bridges = {1, 2, 3, 4}
    Ports <- TailPorts
    Peer <- TailPeer
    NotGmCapable = {}
    LowByte = 256
    MAX_PATH_TRACE_N = 8
    AnnounceTimeout = 3
    SyncTimeout = 24
    InitialSync <- FarAhead
    MaxFailures = 1
    MaxRestarts = 0
    MaxLosses = 0
INVARIANT HopLimit
CHECK_DEADLOCK FALSE

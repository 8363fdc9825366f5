CONSTANTS
    Ports = {p1, p2}
    EventTypes = {"SYNC", "PDELAY_REQ"}
    GeneralTypes = {"FOLLOW_UP"}
    OtherTypes = {"VLAN"}
    Seqs = {0}
    FIFO_SIZE = 2
    MAX_PKT_LEN = 1600
    MaxInFlight = 2
    MaxFrames = 4
    TsuMayLose = FALSE
    NoFrame = NoFrame
SPECIFICATION FairSpec
INVARIANTS RingSound TimestampsFollowFrames
PROPERTY ImplementsFifo QueuedIsHandled
CHECK_DEADLOCK FALSE

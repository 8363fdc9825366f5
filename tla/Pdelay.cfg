SPECIFICATION FairSpec
CONSTANTS
    SeqMod = 6
    AllowedLostResponses = 1
    InitiallyElapsed = {TRUE, FALSE}
    MaxInFlight = 2
INVARIANTS OneExchange NoNullRequest MeasuringIsRecent
PROPERTIES DelayIsMeasured ResponderReturns
CHECK_DEADLOCK FALSE

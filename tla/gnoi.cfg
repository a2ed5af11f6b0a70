SPECIFICATION FairSpec
CONSTANTS
    d1 = d1
    d2 = d2
    x1 = x1
    x2 = x2
    Dpus <- MCDpus
    Threads <- MCThreads
    None = None
    MaxChanges = 3
    MaxFaults = 1
INVARIANTS
    OneHandlerPerDpu
    NoDownLost
    FlagNotLeft
PROPERTIES
    HandlerEnds
CHECK_DEADLOCK FALSE

SPECIFICATION MCSpec
CONSTANTS
    x1 = x1
    x2 = x2
    Threads <- MCThreads
    MaxRequests = 3
    MaxFaults = 2
    MaxHistory = 2
    MaxBoots = 3
INVARIANTS
    OneReboot
    SuccessMeansHalted
    RebootCauseKept
PROPERTIES
    RebootConcludes
CHECK_DEADLOCK FALSE

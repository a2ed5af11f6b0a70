\* The thread and RunCommand go on; a command may stay silent and run for ever.
SPECIFICATION FairSpec
CONSTANTS
    Commands = {c1, c2}
    None = None
    MaxSpawnFaults = 0
PROPERTIES
    TimedOutStops
\* Calls are bounded, and a client may stop calling.
CHECK_DEADLOCK FALSE

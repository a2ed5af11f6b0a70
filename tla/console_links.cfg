SPECIFICATION ConsoleSpec
CONSTANTS
    l1 = l1
    l2 = l2
    b1 = b1
    b2 = b2
    Links <- MCLinks
    Bauds <- MCBauds
    None = None
    Bad = Bad
    MaxRowChanges = 3
    MaxLinkFaults = 1
    Bodies <- MCBodies
    SOF_LEN = 3
    EOF_LEN = 3
    MAX_FRAME_BUFFER_SIZE = 6
    MaxFrames = 2
    MaxTyped = 8
    MaxNoise = 2
    HEARTBEAT_TIMEOUT = 3
    Absent = Absent
    MaxWishes = 2
    MaxLineFaults = 2
INVARIANTS
    LinksFollowRows
    HeartbeatsHeard
    RowTellsOfLine
PROPERTIES
    LinksComeUp
    FramesApart
    SwitchShowsOnLine
\* Changes are bounded, and the services wait for the next one.
CHECK_DEADLOCK FALSE

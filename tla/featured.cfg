SPECIFICATION ConfigSpec
CONSTANTS
    f1 = f1
    Features <- MCFeatures
    Delayed <- MCFeatures
    Rendered <- MCRendered
    Template = Template
    Invalid = Invalid
    Absent = Absent
    MaxChanges = 3
    MaxFaults = 2
    Settings = {v1, v2}
    None = None
    Unread = Unread
    MaxSettings = 3
    MaxConfigFaults = 1
INVARIANTS
    ConfigTypeOK
    CacheFollowsRows
    StateFollowsCache
    ServicesFollowRows
PROPERTIES
    DelayedNotBefore
    FeaturedSettles
\* Changes are bounded, and the daemons wait for the next one.
CHECK_DEADLOCK FALSE

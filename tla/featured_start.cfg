SPECIFICATION ConfigSpec
CONSTANTS
    f1 = f1
    Features <- MCFeatures
    Delayed <- MCFeatures
    Rendered <- MCRendered
    Template = Template
    Invalid = Invalid
    Absent = Absent
    MaxChanges = 2
    MaxFaults = 1
    Settings = {v1, v2}
    None = None
    Unread = Unread
    MaxSettings = 0
    MaxConfigFaults = 0
PROPERTIES
    StartedAgain
\* Changes are bounded, and the daemons wait for the next one.
CHECK_DEADLOCK FALSE

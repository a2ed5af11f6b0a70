SPECIFICATION Spec
CONSTANTS
    h = h
    a = a
    t1 = t1
    c1 = c1
    w1 = w1
    w2 = w2
    NS <- MCTwoNS
    Host = h
    Tables <- MCTables
    RedfishTables <- MCNoTables
    Contents <- MCContents
    Workers <- MCWorkers
    NoRules = NoRules
    Broken = Broken
    None = None
    MaxChanges = 1
    MaxFaults = 0
INVARIANTS
    InstalledFromOwnRows

SPECIFICATION FairSpec
CONSTANTS
    h = h
    a = a
    t1 = t1
    c1 = c1
    w1 = w1
    w2 = w2
    NS <- MCNS
    Host = h
    Tables <- MCTables
    RedfishTables <- MCRedfishTables
    Contents <- MCContents
    Workers <- MCWorkers
    NoRules = NoRules
    Broken = Broken
    None = None
    MaxChanges = 3
    MaxFaults = 1
INVARIANTS
    SingleUpdater
    NoLostChange
PROPERTIES
    ImplementsAclSync
    Converges
    ExceptionRestarts

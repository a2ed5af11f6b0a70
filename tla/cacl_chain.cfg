SPECIFICATION RulesSpec
CONSTANTS
    ip1 = ip1
    ip2 = ip2
    d1 = d1
    d2 = d2
    p1 = p1
    p2 = p2
    i1 = i1
    i2 = i2
    m1 = m1
    Ips <- MCIps
    Dpus <- MCDpus
    Ports <- MCPorts
    None = None
    Blank = Blank
    MaxChanges = 2
    MaxUpdates = 2
    MaxChainFaults = 1
    Intfs <- MCIntfs
    Marks <- MCMarks
    NoMark = NoMark
    NoMux = NoMux
    MaxDhcpChanges = 2
    MaxDhcpFaults = 1
    ra = ra
    rb = rb
    rc = rc
    ta = ta
    tb = tb
    q1 = q1
    q2 = q2
    Tables <- MCTables
    AclIds <- MCAclIds
    TableOf <- MCTableOf
    Services <- MCServices
    WellKnown <- MCKnown
    Offers <- MCOffers
    MaxAclChanges = 2
INVARIANTS
    RulesTypeOK
    ChainFollowsAttributes
    ChainFollowsDatabases
    DropsFollowTables
    RulesFollowRows
SYMMETRY MCSymmetry
CHECK_DEADLOCK FALSE

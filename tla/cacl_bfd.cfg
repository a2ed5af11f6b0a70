SPECIFICATION Spec
CONSTANTS
    ip1 = ip1
    ip2 = ip2
    d1 = d1
    d2 = d2
    p1 = p1
    p2 = p2
    Ips <- MCIps
    Dpus <- MCOneDpu
    Ports <- MCPorts
    None = None
    Blank = Blank
    MaxChanges = 2
    MaxUpdates = 2
    MaxChainFaults = 0
INVARIANTS
    BfdStaysAllowed
CHECK_DEADLOCK FALSE

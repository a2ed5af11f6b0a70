SPECIFICATION Spec
CONSTANTS
    root = root
    rootadmin = rootadmin
    h1 = h1
    h2 = h2
    Users <- MCUsers
    Hashes <- MCHashes
    Prefixes <- MCPrefixes
    Absent = Absent
    Torn = Torn
    MaxConsoleCalls = 2
    MaxConsoleFaults = 0
INVARIANTS
    AccountsKept
\* Calls are bounded.
CHECK_DEADLOCK FALSE

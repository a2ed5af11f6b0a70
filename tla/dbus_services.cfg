\* Services of sonic-host-server, two of everything
SPECIFICATION HostSpec
CONSTANTS
    Commands = {c1, c2}
    None = None
    MaxSpawnFaults = 1
    Values = {v1, v2}
    Absent = Absent
    Torn = Torn
    MaxSshCalls = 4
    MaxSshFaults = 1
    u1 = u1
    u2 = u2
    Users <- MCUsers
    Hashes = {h1, h2}
    Prefixes <- MCPrefixes
    MaxConsoleCalls = 4
    MaxConsoleFaults = 2
    Configs = {g1, g2}
    MaxGlomeCalls = 4
    MaxGlomeFaults = 2
    Artifacts = {a1, a2}
    NoArtifact = NoArtifact
    ListedCommands = 2
    MaxInfoFaults = 2
    Paths = {p1, p2}
    Bodies = {b1, b2}
    NoFile = NoFile
    Part = Part
    NoPath = NoPath
    MaxTransfers = 3
    MaxTransferFaults = 2
INVARIANTS
    HostTypeOK
    OneCommandAtATime
    CheckpointFaithful
    FilesWhole
    LeftoversAccounted
PROPERTIES
    HeldOnlyBySilence
    RestoreRestores
    SetKeepsOthers
    RestoreUndoesPush
    StoredKept
\* Calls are bounded, and a client may stop calling.
CHECK_DEADLOCK FALSE

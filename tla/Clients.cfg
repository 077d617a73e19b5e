SPECIFICATION ClientsSpec
CONSTANTS
    Uris = {u, v}
    Unanswered = Unanswered
    Failed = Failed
    NoRead = NoRead
    MaxTasks = 1
    MaxInflight = 1
    MaxCached = 1
    MaxChanges = 2
    MaxId = 7
    MaxFaults = 1
    MaxStarts = 2
    Off = Off
    Ops = {c1, c2, c3}
    Documents = {d}
    None = None
    MaxProcesses = 2
    MaxEpoch = 4
    Tools = {c1, c2, c3}
    Free = Free
    MaxSessions = 2
    MaxSpawned = 3
SYMMETRY SymmetricClients
INVARIANTS ServerStateCurrent   
CHECK_DEADLOCK FALSE

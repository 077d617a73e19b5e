SPECIFICATION Spec
CONSTANTS
    Owners = {s1, s2}
    NoOwner = NoOwner
    Pids = {p1, p2}
    NoPid = NoPid
    Keys = {k1}
    NoKey = NoKey
    MaxThreads = 3
    MaxTurns = 3
    KeepThreads = 2
    KeepTurns = 2
    KeepEvents = 2
    MaxDeltas = 2
    FlushDeltas = 2
    MaxOpen = 1
    MaxEffort = 4
SYMMETRY Symmetry
INVARIANTS
    LiveTurnHasExecutor
    HistoryStaysCurrent
    LogTellsTheStory
CHECK_DEADLOCK FALSE

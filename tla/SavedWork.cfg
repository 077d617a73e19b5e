SPECIFICATION WorkSpec
CONSTANTS
    Processes = {p1, p2}
    Printing = {p2}
    Sessions = {s1, s2}
    NoRow = NoRow
    Unread = Unread
    MaxRows = 2
    MaxKept = 2
    MaxTurns = 2
    MaxCaptures = 2
    MaxRevision = 2
    Off = Off
    Files = {f, g}
    Contents = {a}
    Missing = Missing
    MaxCommits = 2
    Edits = {s1, s2}
    Paths = {f, g}
    User = User
    Old = Old
    Nobody = Nobody
SYMMETRY SymmetricWork
INVARIANTS HistoriesKept SnapshotsFaithful EditsWhole
PROPERTIES OverwritesLooked RestoreAllOrNothing
CHECK_DEADLOCK FALSE

SPECIFICATION Spec
CONSTANTS
    c1 = c1
    c2 = c2
    c3 = c3
    u = u
    NoOne = NoOne
    Calls = {c1, c2, c3}
    Batches <- MCBatches
    MaxConcurrency = 3
    Operators = {u}
    MaxDisturbances = 1
INVARIANTS ConsentIsCurrent  NobodyWaitsForEver OverlapOnlyAfterStop
CHECK_DEADLOCK FALSE

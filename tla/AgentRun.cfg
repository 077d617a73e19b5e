SPECIFICATION FairSpec
CONSTANTS
    MaxIterations = 2
    TokenBudget = 3
    Costs = {1, 2}
    Window = 2
    MaxRetries = 1
    Trigger = 4
    Retain = 2
    MaxCalls = 2
    Prints = {f1, f2}
    NoPrint = none
    Interruptible = FALSE
    MaxRuns = 2
    MaxCompactions = 1
INVARIANTS HistoryAcceptable 
PROPERTIES EveryRunEnds

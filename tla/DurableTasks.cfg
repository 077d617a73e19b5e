SPECIFICATION Spec
CONSTANTS
    MaxTasks = 2
    MaxTerminal = 1
    Procs = {p1, p2}
    Tokens = {k1, k2}
    Slots = {s1}
    NoOwner = NoOwner
    NoPid = NoPid
    NoTask = NoTask
    NoCoro = NoCoro
    MaxCloses = 1
    MaxCrashes = 1
    MaxFaults = 1
SYMMETRY Symmetry

    
    
PROPERTIES
    
    ImplementsLifecycle
CHECK_DEADLOCK FALSE

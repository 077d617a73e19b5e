SPECIFICATION LocalSpec
CONSTANTS
    Off = Off
    Processes = {p, q}
    Files = {f, g}
    Texts = {x}
    Signatures = {s1, s2}
    Absent = Absent
    TooBig = TooBig
    MaxRuns = 3
    MaxEdits = 1
    Names = {f, g}
    Contents = {s1, s2}
    MaxSteps = 2
    Projects = {p, q}
    Facts = {f, g}
    Keys = {key}
    NoKey = NoKey
    MaxEntries = 2
    MaxIds = 4
    MaxOps = 4
    Fields = {f, g}
    Values = {s1, s2}
    Unset = Unset
    MaxCommands = 4
    MaxChannels = 2
    MaxBindings = 2
    MaxMessages = 1
    Nobody = Nobody
    Generations = 3
    Limit = 2
    MaxLines = 7
    MaxTraces = 1
    MaxRecords = 1
SYMMETRY Symmetric
INVARIANTS IndexRepaired SkillsKept OneActive SettingsKept  
PROPERTIES LostForAReason
CHECK_DEADLOCK FALSE

SPECIFICATION ServerSpec
CONSTANTS
    Slots = {a, b}
    Nobody = Nobody
    Off = Off
    MaxQueue = 1
    MaxMessages = 3
    MaxEvents = 2
    Emails = {r, e}
    Root = r
    Nothing = Nothing
    MaxAttempts = 2
    TTL = 2
    Resend = 1
    MaxIds = 3
    MaxCodes = 2
    MaxTime = 2
    MaxTokens = 2
    MaxPasswords = 3
    Turns = {a, b}
    Models = {x, y}
    Grant = 2
    MaxCost = 2
    MaxMonth = 2
    MaxCalls = 3
    MaxChanges = 2
    Clients = {a, b}
    Keep = 2
    PageCap = 2
    MaxRows = 3
SYMMETRY Symmetric
INVARIANTS  AccountsKept  FeedComplete
CHECK_DEADLOCK FALSE

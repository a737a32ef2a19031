SPECIFICATION FairSpec
CONSTANTS
    home = home
    other = other
    x = x
    None = None
    RepoAllowlist = {home}
    Intents <- MCIntents
    Limit = 2
    Window = 1
    TTL = 1
    MaxTime = 2
    MaxCalls = 3
    MaxFaults = 3
INVARIANTS
    TypeOK
    WritesWereAsked
    WritesPerCall
    ReceiptsAreTrue
    SlotsAreKept
PROPERTIES
    CallsReturn
CHECK_DEADLOCK FALSE

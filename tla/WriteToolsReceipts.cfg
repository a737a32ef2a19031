SPECIFICATION Spec
CONSTANTS
    home = home
    other = other
    x = x
    None = None
    RepoAllowlist = {home}
    Intents <- MCFewIntents
    Limit = 2
    Window = 1
    TTL = 1
    MaxTime = 2
    MaxCalls = 3
    MaxFaults = 3
INVARIANTS
    WritesHaveReceipts
CHECK_DEADLOCK FALSE

SPECIFICATION Spec
CONSTANTS
    j1 = j1
    j2 = j2
    u1 = u1
    u2 = u2
    k = k
    None = None
    Apis = {a1}
    Workers = {w1}
    JobIds = {j1, j2}
    Requests <- MCDerived
    AsyncMode = TRUE
    OnLoop = {TRUE}
    MaxCalls = 2
    MaxFaults = 0
    MaxRedeliver = 0
INVARIANTS
    DiffWhenAsked
CHECK_DEADLOCK FALSE

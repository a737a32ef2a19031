SPECIFICATION FairSpec
CONSTANTS
    j1 = j1
    j2 = j2
    u1 = u1
    u2 = u2
    k = k
    None = None
    Apis = {a1, a2}
    Workers = {w1, w2}
    JobIds = {j1, j2}
    Requests <- MCRequests
    AsyncMode = TRUE
    OnLoop = {TRUE}
    MaxCalls = 2
    MaxFaults = 2
    MaxRedeliver = 1
INVARIANTS
    AnswersAgree
    ResultReadable
    ResultAnswersJob
    NoJobForgotten
PROPERTIES
    LifecycleSpec
    JobsEnd
CHECK_DEADLOCK FALSE

SPECIFICATION Spec
CONSTANTS
    j1 = j1
    j2 = j2
    u1 = u1
    u2 = u2
    k = k
    None = None
    Apis = {a1}
    Workers = {}
    JobIds = {j1, j2}
    Requests <- MCRequests
    AsyncMode = FALSE
    OnLoop = {TRUE, FALSE}
    MaxCalls = 5
    MaxFaults = 2
    MaxRedeliver = 0
INVARIANTS
    TypeOK
    ScannedOnce
    BundleIsOfOneScan
    DiffAgainstBaseline
PROPERTIES
    LifecycleSpec
CHECK_DEADLOCK FALSE

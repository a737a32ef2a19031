SPECIFICATION Spec
CONSTANTS
    None = None
    Procs = {api, worker}
    Documents = {d1, d2}
    MaxFaults = 2
    MaxCutover = 3
INVARIANTS
    TypeOK
    NewRefsReadable
PROPERTIES
    SettledStaysReadable

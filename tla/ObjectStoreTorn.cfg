SPECIFICATION Spec
CONSTANTS
    None = None
    Procs = {api}
    Documents = {d1}
    MaxFaults = 1
    MaxCutover = 0
INVARIANTS
    RefsReadBack

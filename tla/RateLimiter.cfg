SPECIFICATION Spec
CONSTANTS
    Buckets = {scan, write}
    Limit = 2
    Window = 2
    Clock = {0, 1, 2, 3, 4, 5, 6}
    MaxBack = 2
INVARIANTS
    TypeOK
    WindowLimit
    DequeIsWindow

SPECIFICATION Spec
CONSTANTS
    Life = 4
    Margin = 1
    Zones <- AuthZones
    Start = 3
    MaxTime = 11
    MaxTokens = 4
INVARIANTS
    TypeOK
    RefusedOnlyLate
    TokensLast

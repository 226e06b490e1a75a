CONSTANTS
    k1 = k1
    k2 = k2
    Keys <- MCKeys
    NoRecord = NoRecord
    Window = 3
    Limit = 2
SPECIFICATION Spec
INVARIANTS
    TwoAllowances
PROPERTIES
    ImplementsWindows

CONSTANTS
    MaxSessions = 3
SPECIFICATION Spec
INVARIANTS
    SlotHoldsTheOneUp
    NothingOrphaned
PROPERTIES
    OneTeardown
    RemoteEndTearsDown
CHECK_DEADLOCK FALSE

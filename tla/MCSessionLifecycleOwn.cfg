CONSTANTS
    MaxSessions = 2
SPECIFICATION Spec
INVARIANTS
    SupervisorTakesOwn
CHECK_DEADLOCK FALSE

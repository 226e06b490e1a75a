CONSTANTS
    c1 = c1
    c2 = c2
    c3 = c3
    c4 = c4
    p1 = p1
    p2 = p2
    Sockets <- MCFourSockets
    Pins <- MCPins
    NoSocket = NoSocket
    NoPin = NoPin
    NoSession = NoSession
    TTL = 2
    Disciplined = TRUE
SPECIFICATION Spec
SYMMETRY SymmetryFour
INVARIANTS
    TypeOK
    NoDeadEnds
    DisciplinedLookup
PROPERTIES
    SurvivorNotified
    ImplementsRegistry

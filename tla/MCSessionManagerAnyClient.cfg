CONSTANTS
    c1 = c1
    c2 = c2
    c3 = c3
    c4 = c4
    p1 = p1
    p2 = p2
    Sockets <- MCSockets
    Pins <- MCPins
    NoSocket = NoSocket
    NoPin = NoPin
    NoSession = NoSession
    TTL = 1
    Disciplined = FALSE
SPECIFICATION Spec
SYMMETRY Symmetry
INVARIANTS
    MappingCurrent
PROPERTIES
    PinSingleUse
    RelayWithinSession

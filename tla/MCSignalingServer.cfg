CONSTANTS
    c1 = c1
    c2 = c2
    p1 = p1
    p2 = p2
    Sockets <- MCSockets
    Pins <- MCPins
    NoSocket = NoSocket
    NoPin = NoPin
    NoSession = NoSession
    TTL = 1
    Disciplined = TRUE
    MaxWrongPins = 2
SPECIFICATION ServerSpec
INVARIANTS
    ServerTypeOK
    LockoutHolds
    ShutdownCloses
PROPERTIES
    SilentPeerReleased
    WaitingResolved

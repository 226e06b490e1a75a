CONSTANTS
    h1 = h1
    v1 = v1
    v2 = v2
    LocalCandidates <- MCLocal
    RemoteCandidates <- MCRemote
    MaxPendingIce = 2
    ClientCap = 1
    EventCap = 1
    IceCap = 1
    MaxEvents = 4
    RelayOrder = TRUE
SPECIFICATION Spec
INVARIANTS
    IncomingApplied
CHECK_DEADLOCK FALSE

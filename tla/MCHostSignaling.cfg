CONSTANTS
    h1 = h1
    v1 = v1
    v2 = v2
    LocalCandidates <- MCLocal
    RemoteCandidates <- MCRemote
    MaxPendingIce = 2
    ClientCap = 1
    EventCap = 1
    IceCap = 1
    MaxEvents = 4
    RelayOrder = FALSE
SPECIFICATION Spec
INVARIANTS
    TypeOK
    BufferedAfterOffer
    PhasesInOrder
PROPERTIES
    LocalCandidatesReachWire
    LoopReturns
CHECK_DEADLOCK FALSE

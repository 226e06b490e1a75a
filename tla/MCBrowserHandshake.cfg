CONSTANTS
    h1 = h1
    h2 = h2
    v1 = v1
    HostCandidates <- MCHostCandidates
    ViewerCandidates <- MCViewerCandidates
SPECIFICATION Spec
INVARIANTS
    TypeOK
    NoCandidateRefused
    StoppedMeansReleased
PROPERTIES
    CandidatesApplied
    HandshakeCompletes
    EndReachesOther
CHECK_DEADLOCK FALSE

CONSTANTS
    MaxSessions = 1
    MaxHappenings = 3
    Grace = 2
    StateCap = 2
    Sizes <- MCSizes
    InitialSize = 2
    FrameCap = 1
    PacketCap = 1
    MaxFrames = 3
    ClientCap = 1
    WireCap = 1
SPECIFICATION DesktopSpec
INVARIANTS
    DesktopTypeOK
    OutageBounded
    GraceKept
    TimelineKept
    SlotDisarmed
PROPERTIES
    EncodedAtItsSize
    CommandsReturn
    StopReleasesAll
    FailedLeavesNoSession
    ImplementsLifecycle
CHECK_DEADLOCK FALSE

CONSTANTS
    MaxSessions = 1
    MaxHappenings = 1
    Grace = 2
    StateCap = 1
    Sizes <- MCSizes
    InitialSize = 2
    FrameCap = 1
    PacketCap = 1
    MaxFrames = 1
    ClientCap = 1
    WireCap = 1
SPECIFICATION DesktopSpec
PROPERTIES
    EncoderPanicSignals
CHECK_DEADLOCK FALSE

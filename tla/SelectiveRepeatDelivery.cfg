CONSTANTS
    p1 = p1
    p2 = p2
    None = None
    Payload <- TwoPayloads
    Unencodable <- NoPayload
    Window = 2
    MaxRetries = 1
    MaxSends = 3
    EstimatorAccepts = {TRUE}
    FlushModes = {}
    MayClose = FALSE
    PeerMayClose = FALSE
    Adaptive = TRUE
SPECIFICATION AdaptiveFairSpec
CHECK_DEADLOCK FALSE
INVARIANTS
    AckedWasReceived
    NoSilentGap
    BufferBound
    TimerPerPacket
    KarnsRule
PROPERTIES
    ImplementsStream
    AckedOrFailure

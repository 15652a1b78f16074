CONSTANTS
    p1 = p1
    p2 = p2
    None = None
    Payload <- OnePayload
    Unencodable <- NoPayload
    Window = 1
    MaxRetries = 1
    MaxSends = 2
    EstimatorAccepts = {TRUE}
    FlushModes = {}
    MayClose = FALSE
    Adaptive = FALSE
    PeerMayClose = FALSE
SPECIFICATION AdaptiveFairSpec
CHECK_DEADLOCK FALSE
PROPERTY EveryDatagramSettled

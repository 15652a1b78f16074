CONSTANTS
    p1 = p1
    p2 = p2
    None = None
    Payload <- OnePayload
    Unencodable <- NoPayload
    Window = 1
    MaxRetries = 1
    MaxSends = 3
    EstimatorAccepts = {TRUE}
    FlushModes = {}
    MayClose = FALSE
    Adaptive = FALSE
    PeerMayClose = FALSE
SPECIFICATION AdaptiveSpec
CHECK_DEADLOCK FALSE
INVARIANT InFlightBound

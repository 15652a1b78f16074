CONSTANTS
    p1 = p1
    p2 = p2
    None = None
    Payload <- TwoPayloads
    Unencodable <- SecondUnencodable
    Window = 2
    MaxRetries = 1
    MaxSends = 2
    EstimatorAccepts = {TRUE, FALSE}
    FlushModes = {"all", "peer"}
    MayClose = TRUE
    Adaptive = FALSE
    PeerMayClose = TRUE
SPECIFICATION AdaptiveSpec
CHECK_DEADLOCK FALSE
INVARIANTS
    IndInv

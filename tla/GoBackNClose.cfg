CONSTANTS
    p1 = p1
    p2 = p2
    None = None
    Payload <- TwoPayloads
    Unencodable <- SecondUnencodable
    Window = 1
    MaxRetries = 1
    MaxSends = 2
    EstimatorAccepts = {TRUE, FALSE}
    FlushModes = {"all"}
    MayClose = TRUE
    Adaptive = FALSE
    PeerMayClose = TRUE
SPECIFICATION AdaptiveFairSpec
CHECK_DEADLOCK FALSE
INVARIANTS
    NothingForgotten
    IndInv
    FlushMissesOnlyHandoff
PROPERTIES
    ThreadEnds

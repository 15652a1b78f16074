CONSTANTS
    a = a
    b = b
    Node <- Both
    MayClose = FALSE
    MaxRetries = 1
    MaxSends <- TwoOneWay
    BufferSize = 2
SPECIFICATION Spec
CHECK_DEADLOCK FALSE
INVARIANT ConfirmedWasDelivered

CONSTANTS
    a = a
    b = b
    Node <- Both
    MayClose = TRUE
    MaxRetries = 2
    MaxSends <- ThreeAndOne
    BufferSize = 2
SPECIFICATION FairSpec
CHECK_DEADLOCK FALSE
INVARIANTS
    DeliveredInOrder
    ReturnedWasDelivered
PROPERTIES
    SendEnds

SPECIFICATION FairSpec
CONSTANTS
    Delay = 1
    Spread <- EarlyOrLate
    MayLose = TRUE
    LastSend = 2
    MaxSends = 3
INVARIANTS
    WakesInTime
    Accounted
    CloseDelivers
PROPERTIES
    ImplementsLine
    EveryCopyLeaves
    CloseEnds
CHECK_DEADLOCK FALSE

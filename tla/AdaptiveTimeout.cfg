SPECIFICATION FairSpec
CONSTANTS
    InitialRto = 16
    MinRto = 3
    MaxRto = 160
    Granularity = 2
    Rtt <- FastSlowSlowest
    Pause <- AtOnceOrLate
    MaxRetries = 6
    MaxLosses = 6
    MaxChanges = 2
INVARIANTS
    CoversLastSample
    MeasuresThePath
PROPERTIES
    TimeoutsEnd
CHECK_DEADLOCK FALSE

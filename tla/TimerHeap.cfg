CONSTANTS
    k1 = k1
    k2 = k2
    Key <- TwoKeys
    MaxTime = 2
    MaxSchedules = 4
SPECIFICATION Spec
INVARIANTS
    IndInv
PROPERTIES
    NothingOldRemains
    ImplementsTimers

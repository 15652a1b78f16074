SPECIFICATION Spec
CONSTANTS
    Files <- SmallFiles
    Mss <- OneOrTwo
    Stray <- StrayBytes
    MaxFlips = 1
    MaxInFlight = 3
INVARIANTS
    ReceivedWasSent
    DecodeIsInverse
    ChecksumIsRFC1071
    ChunksAreFile
    CleanRunPasses
CHECK_DEADLOCK FALSE

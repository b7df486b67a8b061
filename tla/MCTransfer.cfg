SPECIFICATION TransferSpec
CONSTANTS
    I32Max = 100000
    Sites <- MCSites
    Destinations <- MCDestinations
    Buffers <- MCBuffers
INVARIANTS
    TransferTypeOK
    PlanIsKept
    RetrySettles
    PlanPredicts
    IslandReachable
CHECK_DEADLOCK FALSE

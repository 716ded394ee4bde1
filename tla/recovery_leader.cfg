CONSTANTS
    Role = "Leader"
    T1 <- LateT1
    T2 <- LateT2
    EndOfTime <- LateT2
    AdvertisedT1 <- MCT1
    Desk = "silent"
    MaxFaults = 2
    MaxCrashes = 1
    MaxPolls = 0
SPECIFICATION FairSpec
\* The swap ends: a state without a successor is no error.
CHECK_DEADLOCK FALSE
INVARIANTS
    LockedLegIsScheduled
PROPERTIES
    LeaderLegMoves

CONSTANTS
    Role = "Follower"
    T1 <- MCT1
    T2 <- MCT2
    EndOfTime <- MCEnd
    AdvertisedT1 <- MCT1
    Desk = "any"
    MaxFaults = 3
    MaxCrashes = 1
    MaxPolls = 1
SPECIFICATION FairSpec
\* The swap ends: a state without a successor is no error.
CHECK_DEADLOCK FALSE
INVARIANTS
    TypeOK
    RecoveredOnlyOnChain
    WatchedUntilCommand
PROPERTIES
    FollowerReclaims

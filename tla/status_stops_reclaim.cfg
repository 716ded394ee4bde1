CONSTANTS
    Role = "Follower"
    T1 <- MCT1
    T2 <- MCT2
    EndOfTime <- MCEnd
    AdvertisedT1 <- MCT1
    Desk = "honest"
    MaxFaults = 0
    MaxCrashes = 0
    MaxPolls = 1
SPECIFICATION Spec
\* The swap ends: a state without a successor is no error.
CHECK_DEADLOCK FALSE
INVARIANTS
    LockedLegIsWatched

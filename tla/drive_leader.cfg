CONSTANTS
    Role = "Leader"
    T1 <- MCT1
    T2 <- MCT2
    EndOfTime <- MCEnd
    AdvertisedT1 <- MCT1
    Margin <- MCMargin
    MaxAge = 0
    Desk = "any"
    MaxFaults = 1
    MaxCrashes = 0
    MaxPolls = 0
SPECIFICATION FairConductorSpec
\* The swap ends: a state without a successor is no error.
CHECK_DEADLOCK FALSE
INVARIANTS
    PresigBeforeLock
    ReleaseNeedsTheirLock
    RecordedLegIsScheduled
PROPERTIES
    LockAndPresigKept
    
    RecordedLegMoves
    ImplementsExchange

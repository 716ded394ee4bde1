CONSTANTS
    Role = "Follower"
    T1 <- ShortT1
    T2 <- ShortT2
    EndOfTime <- ShortEnd
    AdvertisedT1 <- ShortT1
    Margin <- ShortMargin
    MaxAge = 0
    Desk = "silent"
    MaxFaults = 0
    MaxCrashes = 1
    MaxPolls = 0
SPECIFICATION ConductorSpec
\* The swap ends: a state without a successor is no error.
CHECK_DEADLOCK FALSE
PROPERTIES
    LockAndPresigKept
    ImplementsExchange

CONSTANTS
    Bids <- MCBids
    Chargeable <- MCChargeable
    MaxTries = 2
    MaxFaults = 1
SPECIFICATION FairSpec
INVARIANTS
    TypeOK
    ChargedOnceUnlessLost
    OnlySettledIsCharged
PROPERTIES
    RecordCloses
    ImplementsPayments

CONSTANTS
    Bids <- MCBids
    Chargeable <- MCChargeable
    MaxTries = 2
    MaxFaults = 1
SPECIFICATION Spec
INVARIANTS
    ChargedOnce

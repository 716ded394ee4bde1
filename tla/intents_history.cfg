CONSTANTS
    Swaps <- MCSwaps
    AddressOf <- MCAddressOf
    Detailed <- MCDetailed
    xlm1 = xlm1
    xlm2 = xlm2
    stellar = stellar
SPECIFICATION FairSpec
\* Every swap can be settled and nothing left to do.
CHECK_DEADLOCK FALSE
INVARIANTS
    TypeOK
    WrittenIsKept
    PendingIsFollowed
PROPERTIES
    RowSettles
    RowsMoveForward

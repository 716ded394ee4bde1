CONSTANTS
    Sends <- MCSends
    Servers <- MCServers
    Spread <- MCSpread
    Margin <- MCMargin
    EndOfTime <- MCEnd
SPECIFICATION FairSpec
\* The presses end: a state in which only the clock is left is no error.
CHECK_DEADLOCK FALSE
INVARIANTS
    TypeOK
    SafeVerdictIsFinal
    SessionNotLeftOpen
PROPERTIES
    SendSettles
    ImplementsPayments

CONSTANTS
    Inputs <- MCInputs
    None <- MCNone
SPECIFICATION FairSpec
\* A closed modal whose wallet call has ended does nothing more.
CHECK_DEADLOCK FALSE
INVARIANTS
    TypeOK
    ShownForInputs
    RelaysWhatWasReviewed
    RelaysOnce
PROPERTIES
    BuildsOnReview
    BuildsOnce
    PricingSettles

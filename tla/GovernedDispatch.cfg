SPECIFICATION FairSpec
CONSTANTS
    N = 2
    Limit = 2
    MaxUpsets = 2
INVARIANTS
    TypeOK
    ChangeSentOnce
    VerifiedIsTrue
    ReadbacksAreBounded
    AcknowledgedIsKept
PROPERTIES
    KeepsPromise
    ReadbackEnds
CHECK_DEADLOCK FALSE

SPECIFICATION FairSpec
CONSTANTS
    Jobs = {safe}
    safe = safe
    Safe = {safe}
    Immediate = {}
    Provable = {}
    Retired = {}
    Workers = {w1, w2}
    NoWorker = NoWorker
    NoJob = NoJob
    MaxAttempts = 2
    MaxReturns = 1
    LeaseTicks = 2
INVARIANTS
    TypeOK
    ClaimsAreExclusive
PROPERTIES
    EveryJobSettles
    LiveOwnerKeepsClaim
    VerdictsAreFinal
    KeepsPromise
CHECK_DEADLOCK FALSE

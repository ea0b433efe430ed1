SPECIFICATION Spec
CONSTANTS
    Jobs = {unsafe, retired}
    unsafe = unsafe
    retired = retired
    Safe = {}
    Immediate = {}
    Provable = {unsafe}
    Retired = {retired}
    Workers = {w1, w2}
    NoWorker = NoWorker
    NoJob = NoJob
    MaxAttempts = 2
    MaxReturns = 2
    LeaseTicks = 1
SYMMETRY Symmetry
INVARIANTS
    LedgerMatchesJobs
    UnsafeActsOnce
CHECK_DEADLOCK FALSE

CONSTANTS
    c1 = c1
    c2 = c2
    Callers = {c1, c2}
    MaxAttempts = 3
    Observed = TRUE
SPECIFICATION FairSpec
CHECK_DEADLOCK FALSE
INVARIANTS TypeOK AppliedAtMostOnce FailureIsHarmless SuccessIsProven EgressIsTracked
PROPERTIES VerifiedIsMonotonic KeepsPromise AbandonedIsSettled

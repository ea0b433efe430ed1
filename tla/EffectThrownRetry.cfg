CONSTANTS
    w1 = w1
    w2 = w2
    Workers = {w1, w2}
    Controls = {"retry"}
    Boundary = FALSE
    MaxClaims = 2
    MaxGen = 1
SPECIFICATION Spec
SYMMETRY Slots
CHECK_DEADLOCK FALSE
INVARIANTS RetriedHadNoEffect

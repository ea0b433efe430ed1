CONSTANTS
    w1 = w1
    w2 = w2
    Workers = {w1, w2}
    StepLimit = 2
    MaxSteps = 2
    MaxRevision = 2
    MaxUpsets = 1
SPECIFICATION FairSpec
CHECK_DEADLOCK FALSE
INVARIANTS TypeOK RestsOnNews
PROPERTIES ContinueIsServed

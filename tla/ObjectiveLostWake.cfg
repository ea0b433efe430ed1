CONSTANTS
    w1 = w1
    Workers = {w1}
    StepLimit = 3
    MaxSteps = 3
    MaxRevision = 1
    MaxUpsets = 0
SPECIFICATION FairSpec
CHECK_DEADLOCK FALSE
PROPERTIES SettledIsObserved

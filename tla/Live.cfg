SPECIFICATION MCSpec
CONSTANTS
    Callers = {c1, c2}
    NumModels = 2
    FailureThreshold = 2
    SuccessThreshold = 2
    MaxRetries = 1
    MaxOutages = 1
    MaxCancels = 1
    MaxResets = 1
    Controllers = {d1, d2}
    MaxStarts = 2
INVARIANTS RacesAreContained
PROPERTIES CircuitsKeepOrder LiveGoesOn
CHECK_DEADLOCK FALSE

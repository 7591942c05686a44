SPECIFICATION Spec
CONSTANTS
    Keys = {k1, k2}
    HonestRejections = FALSE
    AttemptLimit = 4
    MaxSends = 3
    MaxCrashes = 0
    MaxSaveFailures = 0
    MaxSurprises = 0
INVARIANT FailedMeansNoEffect
CHECK_DEADLOCK FALSE

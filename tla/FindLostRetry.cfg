SPECIFICATION Spec
CONSTANTS
    Keys = {k1, k2}
    HonestRejections = TRUE
    AttemptLimit = 4
    MaxSends = 3
    MaxCrashes = 1
    MaxSaveFailures = 0
    MaxSurprises = 0
INVARIANT AtMostOnce
CHECK_DEADLOCK FALSE

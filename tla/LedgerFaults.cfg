SPECIFICATION Spec
CONSTANTS
    Keys = {k1, k2}
    HonestRejections = TRUE
    AttemptLimit = 3
    MaxSends = 3
    MaxCrashes = 1
    MaxSaveFailures = 1
    MaxSurprises = 1
INVARIANTS TypeOK StableIdentity NoEffectWithoutIntent AtMostOnceUnlessRetried
PROPERTY SuccessIsFinal
CHECK_DEADLOCK FALSE

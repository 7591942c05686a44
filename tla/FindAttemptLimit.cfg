SPECIFICATION Spec
CONSTANTS
    Keys = {k1, k2}
    HonestRejections = TRUE
    AttemptLimit = 2
    MaxSends = 3
    MaxCrashes = 0
    MaxSaveFailures = 0
    MaxSurprises = 0
INVARIANT LedgerStaysReadable
CHECK_DEADLOCK FALSE

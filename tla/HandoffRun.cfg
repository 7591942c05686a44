SPECIFICATION Spec
CHECK_DEADLOCK FALSE
CONSTANTS
    Checkpointed = {"driver_red"}
    Supervised = TRUE
    MaxAttempts = 4
    MaxCorrections = 2
    MaxEdits = 1
    MaxCrashes = 1
INVARIANTS
    TypeOK
    AuthorizationExact
    ReturnNeedsNewArchitect
PROPERTIES
    AdmittedRightly
    HistoryStands

SPECIFICATION Spec
CHECK_DEADLOCK FALSE
CONSTANTS
    Checkpointed = {"driver_green"}
    Supervised = TRUE
    MaxAttempts = 4
    MaxCorrections = 2
    MaxEdits = 1
    MaxCrashes = 1
INVARIANT CheckpointAnswerable

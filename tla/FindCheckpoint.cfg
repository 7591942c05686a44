\* A checkpoint on an accepted review resumes at the phase before the review.
SPECIFICATION Spec
CHECK_DEADLOCK FALSE
CONSTANTS
    BudgetLimit = 8
    ManualCheckpoints = {"driver_green"}
    Causes = {c1, c2}
    MaxTurns = 12
    Supervised = TRUE
    MaxInvocations = 5
    MaxAdverse = 0
    MaxCrashes = 0
    MaxInterventions = 0
    Addressees = {"driver_red", "driver_green"}
INVARIANT CheckpointContinues

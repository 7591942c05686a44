\* A foreground process overwrites an intervention queued while it executes.
SPECIFICATION Spec
CHECK_DEADLOCK FALSE
CONSTANTS
    BudgetLimit = 8
    ManualCheckpoints = {"driver"}
    Causes = {c1, c2}
    MaxTurns = 12
    Supervised = FALSE
    MaxInvocations = 5
    MaxAdverse = 2
    MaxCrashes = 0
    MaxInterventions = 1
    Addressees = {"driver_red", "driver_green"}
PROPERTY NoInterventionLost

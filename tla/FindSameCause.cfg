\* The same-root-cause pause strikes attempts that were not rejections.
SPECIFICATION Spec
CHECK_DEADLOCK FALSE
CONSTANTS
    BudgetLimit = 20
    ManualCheckpoints = {"driver"}
    Causes = {c1, c2}
    MaxTurns = 12
    Supervised = TRUE
    MaxInvocations = 5
    MaxAdverse = 2
    MaxCrashes = 0
    MaxInterventions = 0
    Addressees = {"driver_red", "driver_green"}
INVARIANT SameCausePauseFollowsRejection

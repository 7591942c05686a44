\* A resolved block may resume at another phase than its own.
SPECIFICATION Spec
CHECK_DEADLOCK FALSE
CONSTANTS
    BudgetLimit = 8
    ManualCheckpoints = {}
    Causes = {c1, c2}
    MaxTurns = 12
    Supervised = TRUE
    MaxInvocations = 5
    MaxAdverse = 2
    MaxCrashes = 1
    MaxInterventions = 0
    Addressees = {"driver_red", "driver_green"}
INVARIANT BlockResumesAtItsPhase

\* A supervised Run to its end: adverse outcomes, a manual checkpoint, a crash, queued
\* human context, a turn limit that bites and a budget that runs out.
SPECIFICATION LiveSpec
CHECK_DEADLOCK FALSE
CONSTANTS
    BudgetLimit = 8
    ManualCheckpoints = {"driver"}
    Causes = {c1, c2}
    MaxTurns = 5
    Supervised = TRUE
    MaxInvocations = 7
    MaxAdverse = 2
    MaxCrashes = 1
    MaxInterventions = 1
    Addressees = {"driver_red", "driver_green"}
INVARIANTS
    TypeOK
    RecoveryEvidence
    NoOrphanAttempt
    LegalSuccession
    DoneIsReviewed
    DecisionsMatchPauses
    NoWorkWithoutDecision
    BudgetCountsStarts
    InterventionsReachTheirAttempt
PROPERTIES
    NoReplay
    KeepsContract
    AppendOnly
    EventuallyFinishes

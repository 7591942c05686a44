SPECIFICATION Spec
CHECK_DEADLOCK FALSE
CONSTANTS
    N = 2
    Reviewers = {r1}
INVARIANTS
    DeathLosesNothing

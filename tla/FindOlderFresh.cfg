SPECIFICATION MapSpec
CHECK_DEADLOCK FALSE
CONSTANTS
    Clients = {c1}
    MaxRevisions = 2
    MaxEntities = 0
    OwnPrefix = TRUE
INVARIANTS
    AnyFreshIsShown

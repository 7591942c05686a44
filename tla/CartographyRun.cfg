SPECIFICATION MapSpec
CHECK_DEADLOCK FALSE
CONSTANTS
    Clients = {c1, c2}
    MaxRevisions = 2
    MaxEntities = 3
    OwnPrefix = TRUE
SYMMETRY ClientSymmetry
INVARIANTS
    FreshIsShown
    IdentitiesAccounted
PROPERTY MapStands

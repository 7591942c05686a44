SPECIFICATION Spec
CHECK_DEADLOCK FALSE
CONSTANTS
    Clients = {c1}
    Authors = {a1}
    MaxRevisions = 2
    MaxSpecifications = 1
    MaxExecutions = 1
    MaxAuthored = 1
INVARIANT SavedLoads

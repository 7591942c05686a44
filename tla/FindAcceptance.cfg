SPECIFICATION Spec
CHECK_DEADLOCK FALSE
CONSTANTS
    Clients = {c1, c2}
    Authors = {}
    MaxRevisions = 5
    MaxSpecifications = 1
    MaxExecutions = 0
    MaxAuthored = 0
PROPERTY AcceptanceKept

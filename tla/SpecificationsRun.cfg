SPECIFICATION Spec
CHECK_DEADLOCK FALSE
CONSTANTS
    Clients = {c1, c2}
    Authors = {a1, a2}
    MaxRevisions = 4
    MaxSpecifications = 1
    MaxExecutions = 1
    MaxAuthored = 1
SYMMETRY Symmetric
INVARIANT FreshIsCurrent
PROPERTY AcceptanceStands

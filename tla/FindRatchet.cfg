SPECIFICATION Spec
CHECK_DEADLOCK FALSE
CONSTANTS
    Editors = {e1, e2}
    Concurrent = TRUE
    MaxChanges = 2
    MaxAttempts = 2
PROPERTY RatchetHolds

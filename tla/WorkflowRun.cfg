SPECIFICATION Spec
CHECK_DEADLOCK FALSE
CONSTANTS
    Editors = {e1}
    Concurrent = FALSE
    MaxChanges = 2
    MaxAttempts = 2
INVARIANTS
    CompactIsJustified
    ListedBeforeSaved
PROPERTY RatchetHolds

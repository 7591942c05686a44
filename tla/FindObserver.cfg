SPECIFICATION ObservationSpec
CHECK_DEADLOCK FALSE
CONSTANTS
    MaxStreams = 1
    MaxEvents = 4
    Capacity = 2
    MaxInTransit = 1
INVARIANTS
    ObserverIsHarmless

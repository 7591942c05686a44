SPECIFICATION ObservationSpec
CHECK_DEADLOCK FALSE
CONSTANTS
    MaxStreams = 1
    MaxEvents = 7
    Capacity = 2
    MaxInTransit = 2
INVARIANT ClientFollows

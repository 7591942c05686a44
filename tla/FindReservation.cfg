SPECIFICATION LiveSpec
CONSTANTS
    Clients = {c1}
    Supervisors = {s1}
    DeathPoints = {}
    MaxWorkers = 1
    MaxClientDeaths = 1
    MaxWorkerDeaths = 0
PROPERTIES ReservationEnds
CHECK_DEADLOCK FALSE

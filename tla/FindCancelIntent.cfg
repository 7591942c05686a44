SPECIFICATION Spec
CONSTANTS
    Clients = {c1}
    Supervisors = {s1}
    DeathPoints = {}
    MaxWorkers = 1
    MaxClientDeaths = 0
    MaxWorkerDeaths = 0
PROPERTIES CancelIntentStands
CHECK_DEADLOCK FALSE

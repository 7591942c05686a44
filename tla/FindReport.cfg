SPECIFICATION Spec
CONSTANTS
    Clients = {c1}
    Supervisors = {s1}
    DeathPoints = {}
    MaxWorkers = 1
    MaxClientDeaths = 0
    MaxWorkerDeaths = 0
PROPERTIES ReportStands
CHECK_DEADLOCK FALSE

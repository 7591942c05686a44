SPECIFICATION Spec
CONSTANTS
    Clients = {c1}
    Supervisors = {s1}
    DeathPoints = {}
    MaxWorkers = 3
    MaxClientDeaths = 0
    MaxWorkerDeaths = 0
INVARIANTS OneExecution
CHECK_DEADLOCK FALSE

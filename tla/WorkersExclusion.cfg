SPECIFICATION Spec
CONSTANTS
    Clients = {c1, c2}
    Supervisors = {}
    DeathPoints = {"booting", "booted", "running", "reporting"}
    MaxWorkers = 3
    MaxClientDeaths = 2
    MaxWorkerDeaths = 2
INVARIANTS OneExecution GuardExcludesWork
CHECK_DEADLOCK FALSE

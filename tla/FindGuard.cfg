SPECIFICATION Spec
CONSTANTS
    Clients = {c1, c2}
    Supervisors = {}
    DeathPoints = {"spawned", "booting", "booted", "running", "reporting"}
    MaxWorkers = 2
    MaxClientDeaths = 0
    MaxWorkerDeaths = 1
INVARIANTS GuardExcludesWork
CHECK_DEADLOCK FALSE

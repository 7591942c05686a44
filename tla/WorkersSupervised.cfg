SPECIFICATION LiveSpec
CONSTANTS
    Clients = {c1}
    Supervisors = {s1}
    DeathPoints = {"spawned", "booting", "booted", "running", "reporting"}
    MaxWorkers = 2
    MaxClientDeaths = 0
    MaxWorkerDeaths = 1
INVARIANT TypeOK
PROPERTY ReservationEnds
CHECK_DEADLOCK FALSE

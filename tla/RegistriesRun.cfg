SPECIFICATION Spec
CHECK_DEADLOCK FALSE
CONSTANTS
    Clients = {c1, c2}
    Subjects = {s1}
    Runs = {r1, r2}
    MaxActors = 3
PROPERTIES
    AttributionResolves
    RegistriesStand

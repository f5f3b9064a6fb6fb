CONSTANTS
    Producers = {p1, p2}
    Consumers = {c1, c2}
    MAX_SHELF = 5
    MaxKills = 1
    None = None
SPECIFICATION Spec
INVARIANTS
    WaitsAtTheName

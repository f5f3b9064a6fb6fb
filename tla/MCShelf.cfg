\* Two producers and two consumers, started and killed at any time.
CONSTANTS
    Producers = {p1, p2}
    Consumers = {c1, c2}
    MAX_SHELF = 5
    MaxKills = 2
    None = None
SPECIFICATION Spec
INVARIANTS
    TypeOK
    ShelfCounts
PROPERTIES
    KeepsGoing
    PartnerGoneEnds

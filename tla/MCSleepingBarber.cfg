\* Five customers and two chairs: the room fills and empties.
CONSTANTS
    Customers = {c1, c2, c3, c4, c5}
    WAITING_CHAIRS = 2
SPECIFICATION Spec
INVARIANTS
    SeatsAccounted
PROPERTIES
    AllCustomersLeave

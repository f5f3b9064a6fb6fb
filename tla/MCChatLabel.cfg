\* Three clients; a label that is not the sender's number is found.
CONSTANTS
    Clients = {c1, c2, c3}
    NumListeners = 1
    SockBuf = 1
    Capacity = 4
    MaxLines = 2
SPECIFICATION Spec
SYMMETRY Symmetry
INVARIANTS
    LabelIsNumber
CHECK_DEADLOCK FALSE

\* Two listeners and a table with room for three clients out of four.
CONSTANTS
    Clients = {c1, c2, c3, c4}
    NumListeners = 2
    SockBuf = 1
    Capacity = 5
    MaxLines = 1
SPECIFICATION Spec
SYMMETRY Symmetry
INVARIANTS
    TableOK
    AbortNeedsCrowd
\* The server may abort.
CHECK_DEADLOCK FALSE

\* Three clients connected at once, three lines, buffers of one unit.
CONSTANTS
    Clients = {c1, c2, c3}
    NumListeners = 1
    SockBuf = 1
    Capacity = 4
    MaxLines = 3
SPECIFICATION Spec
SYMMETRY Symmetry
INVARIANTS
    TypeOK
    LabelNeverNewer
    WellFramed
    NoGapNoEcho
PROPERTIES
    RoomSpec
    DropsOnlyEmptyLines
\* Every user may leave, and the server may die of SIGPIPE.
CHECK_DEADLOCK FALSE

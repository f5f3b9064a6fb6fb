\* The allocator: nine cells, room for four blocks apart from each other and more.
\* Paging: three frames as in the program and two pages more than fit.  Bursts at
\* and beside the limits of the slices.  Requests up to the largest int away.  Text
\* so long that the buffer of a line grows twice.  Eight-bit ints for the threads.
CONSTANTS
    Size = 9
    NULL = NULL
    MAX_FRAMES = 3
    MAX_PAGES = 5
    MaxReferences = 8
    TIME_SLICE_Q1 = 4
    TIME_SLICE_Q2 = 8
    Bursts = {1, 4, 5, 12, 13, 20}
    MaxProcesses = 5
    DiskMax = 7
    Cylinders = {0, 1, 3, 4, 7}
    MaxRequests = 5
    MAX_BLOCKS = 3
    SPARE_BLOCKS = 2
    MaxFiles = 4
    BYTE = 2
    NewLine = 1
    INITIAL_BUF_SIZE = 2
    MaxText = 7
    MaxSeries = 20
    IntMax = 127
    Numbers = {0, 1, 2, 3, 4, 12, 17, 20, 25, 90, 97, 113, 120, 121, 126, 127}
SPECIFICATION MCSpec
INVARIANTS
    ListOK
    SecondChanceRight
    ScheduleRight
    DiskRight
    BlocksRight
    LinesArrive
    ThreadsRight
    SegmentsApart
PROPERTIES
    ArenaSpec
CHECK_DEADLOCK FALSE

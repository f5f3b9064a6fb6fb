\* Two clients and buffers so small that everybody can wait for everybody.
CONSTANTS
    Clients = {c1, c2}
    NumListeners = 1
    SockBuf = 1
    Capacity = 4
    MaxLines = 3
SPECIFICATION FairSpec
PROPERTIES
    StallIsMutual
    EveryoneSees
    ServerNotices
\* Server and client may end up writing to each other for ever.
CHECK_DEADLOCK FALSE

SPECIFICATION FairSpec
CONSTANTS
    ClientData = 3
    ServerData = 2
    Window = 2
    BufLen = 2
INVARIANTS
    TypeOK
    UpIntact
    DownIntact
    DrainedAtEof
PROPERTIES
    SessionEnds
    Delivered
CHECK_DEADLOCK FALSE

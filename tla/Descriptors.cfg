SPECIFICATION Spec
CONSTANTS
    MaxUser = 2
    MaxFd = 13
    Counts = {1, 2}
    MaxLines = 4
INVARIANTS
    Accounted
    OthersDueOnly
PROPERTY
    ServerReturns
CHECK_DEADLOCK FALSE

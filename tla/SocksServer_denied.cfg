SPECIFICATION Spec
CONSTANTS
    ClientData = 1
    ServerData = 1
    Window = 2
    BufLen = 1
INVARIANT DeniedIsTold
CHECK_DEADLOCK FALSE

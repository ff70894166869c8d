SPECIFICATION Spec
CONSTANTS
    Scripts <- TestScripts
    Output = {"dq", "sq"}
    MaxOut = 1
    BufLen = 3
INVARIANT PageReadsAsTerminal
CHECK_DEADLOCK FALSE

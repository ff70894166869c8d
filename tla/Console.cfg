SPECIFICATION FairSpec
CONSTANTS
    Scripts <- TestScripts
    Output = {"pct", "nl", "bs"}
    MaxOut = 3
    BufLen = 3
INVARIANTS
    TypeOK
    SentInOrder
    PageReadsAsTerminal
PROPERTY SessionCompletes
CHECK_DEADLOCK FALSE

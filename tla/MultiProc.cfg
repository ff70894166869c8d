SPECIFICATION Spec
CONSTANTS
    MaxUsers = 3
    MaxClient = 2
    MaxLines = 2
INVARIANTS
    SlotsOwned
    OneHolder
PROPERTY LinesReturn
CHECK_DEADLOCK FALSE

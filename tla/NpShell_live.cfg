SPECIFICATION FairSpec
CONSTANTS
    Lines <- LiveLines
    MaxLines = 3
    Capacity = 1
    Output = 2
    BuiltinWaits = TRUE
PROPERTIES
    LineReturns
    ChildrenEnd
CHECK_DEADLOCK FALSE

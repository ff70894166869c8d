SPECIFICATION FairSpec
CONSTANTS
    Lines <- LiveLines
    MaxLines = 3
    Capacity = 1
    Output = 2
    BuiltinWaits = FALSE
PROPERTIES
    PromptReturns
CHECK_DEADLOCK FALSE

SPECIFICATION Spec
CONSTANTS
    Lines <- SafetyLines
    MaxLines = 3
    Capacity = 1
    Output = 1
    BuiltinWaits = TRUE
INVARIANTS
    TypeOK
    ClocksAndTable
    EndOfInputVisible
    OneReader
    ShellDescriptors
    NoLostZombie
PROPERTIES
    PromptAfterLast
    ImplementsNumberedPipes
CHECK_DEADLOCK FALSE

SPECIFICATION Spec
CONSTANTS
    Conns = {c1, c2}
    Plain = {c2}
    LastPid = 3
    Pieces = 2
    None = None
INVARIANTS
    TypeOK
    AnswerInOrder
    
PROPERTY
    ResponseEnds
CHECK_DEADLOCK FALSE

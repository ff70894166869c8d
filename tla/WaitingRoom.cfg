SPECIFICATION Spec
CONSTANTS
    Clients = {c1, c2, c3, c4, c5, c6}
    Active = 2
    MaxFd = 5
    Names = {ann}
    NoName = NoName
    JunkIds = {9}
    NoClient = NoClient
SYMMETRY ClientSymmetry
INVARIANTS
    TypeOK
    TablesAgree
    NoGap
    ServedAreLogged
    InfoMatches
    NamesUnique
PROPERTIES
    ImplementsAdmission
CHECK_DEADLOCK FALSE

CONSTANTS
    NumIssues = 3
    NumStates = 3
    PageSize = 1
    DefaultPage = 2
    MaxEdits = 2
SPECIFICATION Spec
INVARIANTS
    TypeOK
    FetchIsComplete
    MoveIsHonest

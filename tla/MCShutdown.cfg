CONSTANTS
    Projects = {p, q}
    NoProject = NoProject
    Capacity = 1
    Multi = TRUE
    MaxLaunches = 2
SPECIFICATION FairSpec
INVARIANTS
    TypeOK
    StopsOnce
    StopIsComplete

    
CHECK_DEADLOCK FALSE

CONSTANTS
    Projects = {p, q}
    NoProject = NoProject
    Capacity = 1
    Multi = TRUE
    MaxLaunches = 2
SPECIFICATION Spec
INVARIANT ExitWaits
CHECK_DEADLOCK FALSE

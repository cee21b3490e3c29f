CONSTANTS
    Ids <- MCIds
    Key <- MCKey
    Workflows = {w1, w2}
    Contents = {c1, c2}
    w1 = w1
    w2 = w2
    c1 = c1
    c2 = c2
    e = e
    k = k
    OwnLimit <- MCOwnLimit
    Overlapping <- SameRoot
    Missing = Missing
    Invalid = Invalid
    Limits = {0, 1}
    Endpoints = {e}
    Secrets = {k}
    None = None
    FirstFile <- MCFile
    HandFiles <- MCHandFiles
    FirstWorkflow <- MCWorkflow
    Requests <- MCRequests
    Torn = Torn
    Absent = Absent
    NoSave = NoSave
    Stopped = Stopped
    MaxEdits = 2
    MaxHands = 1
    MaxSaves = 1
SPECIFICATION Spec
INVARIANTS
    TypeOK
    FileIsMemory
    StartsAgain
    MemoryIsSound
    ConfigFollowsFile
CHECK_DEADLOCK FALSE

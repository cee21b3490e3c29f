CONSTANTS
    MaxTurns = 2
    ChanSize = 1
    PipeSize = 2
    MaxUnasked = 1
SPECIFICATION FairSpec
INVARIANTS
    TypeOK
    SuccessEarned
    OneTurnAtATime
    NoOrphan
PROPERTIES
    
    ReaderLeavesIfRestFits
CHECK_DEADLOCK FALSE

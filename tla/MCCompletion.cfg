CONSTANTS
    CodingState = "in progress"
    ReviewState = "in review"
    ResolutionState = "review resolution"
    MergeState = "approved"
    DoneState = "done"
    OtherState = "backlog"
    Missing = Missing
    ActiveStates = {"in progress", "in review", "review resolution", "approved"}
    CompletionStates <- MCCompletionStates
    Teams <- MCTeams
    GitHub = TRUE
    WithResolution = TRUE
    EscalationState = "in review"
    MaxAttempts = 2
    PeopleSet = {"in progress", "in review", "review resolution", "approved", "done", "backlog", Missing}
SPECIFICATION Spec
INVARIANTS
    TypeOK
    PassesBounded

    

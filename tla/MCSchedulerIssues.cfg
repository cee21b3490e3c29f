CONSTANTS
    Issues = {i1, i2}
    Runs = {r1, r2}
    ActiveStates = {"todo"}
    TerminalStates = {"done"}
    OtherStates = {}
    Missing = Missing
    StageOf <- OneStageOf
    Succ <- OneSucc
    AgainStates = {}
    WorkingState = Missing
    CodingStage = "coding"
    Todo = "todo"
    MaxAgents = 1
    StateLimit <- OneNoStateLimit
    SlotLimit = 2
    ResultCap = 1
    MaxAttempt = 1
    MaxWakes = 1
    EditStates = {"todo", "done", Missing}
    Pausable = {}
    LabelEdits = FALSE
    ClockSlack = FALSE
    NoIssue = NoIssue
    NoRun = NoRun
    NoRetry = NoRetry
SPECIFICATION Spec
VIEW WhatMatters
SYMMETRY SymmetricNames
INVARIANTS
    WithinMaxAgents
    ResultsAreDelivered

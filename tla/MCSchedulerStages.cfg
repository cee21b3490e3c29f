CONSTANTS
    Issues = {i1}
    Runs = {r1, r2}
    ActiveStates = {"todo", "in progress", "in review"}
    TerminalStates = {"done"}
    OtherStates = {}
    Missing = Missing
    StageOf <- MCStageOf
    Succ <- MCSucc
    AgainStates = {"in review"}
    WorkingState = "in progress"
    CodingStage = "coding"
    Todo = "todo"
    MaxAgents = 2
    StateLimit <- NoStateLimit
    SlotLimit = 2
    ResultCap = 1
    MaxAttempt = 1
    MaxWakes = 1
    EditStates = {"todo", "in progress", "in review", "done", Missing}
    Pausable = {"project", "coding", "review"}
    LabelEdits = FALSE
    ClockSlack = FALSE
    NoIssue = NoIssue
    NoRun = NoRun
    NoRetry = NoRetry
SPECIFICATION Spec
SYMMETRY SymmetricRuns
INVARIANTS
    TypeOK
    ClaimDiscipline
    SlotsConserved
    RunningEntryIsBacked
    ParkedOnlyWhilePaused
PROPERTIES
    EntryNotOverwritten

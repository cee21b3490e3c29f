CONSTANTS
    Issues = {i1, i2}
    NoIssue = NoIssue
    Modes = {"directory", "local", "github"}
    MaxCommits = 2
    MaxPushes = 1
SPECIFICATION Spec
SYMMETRY SymmetricIssues
INVARIANTS
    TypeOK
    RunsInWorktree
    DoneIsPublished
    NothingLeftBehind
PROPERTIES
    PushedWasVerified

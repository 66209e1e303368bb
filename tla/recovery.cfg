SPECIFICATION Spec
CONSTANTS
    Story = {1}
    Pair = {1, 2}
    Epic <- NoEpic
    Blockers <- NoBlockers
    MaxParallel = 1
    Run = {r1, r2}
    Client = {c1}
    Ops = {"retry", "skip", "clean"}
    Faults = {"setup", "spawn", "deliver", "timeout", "crash"}
    Overlap = TRUE
    LogName <- OwnLogName
    LogOf <- OwnLog
SYMMETRY Symmetry
INVARIANTS
    TaskOwnership
    DoneMeansFinished
    TasksInOrder
    SuccessIsExitZero
    AgentsHaveWorktree
PROPERTIES
    VerdictIsFinal
\* These hold, too:
\* INVARIANT DeliveredIsDone
\* INVARIANT OneAgentPerStory
\* INVARIANT ExitCodesAreTrue

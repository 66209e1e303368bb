SPECIFICATION Spec
CONSTANTS
    Story = {1, 2}
    Pair = {1}
    Epic <- NoEpic
    Blockers <- Chain
    MaxParallel = 1
    Run = {r1, r2}
    Client = {c1}
    Ops = {"run", "pause", "retry", "cancel"}
    Faults = {"setup", "timeout", "crash"}
    Overlap = FALSE
    LogName <- OwnLogName
    LogOf <- OwnLog
SYMMETRY Symmetry
PROPERTIES
    FollowsLifecycle
\* This holds, too:
\* PROPERTY PausedStartsNothing

SPECIFICATION Spec
CONSTANTS
    Story = {1, 2, 3}
    Pair = {1}
    Epic <- NoEpic
    Blockers <- Join
    MaxParallel = 2
    Run = {r1, r2}
    Client = {c1}
    Ops = {"retry", "skip", "clean"}
    Faults = {"spawn", "deliver"}
    Overlap = TRUE
    LogName <- OwnLogName
    LogOf <- OwnLog
SYMMETRY Symmetry
INVARIANTS
    DependenciesRespected
\* These hold, too:
\* INVARIANT DependencyInv
\* PROPERTY KeepsToLifecycle

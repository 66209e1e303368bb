SPECIFICATION Spec
CONSTANTS
    Story = {1}
    Pair = {1}
    Epic <- NoEpic
    Blockers <- NoBlockers
    MaxParallel = 1
    Run = {r1, r2}
    Client = {c1}
    Ops = {"retry", "continue", "stop", "stop_all", "cancel", "clean_all"}
    Faults = {"crash"}
    Overlap = FALSE
    LogName <- OwnLogName
    LogOf <- OwnLog
SYMMETRY Symmetry
INVARIANTS
    OwnershipInv
    DeliveredIsDone
\* These hold, too:
\* INVARIANT DoneMeansFinished
\* PROPERTY VerdictIsFinal

SPECIFICATION Spec
CONSTANTS
    Story = {1}
    Pair = {1}
    Epic <- NoEpic
    Blockers <- NoBlockers
    MaxParallel = 1
    Run = {r1, r2}
    Client = {c1}
    Ops = {"cancel", "retry", "stop"}
    Faults = {}
    Overlap = TRUE
    LogName <- OwnLogName
    LogOf <- OwnLog
\* One of these at a time; TLC finds each violated.
INVARIANT CancelledHasNoAgent
\* INVARIANT FailedHasNoAgent
\* PROPERTY VerdictIsFinal

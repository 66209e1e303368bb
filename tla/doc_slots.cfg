SPECIFICATION Spec
CONSTANTS
    Story = {1, 2}
    Pair = {1}
    Epic <- NoEpic
    Blockers <- NoBlockers
    MaxParallel = 1
    Run = {r1, r2, r3}
    Client = {}
    Ops = {}
    Faults = {}
    Overlap = FALSE
    LogName <- OwnLogName
    LogOf <- OwnLog
INVARIANT SlotsAreRespected

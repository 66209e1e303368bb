SPECIFICATION Spec
CONSTANTS
    Story = {1}
    Pair = {1}
    Epic <- NoEpic
    Blockers <- NoBlockers
    MaxParallel = 1
    Run = {r1, r2, r3}
    Client = {c1, c2}
    Ops = {"retry"}
    Faults = {}
    Overlap = TRUE
    LogName <- OwnLogName
    LogOf <- OwnLog
SYMMETRY Symmetry
INVARIANTS
    OneAgentPerTask

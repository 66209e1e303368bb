SPECIFICATION Spec
CONSTANTS
    Story = {1, 2}
    Pair = {1}
    Epic <- NoEpic
    Blockers <- Chain
    MaxParallel = 1
    Run = {r1, r2, r3}
    Client = {}
    Ops = {}
    Faults = {"deliver"}
    Overlap = FALSE
    LogName <- SharedLogName
    LogOf <- SharedLog
\* One of these at a time; TLC finds each violated.
INVARIANT SuccessIsEarned
\* INVARIANT ReadyAfterDelivery

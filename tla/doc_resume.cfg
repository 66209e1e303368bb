SPECIFICATION FairSpec
CONSTANTS
    Story = {1}
    Pair = {1, 2}
    Epic <- NoEpic
    Blockers <- NoBlockers
    MaxParallel = 1
    Run = {r1, r2, r3, r4}
    Client = {c1}
    Ops = {"stop", "continue", "skip"}
    Faults = {}
    Overlap = FALSE
    LogName <- OwnLogName
    LogOf <- OwnLog
\* One of these at a time; TLC finds each violated.
PROPERTY ResumedStoryRuns
\* PROPERTY AgentAfterSkipIsCredited

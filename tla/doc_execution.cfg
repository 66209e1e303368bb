SPECIFICATION Spec
CONSTANTS
    Story = {1}
    Pair = {1}
    Epic <- NoEpic
    Blockers <- NoBlockers
    MaxParallel = 1
    Run = {r1, r2}
    Client = {c1}
    Ops = {"run", "pause", "retry", "skip", "stop", "continue", "clean_all"}
    Faults = {"spawn", "deliver", "crash"}
    Overlap = FALSE
    LogName <- OwnLogName
    LogOf <- OwnLog
\* One of these at a time; TLC finds each violated.
PROPERTY PassingAgentIsCredited
\* INVARIANT SuccessIsEarned
\* PROPERTY DoneIsDelivered
\* PROPERTY AdoptedAgentIsCredited
\* PROPERTY PausedStartsNoAgent
\* INVARIANT NothingRunsBehindFailure
\* PROPERTY RecoveryLeavesNoOrphan
\* PROPERTY FinishedStoryIsCompleted
\* PROPERTY CleanSparesActiveStories
\* INVARIANT FailedTaskFailsStory

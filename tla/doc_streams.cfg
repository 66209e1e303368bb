SPECIFICATION StreamsSpec
CONSTANTS
    Clients = {"cli", "tui"}
    MaxRequests = 3
    MaxEvents = 2
    MaxLines = 1
    Capacity = 1
    Task = {1, 2, 3, 4, 5}
    Impl = {1, 3, 5}
    MaxRuns = 5
    MaxPrinted = 4
    MaxOfRun = 2
    MaxIdle = 1
    Scenes <- SkipThenRetry
\* LastGoodCommitRemains; DoneByOwnCommit with Scenes <- SilentAgents;
\* NoLineIsMissed with Scenes <- Following.
INVARIANT LastGoodCommitRemains
\* INVARIANT DoneByOwnCommit
\* INVARIANT NoLineIsMissed
CHECK_DEADLOCK FALSE

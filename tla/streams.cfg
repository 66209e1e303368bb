SPECIFICATION StreamsSpec
CONSTANTS
    Clients = {"cli", "tui"}
    MaxRequests = 3
    MaxEvents = 2
    MaxLines = 1
    Capacity = 1
    Task = {1, 2, 3}
    Impl = {1, 3}
    MaxRuns = 3
    MaxPrinted = 3
    MaxOfRun = 2
    MaxIdle = 1
    Scenes <- FailuresOrFollower
INVARIANTS
    InSync
    EventsInOrder
    VerdictByOwnOutput
    DoneWorkIsKept
    LinesInOrder
PROPERTIES
    ClientReturns
\* These hold, too:
\* INVARIANT TypeOK
\* INVARIANT LogTypeOK
\* PROPERTY EveryRequestRuns
\* PROPERTY FollowEnds
CHECK_DEADLOCK FALSE

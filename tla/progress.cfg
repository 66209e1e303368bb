SPECIFICATION FairSpec
CONSTANTS
    Story = {1, 2}
    Pair = {1, 2}
    Epic <- OneEpic
    Blockers <- Chain
    MaxParallel = 1
    Run = {r1, r2}
    Client = {}
    Ops = {"run", "pause"}
    Faults = {"worktree", "deliver", "timeout"}
    Overlap = FALSE
    LogName <- OwnLogName
    LogOf <- OwnLog
PROPERTIES
    EveryStorySettles
    EpicFollowsStories

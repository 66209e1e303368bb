SPECIFICATION ProjectsSpec
CONSTANTS
    Project = {1, 2}
    ProjectName <- OneName
    First = {1}
    Story = {1, 2, 3}
    ProjectOf <- ThirdInSecond
    ShortId <- Numbers
    Slug <- OneTitle
    MaxCommits = 1
    MaxBase = 1
    Ops = {"init", "delete", "clean", "stop", "retry", "continue"}
    Faults = {"worktree", "rebase", "push", "mr", "task", "crash"}
    Client = {c1, c2}
    Log = {l1, l2}
    MaxRows = 3
    MaxSets = 2
    MaxAge = 2
    U32 = 4
    Asked <- Settings
    Envs <- Environments
    Uses <- Commands
\* One of these at a time; TLC finds each violated.
PROPERTY CleanSparesActive
\* INVARIANT NoSetIsLost
\* INVARIANT ProjectHasDirs
CHECK_DEADLOCK FALSE

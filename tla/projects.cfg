SPECIFICATION ProjectsSpec
CONSTANTS
    Project = {1, 2}
    ProjectName <- OneName
    First = {1}
    Story = {1, 2, 3}
    ProjectOf <- ThirdInSecond
    ShortId <- Numbers
    Slug <- OneTitle
    MaxCommits = 1
    MaxBase = 1
    Ops = {"init", "delete", "clean", "stop", "retry", "continue"}
    Faults = {"worktree", "rebase", "push", "mr", "task", "crash"}
    Client = {c1, c2}
    Log = {l1, l2}
    MaxRows = 3
    MaxSets = 2
    MaxAge = 2
    U32 = 4
    Asked <- Settings
    Envs <- Environments
    Uses <- Commands
SYMMETRY Symmetry
INVARIANTS
    OneStoryPerBranch
    DeliveredWhole
    WorkSurvives
    NothingIsInherited
    SetsAreKept
\* These hold, too:
\* INVARIANT TypeOK
\* INVARIANT ListedWorktreesExist
\* INVARIANT NoWorktreeIsForgotten
\* INVARIANT FilesTypeOK
\* INVARIANT OneProjectPerName
\* INVARIANT BadValueIsReported
\* INVARIANT LayerHasTheValue
\* PROPERTY RecentLogsAreKept
CHECK_DEADLOCK FALSE

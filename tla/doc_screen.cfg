SPECIFICATION ScreenSpec
CONSTANTS
    Project = {p, q}
    Shape <- SmallTree
    Query = {"verify", "second"}
    Titles <- SmallTitles
    Name = {a, b}
    Owner = {p, q}
    Filters = {"one"}
    Matched <- OneName
    MaxLen = 9
    Wide = 8
    Guess = 4
    Heights = {2, 4, 5}
    SpecName = {a, b}
    Task = {t}
    None = None
    MaxKeys = 2
    MaxText = 1
    MaxRefreshes = 1
\* One of these at a time; TLC finds each violated.
PROPERTY AsksAboutHighlighted
\* PROPERTY OpensHighlightedLog
\* PROPERTY ActsOnHighlighted
\* PROPERTY ApprovedAreKept
\* PROPERTY EndsAreReached
\* PROPERTY PaneMovesAsNamed
\* PROPERTY EndIsFollowed
\* INVARIANT AnswerReachesItsSpec
\* PROPERTY TurnsEndAnyhow

SPECIFICATION ScreenSpec
CONSTANTS
    Project = {p, q}
    Shape <- SmallTree
    Query = {"verify", "second"}
    Titles <- SmallTitles
    Name = {a, b}
    Owner = {p, q}
    Filters = {"one"}
    Matched <- OneName
    MaxLen = 9
    Wide = 8
    Guess = 4
    Heights = {2, 4, 5}
    SpecName = {a, b}
    Task = {t}
    None = None
    MaxKeys = 2
    MaxText = 1
    MaxRefreshes = 1
INVARIANTS
    VisibleIsExact
    LinesAreOwn
PROPERTIES
    SendsWhatWasConfirmed
    GeneratesApproved
    KeysMoveAsNamed
    TurnsEnd
\* These hold, too:
\* INVARIANT TypeOK
\* INVARIANT SelectionInRange
\* INVARIANT OneSubView
\* INVARIANT ShownIsOfProject
\* INVARIANT PanelsTypeOK
\* INVARIANT SomethingHighlighted
\* INVARIANT ScrollTypeOK
\* INVARIANT OffsetInRange
\* INVARIANT LiveTypeOK
\* PROPERTY SpecIsOfProject
\* PROPERTY LeftoversAreRead

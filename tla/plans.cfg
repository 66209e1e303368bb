SPECIFICATION PlansSpec
CONSTANTS
    MaxSpecs = 2
    Name = {n1, n2}
    Turn = {t1, t2}
    Client = {c1}
    SpecOps = {"new", "answer", "resume", "approve", "reopen", "deactivate", "delete"}
    SpecFaults = {"crash"}
    MaxWaves = 1
    MaxPlans = 0
    Stream = {s1}
    PlanOps = {}
    PlanFaults = {}
    Story = {s1, s2, s3}
    Session = {w1, w2}
    Wave <- TwoWaves
    Plans <- DistinctPlans
SYMMETRY Symmetry
INVARIANTS
    CyclesAreFound
    SortIsTopological
    WaveNeverStalls
    EveryItemIsReached
PROPERTIES
    LooseSpecsFollowLifecycle
\* These hold, too:
\* INVARIANT ActiveCanContinue
\* INVARIANT GraphTypeOK
\* INVARIANT ReportIsCycle
\* INVARIANT ItemsTypeOK
\* INVARIANT DependenciesAsPlanned
\* INVARIANT TasksAlternate
\* INVARIANT IdsDiffer
\* INVARIANT ItemsInv

SPECIFICATION PlansSpec
CONSTANTS
    MaxSpecs = 1
    Name = {n1}
    Turn = {t1}
    Client = {}
    SpecOps = {}
    SpecFaults = {}
    MaxWaves = 1
    MaxPlans = 0
    Stream = {s1}
    PlanOps = {}
    PlanFaults = {}
    Story = {n1}
    Session = {w1}
    Wave <- TwoProjects
    Plans <- DistinctPlans
\* StoriesAnswer, also with the two waves of one project; EveryItemIsReached
\* with these constants, or with Wave <- TwoWaves and Plans <- UnnamedPlans.
INVARIANT StoriesAnswer
\* INVARIANT EveryItemIsReached
CHECK_DEADLOCK FALSE

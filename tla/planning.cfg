SPECIFICATION Spec
CONSTANTS
    MaxSpecs = 1
    Name = {n1}
    Turn = {t1}
    Client = {c1, c2}
    SpecOps = {"new", "approve"}
    SpecFaults = {"crash"}
    MaxWaves = 2
    MaxPlans = 1
    Stream = {s1}
    PlanOps = {"generate", "feedback", "approve", "discard"}
    PlanFaults = {"prompt", "twice", "spawn", "no_plan", "bad_plan"}
SYMMETRY Symmetry
INVARIANTS
    DraftsPerClient
    NumbersPerClient
PROPERTIES
    DiscardedIsFinal

SPECIFICATION Spec
CONSTANTS
    MaxSpecs = 1
    Name = {n1}
    Turn = {t1}
    Client = {c1, c2}
    SpecOps = {"new", "approve", "delete"}
    SpecFaults = {"crash"}
    MaxWaves = 2
    MaxPlans = 2
    Stream = {s1, s2}
    PlanOps = {"generate", "feedback", "approve", "discard"}
    PlanFaults = {}
\* One of these at a time; TLC finds each violated.
INVARIANT WaveNumbersAreDistinct
\* INVARIANT OneDraftWave
\* INVARIANT FreedSpecsAreUnassigned
\* INVARIANT OnePlanPerWave
\* INVARIANT DecomposedHasPlan
\* PROPERTY DeletedIsFinal
\* PROPERTY DiscardSparesWork
\* INVARIANT SpecInOneWave

SPECIFICATION Spec
CONSTANTS
    MaxSpecs = 2
    Name = {n1}
    Turn = {t1, t2}
    Client = {c1}
    SpecOps = {"new", "answer", "resume", "approve", "reopen", "deactivate", "delete"}
    SpecFaults = {"crash", "no_id"}
    MaxWaves = 2
    MaxPlans = 2
    Stream = {s1, s2}
    PlanOps = {}
    PlanFaults = {}
\* One of these at a time; TLC finds each violated.
INVARIANT OnlyDraftsTalk
\* INVARIANT OneActiveSession
\* PROPERTY SessionIdIsKept

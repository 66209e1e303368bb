SPECIFICATION FairSpec
CONSTANTS
    Daemons = {d1, d2, d3}
    Clients = {c1, c2}
    Agents = {a1}
    Ops = {"ensure", "stop", "foreground"}
    Faults = {"kill", "torn"}
    MaxTrouble = 2
    NoOne = NoOne
\* One of these at a time; TLC finds each violated.
INVARIANT AgentsAreEnded
\* INVARIANT NoTwoDaemons
\* INVARIANT StopCleansUp
\* PROPERTY Served
CHECK_DEADLOCK FALSE

SPECIFICATION DaemonSpec
CONSTANTS
    Daemons = {d1, d2, d3}
    Clients = {c1, c2}
    Agents = {a1, a2}
    Ops = {"ensure", "status", "stop", "foreground"}
    Faults = {"kill", "slow", "unread"}
    MaxTrouble = 2
    NoOne = NoOne
INVARIANTS
    OneDaemon
    NothingIsLeft
PROPERTIES
    Served
\* These hold, too:
\* INVARIANT TypeOK
\* INVARIANT OrderInv
\* INVARIANT StartInv
CHECK_DEADLOCK FALSE

---------------------------- MODULE MCExecution -----------------------------
(* Instances of Execution for TLC: values for its constants. *)
EXTENDS DocumentedBehaviour, TLC

\* Stories that do not depend on each other.
NoBlockers == [s \in Story |-> {}]

\* Every story depends on the one before it.
Chain == [s \in Story |-> {u \in Story : u = s - 1}]

\* The last of the stories depends on all others.
Join == [s \in Story |-> {u \in Story : \A v \in Story : u < s /\ v <= s}]

\* All stories belong to one epic.
OneEpic == {Story}

NoEpic == {}

\* Every task has a log file of its own, as within one wave.
OwnLogName == Task
OwnLog == [t \in Task |-> t]

\* The tasks of two stories have the same numbers and share their log files,
\* as stories of different waves do.
SharedLogName == Pair \X Kind
SharedLog == [t \in Task |-> <<t.pair, t.kind>>]

Symmetry == Permutations(Run)
=============================================================================

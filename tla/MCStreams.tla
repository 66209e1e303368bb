----------------------------- MODULE MCStreams ------------------------------
(***************************************************************************)
(* Instances of Connection and AgentLog for TLC: how lines travel from the *)
(* daemon to a client, and how those of a log come into being.  They share *)
(* no state; a behaviour is one of either, while the other module stays    *)
(* where it begins.                                                        *)
(***************************************************************************)
EXTENDS Connection, AgentLog

VARIABLE part

StreamsInit ==
    /\ Init /\ LogInit
    /\ part \in {"wire", "log"}
    /\ part = "wire" => scene = CHOOSE s \in Scenes : TRUE
    /\ part = "log" => kind = CHOOSE k \in Clients : TRUE

StreamsNext ==
    \/ part = "wire" /\ Next /\ UNCHANGED <<part, logVars>>
    \/ part = "log" /\ LogNext /\ UNCHANGED <<part, vars>>

\* The fairness of both.
StreamsSpec ==
    /\ StreamsInit /\ [][StreamsNext]_<<part, vars, logVars>>
    /\ WF_vars(part = "wire" /\ Daemon)
    /\ WF_vars(part = "wire" /\ Reads)
    /\ WF_logVars(part = "log" /\ scene' = scene /\ Follow)

\* Everything that may happen to agents, and a client that follows a log.
FailuresOrFollower ==
    {[ops |-> {"retry", "skip"}, faults |-> {"silent", "exit", "spawn", "timeout"}],
     [ops |-> {"retry", "follow"}, faults |-> {"exit"}]}

\* A skipped task before one that is retried.
SkipThenRetry == {[ops |-> {"retry", "skip"}, faults |-> {"exit"}]}

\* A silent agent after one that failed with a commit.
SilentAgents == {[ops |-> {"retry"}, faults |-> {"exit", "silent"}]}

Following == {[ops |-> {"follow"}, faults |-> {}]}
=============================================================================

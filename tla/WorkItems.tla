----------------------------- MODULE WorkItems ------------------------------
(***************************************************************************)
(* The work items of one project: epics, stories and tasks, the status     *)
(* values of nflow_core::work_item, and the pure helpers that the daemon   *)
(* runs over rows it has just read.                                        *)
(*                                                                         *)
(* A story is a number, and the numbers are the order in which the         *)
(* scheduler prefers stories (session id, then sort_order).  A story owns  *)
(* the same pairs of tasks as every other: pair p is the impl task with    *)
(* sort_order 2p and the verify task auto-generated right behind it.  An   *)
(* epic is the set of its stories.                                         *)
(***************************************************************************)
EXTENDS Integers, FiniteSets

CONSTANTS
    Story,      \* stories of the approved waves, numbered by priority
    Pair,       \* impl/verify pairs of a story, numbered by sort_order
    Epic,       \* epics, each the set of its stories
    Blockers    \* Blockers[s]: the stories that s depends on

\* Numbers stand for the sort keys of the code.
ASSUME StoryAssumption ==
    Story \subseteq Nat /\ IsFiniteSet(Story) /\ Story # {}

ASSUME PairAssumption ==
    Pair \subseteq Nat /\ IsFiniteSet(Pair) /\ Pair # {}

\* An epic without stories is never given a status by the scheduler.
ASSUME EpicAssumption == Epic \subseteq (SUBSET Story) \ {{}}

\* Dependencies stay inside the project and build_dag has accepted them:
\* some numbering of the stories puts every blocker first.
ASSUME BlockersAssumption ==
    /\ Blockers \in [Story -> SUBSET Story]
    /\ \E level \in [Story -> 1..Cardinality(Story)] :
          \A s \in Story : \A b \in Blockers[s] : level[b] < level[s]

Kind == {"impl", "verify"}

Task == [story : Story, pair : Pair, kind : Kind]

StoryStatus ==
    {"pending", "ready", "in_progress", "done", "failed", "cancelled"}

TaskStatus == {"pending", "in_progress", "done", "failed", "cancelled"}

\* The statuses that no longer hold anybody up.
Finished == {"done", "cancelled"}

TasksOf(s) == {t \in Task : t.story = s}

SortOrder(t) == 2 * t.pair + (IF t.kind = "verify" THEN 1 ELSE 0)

PairedVerify(t) == [t EXCEPT !.kind = "verify"]

\* Mutant of FirstWith: the search forgets to sort.
FirstWithUnsorted(ts, s, st) == {t \in TasksOf(s) : ts[t] = st}

\* The task of story s with status st that comes first, if there is one.
FirstWith(ts, s, st) ==
    {t \in TasksOf(s) :
        /\ ts[t] = st
        /\ \A u \in TasksOf(s) :
              ts[u] = st => SortOrder(t) <= SortOrder(u)}

NextPending(ts, s) == FirstWith(ts, s, "pending")

AllFinished(ts, s) == \A t \in TasksOf(s) : ts[t] \in Finished

\* Mutant of BlockersResolved: a blocker that has started is enough.
BlockersStarted(ss, s) ==
    \A b \in Blockers[s] : ss[b] \notin {"pending", "ready"}

BlockersResolved(ss, s) == \A b \in Blockers[s] : ss[b] \in Finished

\* Writes status new into the tasks of story s whose status is old.
Rewrite(ts, s, old, new) ==
    [t \in Task |-> IF t.story = s /\ ts[t] = old THEN new ELSE ts[t]]

\* What skipping task t makes of the statuses: t is done, and the verify
\* task of a skipped impl task is cancelled, or done if it had failed.
Skipped(ts, t) ==
    [ts EXCEPT ![PairedVerify(t)] = IF @ = "pending" THEN "cancelled"
                                    ELSE IF @ = "failed" THEN "done"
                                    ELSE @,
               ![t] = "done"]

\* The status of an epic whose stories have the statuses in the set S.
PropagateEpicStatus(S) ==
    CASE S = {"pending"} -> "pending"
      [] S = {"cancelled"} -> "cancelled"
      [] S \cap {"in_progress", "ready"} # {} -> "in_progress"
      [] "failed" \in S /\ S \cap {"in_progress", "ready"} = {} -> "failed"
      [] S \subseteq Finished /\ "done" \in S -> "done"
      [] OTHER -> "in_progress"

EpicStatus(ss, e) == PropagateEpicStatus({ss[s] : s \in e})
=============================================================================

-------------------------- MODULE DependencyGraph --------------------------
(***************************************************************************)
(* The dependency graph of the stories of a wave: how build_dag validates  *)
(* what a plan says, how it looks for a cycle, and what the scheduler and  *)
(* topological_sort then rely on (nflow-core/src/dag.rs).                  *)
(*                                                                         *)
(* The algorithms are modelled step by step, one action per turn of a      *)
(* loop. Stories are ordered by their random UUIDs in the code, so the     *)
(* model lets a loop take its elements in any order; queue is the set of   *)
(* what the VecDeque holds.                                                *)
(***************************************************************************)
EXTENDS Naturals, Sequences, FiniteSets

CONSTANTS
    Story,      \* ids a dependency may name
    Session     \* decomposition sessions

ASSUME StoryAssumption == IsFiniteSet(Story)

VARIABLES
    items,      \* the stories given to build_dag
    session,    \* the session of each
    deps,       \* <<blocker, blocked>> pairs; forward and reverse in the code
    pc,         \* build, detect, sort, or the outcome
    color,      \* the colours of detect_cycle
    stack,      \* its recursion: the stories whose dfs has not returned
    todo,       \* for a story on the stack, the neighbours still to look at
    report,     \* the path in CyclicDependency
    inDegree,   \* the map of topological_sort
    queue,      \* stories whose blockers are all sorted
    sorted      \* its result so far

input == <<items, session, deps>>
search == <<color, stack, todo, report>>
order == <<inDegree, queue, sorted>>
graphVars == <<input, pc, search, order>>

Outcome == {"invalid", "cyclic", "sorted", "incomplete"}

GraphTypeOK ==
    /\ items \subseteq Story
    /\ session \in [Story -> Session]
    /\ deps \subseteq Story \X Story
    /\ pc \in {"build", "detect", "sort"} \cup Outcome
    /\ color \in [Story -> {"white", "gray", "black"}]
    /\ stack \in Seq(Story)
    /\ todo \in [Story -> SUBSET Story]
    /\ report \in Seq(Story)
    /\ inDegree \in [Story -> Nat]
    /\ queue \subseteq Story
    /\ sorted \in Seq(Story)

\* What n blocks (forward) and what blocks n (reverse).
Blocked(n) == {m \in Story : <<n, m>> \in deps}
Blockers(n) == {m \in Story : <<m, n>> \in deps}

Elements(s) == {s[i] : i \in 1..Len(s)}

\* A plan may name any stories, of one session or of several, known or not.
GraphInit ==
    /\ items \in SUBSET Story
    /\ session \in [Story -> Session]
    /\ deps \in SUBSET (Story \X Story)
    /\ pc = "build"
    /\ color = [n \in Story |-> "white"]
    /\ stack = <<>>
    /\ todo = [n \in Story |-> {}]
    /\ report = <<>>
    /\ inDegree = [n \in Story |-> 0]
    /\ queue = {}
    /\ sorted = <<>>

-----------------------------------------------------------------------------
(* build_dag *)

OneSession == \A n, m \in items : session[n] = session[m]

Known == \A d \in deps : d[1] \in items /\ d[2] \in items

BuildDag ==
    /\ pc = "build"
    /\ pc' = IF OneSession /\ Known THEN "detect" ELSE "invalid"
    /\ UNCHANGED <<input, search, order>>

-----------------------------------------------------------------------------
(* detect_cycle: depth-first search *)

Top == stack[Len(stack)]

\* dfs(n) is called.
Enter(n, rest) ==
    /\ color' = [color EXCEPT ![n] = "gray"]
    /\ stack' = Append(stack, n)
    /\ todo' = [rest EXCEPT ![n] = Blocked(n)]

\* Mutant of Closes: only a way back to the root of the search is a cycle.
ClosesAtRoot(n) == n = stack[1]

Closes(n) == color[n] = "gray"

\* Where n is on the stack below the top: the story whose parent is n is next.
Below(n) == {i \in 1..(Len(stack) - 1) : stack[i] = n}

\* The path of the error: parents are followed from the top of the stack until
\* the parent is n. No ancestor of n is n, so the report of a story that
\* depends on itself begins at the root of the search.
PathTo(n) ==
    LET i == IF Below(n) = {} THEN 0 ELSE CHOOSE j \in Below(n) : TRUE
    IN  Append(SubSeq(stack, i + 1, Len(stack)), n)

\* The outer loop finds a story that no search has reached.
EnterRoot ==
    /\ pc = "detect"
    /\ stack = <<>>
    /\ \E n \in items :
        /\ color[n] = "white"
        /\ Enter(n, todo)
    /\ UNCHANGED <<input, pc, report, order>>

\* The search looks at the next neighbour of the story on top.
Visit ==
    /\ pc = "detect"
    /\ stack # <<>>
    /\ \E n \in todo[Top] :
        LET rest == [todo EXCEPT ![Top] = @ \ {n}]
        IN  \/ /\ Closes(n)
               /\ report' = PathTo(n)
               /\ pc' = "cyclic"
               /\ UNCHANGED <<color, stack, todo>>
            \/ /\ color[n] = "white"
               /\ Enter(n, rest)
               /\ UNCHANGED <<pc, report>>
            \/ /\ ~ Closes(n) /\ color[n] # "white"
               /\ todo' = rest
               /\ UNCHANGED <<pc, color, stack, report>>
    /\ UNCHANGED <<input, order>>

Returned(n) == [color EXCEPT ![n] = "black"]

Return ==
    /\ pc = "detect"
    /\ stack # <<>>
    /\ todo[Top] = {}
    /\ color' = Returned(Top)
    /\ stack' = SubSeq(stack, 1, Len(stack) - 1)
    /\ UNCHANGED <<input, pc, todo, report, order>>

-----------------------------------------------------------------------------
(* topological_sort of a graph that build_dag has accepted *)

InDegree(n) == Cardinality(Blockers(n))

Accept ==
    /\ pc = "detect"
    /\ stack = <<>>
    /\ \A n \in items : color[n] # "white"
    /\ pc' = "sort"
    /\ inDegree' = [n \in Story |-> InDegree(n)]
    /\ queue' = {n \in items : Blockers(n) = {}}
    /\ UNCHANGED <<input, search, sorted>>

\* Mutant of Freed: a story is queued as soon as one of its blockers is sorted.
FreedByOne(n) == Blocked(n) \ (queue \cup Elements(sorted))

\* Stories whose last blocker is n.
Freed(n) == {m \in Blocked(n) : inDegree[m] = 1}

SortNext ==
    /\ pc = "sort"
    /\ \E n \in queue :
        /\ sorted' = Append(sorted, n)
        /\ inDegree' = [m \in Story |-> IF m \in Blocked(n) THEN inDegree[m] - 1
                                                            ELSE inDegree[m]]
        /\ queue' = (queue \ {n}) \cup Freed(n)
    /\ UNCHANGED <<input, pc, search>>

SortEnd ==
    /\ pc = "sort"
    /\ queue = {}
    /\ pc' = IF Len(sorted) = Cardinality(items) THEN "sorted" ELSE "incomplete"
    /\ UNCHANGED <<input, search, order>>

GraphNext ==
    \/ BuildDag
    \/ EnterRoot \/ Visit \/ Return
    \/ Accept \/ SortNext \/ SortEnd

GraphSpec == GraphInit /\ [][GraphNext]_graphVars

-----------------------------------------------------------------------------
(* find_ready_stories and find_blocked_stories, for stories in status *)

\* Mutant of Resolved: a cancelled story keeps blocking.
ResolvedIfDone(status, n) == status[n] = "done"

Resolved(status, n) == status[n] \in {"done", "cancelled"}

FindReady(status) == {n \in items : \A m \in Blockers(n) : Resolved(status, m)}

FindBlocked(status) == {n \in items : \E m \in Blockers(n) : ~ Resolved(status, m)}

-----------------------------------------------------------------------------
(* Properties *)

\* Every set of stories has one that waits for none of the set.
Acyclic ==
    \A S \in SUBSET items :
        S # {} => \E n \in S : \A m \in S : <<m, n>> \notin deps

Accepted == pc \in {"sort", "sorted", "incomplete"}

\* build_dag accepts no plan with a circular dependency (dag.rs 27).
AcceptedIsAcyclic == Accepted => Acyclic

\* It turns down for a cycle only plans that have one.
RejectedIsCyclic == pc = "cyclic" => ~ Acyclic

\* The reported path is a cycle ("Returns the cycle path if found", dag.rs 149),
\* unless a story depends on itself: then the path may begin with stories
\* that only lead to it.
ReportIsCycle ==
    (pc = "cyclic" /\ \A n \in items : <<n, n>> \notin deps) =>
        \A i \in 1..Len(report) :
            <<report[i], report[IF i = Len(report) THEN 1 ELSE i + 1]>> \in deps

\* The order of topological_sort puts every story after its blockers.
SortRespectsDependencies ==
    \A i \in 1..Len(sorted) : Blockers(sorted[i]) \subseteq Elements(SubSeq(sorted, 1, i - 1))

\* A graph that passed detect_cycle is sorted completely: the two algorithms
\* agree on what a cycle is.
SortSucceeds == pc # "incomplete"

\* The two sides of build_dag's promise.
CyclesAreFound == AcceptedIsAcyclic /\ RejectedIsCyclic

\* The two sides of topological_sort's: all stories, and in order.
SortIsTopological == SortSucceeds /\ SortRespectsDependencies

\* In an accepted graph a wave never stalls on its dependencies: as long as a
\* story is open, an open story is ready and not listed as blocked.
WaveNeverStalls ==
    Accepted =>
        \A status \in [Story -> {"pending", "done", "cancelled"}] :
            (\E n \in items : status[n] = "pending") =>
                \E n \in FindReady(status) \ FindBlocked(status) : status[n] = "pending"
=============================================================================

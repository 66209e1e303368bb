------------------------------ MODULE MCPlans ------------------------------
(***************************************************************************)
(* Instances of Planning, DependencyGraph and PlanItems for TLC.  The      *)
(* three share no state: Planning has the waves, PlanItems what one of     *)
(* their plans becomes, row by row, and DependencyGraph how its graph is   *)
(* searched for a cycle.  A behaviour is one of the three, while the other *)
(* modules stay where they begin; one that has ended stays there, and only *)
(* Planning is asked for deadlocks.                                        *)
(***************************************************************************)
EXTENDS DocumentedPlanning, DependencyGraph, PlanItems, TLC

VARIABLE part

PlansInit ==
    /\ Init /\ GraphInit /\ ItemsInit
    /\ \/ part = "graph"
       \/ /\ part \in {"waves", "items"}
          /\ items = {} /\ deps = {}
          /\ session = [n \in Story |-> CHOOSE w \in Session : TRUE]

PlansNext ==
    \/ part = "waves" /\ Next /\ UNCHANGED <<part, graphVars, itemsVars>>
    \/ part = "graph" /\ GraphNext /\ UNCHANGED <<part, vars, itemsVars>>
    \/ part = "items" /\ ItemsNext /\ UNCHANGED <<part, vars, graphVars>>
    \/ part # "waves" /\ UNCHANGED <<part, vars, graphVars, itemsVars>>

PlansSpec == PlansInit /\ [][PlansNext]_<<part, vars, graphVars, itemsVars>>

Symmetry == Permutations(Turn)

S1 == <<"S", 1>>
S2 == <<"S", 2>>

\* Two waves of one project.
TwoWaves == {<<"p", 1>>, <<"p", 2>>}

\* The first wave of two projects.
TwoProjects == {<<"p", 1>>, <<"q", 1>>}

Task(i, n) == [t \in 1..n |-> <<"T", 2 * i + t>>]

\* What the two stories depend on: nothing, one another, itself, the same
\* twice, no story of the plan.
On == {<< <<>>, <<>> >>, << <<>>, <<S1>> >>, << <<S2>>, <<>> >>,
       << <<S2>>, <<S1>> >>, << <<>>, <<S2>> >>, << <<>>, <<S1, S1>> >>,
       << << <<"S", 9>> >>, <<>> >>}

\* Two stories in two epics with their ids out of order, or in one epic
\* without ids.
DistinctPlans ==
    {[epics |-> IF id[1] = <<>> THEN << <<>> >> ELSE << <<>>, <<"E", 2>> >>,
      stories |-> <<[epic |-> 1, id |-> id[1], tasks |-> Task(1, 2), on |-> on[1]],
                    [epic |-> IF id[1] = <<>> THEN 1 ELSE 2, id |-> id[2],
                     tasks |-> Task(2, 1), on |-> on[2]]>>] :
        id \in {<<S2, S1>>, << <<>>, <<>> >>}, on \in On}

\* Claude leaves out the ids of tasks.
UnnamedPlans ==
    {[epics |-> <<<<>>>>,
      stories |-> <<[epic |-> 1, id |-> S1, tasks |-> <<<<>>>>, on |-> <<>>],
                    [epic |-> 1, id |-> S2, tasks |-> <<<<>>>>, on |-> <<>>]>>]}
=============================================================================

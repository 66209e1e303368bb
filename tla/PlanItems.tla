----------------------------- MODULE PlanItems -----------------------------
(***************************************************************************)
(* How a plan becomes rows: build_and_persist_work_items inserts the items *)
(* that Claude lists one by one, then a verify task for every task, then   *)
(* the dependencies, and only then looks for cycles; plan.show and         *)
(* exec.status print every row with an address, and the exec.* commands    *)
(* find a row by the address they are given.                               *)
(*                                                                         *)
(* A wave is <<project, number>>. An id is a sequence of tokens, <<"S", 1>>*)
(* for S1, and <<>> for an id that Claude left out. One stream at a time   *)
(* writes a wave here; Planning is about two of them.                      *)
(***************************************************************************)
EXTENDS Integers, Sequences, FiniteSets

CONSTANTS
    Wave,   \* decomposition sessions, as <<project, number>>
    Plans   \* what Claude may answer

\* A function on 1..n. Stories are in the order of their epics, in which they are
\* nested.
IsList(s) == Len(s) \in Nat /\ s = [k \in 1..Len(s) |-> s[k]]

ASSUME PlansAssumption ==
    /\ Plans # {}
    /\ \A plan \in Plans :
           /\ IsList(plan.epics) /\ \A e \in DOMAIN plan.epics : IsList(plan.epics[e])
           /\ IsList(plan.stories)
           /\ \A i \in DOMAIN plan.stories :
                  LET story == plan.stories[i]
                  IN  /\ story.epic \in DOMAIN plan.epics
                      /\ IsList(story.id) /\ IsList(story.tasks)
                      /\ \A t \in DOMAIN story.tasks : IsList(story.tasks[t])
                      /\ \A j \in 1..i : plan.stories[j].epic <= story.epic

VARIABLES
    rows,   \* the rows of work_items
    links,  \* the rows of dependencies, <<blocker, blocked>>
    writer  \* what the stream of each wave is about

itemsVars == <<rows, links, writer>>

Kind == {"epic", "story", "impl", "verify"}

\* A row is known by its UUID: here its wave, kind and place in the plan.
Uuid(r) == <<r.wave, r.kind, r.path>>

Written == {"stored", "failed"}

ItemsTypeOK ==
    /\ \A r \in rows :
           /\ r.wave \in Wave /\ r.kind \in Kind /\ r.sort \in Nat
           /\ Len(r.path) = CASE r.kind = "epic" -> 1
                              [] r.kind = "story" -> 2
                              [] OTHER -> 3
           /\ Len(r.id) > 1
    /\ \A r, q \in rows : Uuid(r) = Uuid(q) => r = q
    /\ \A d \in links : \A e \in {d[1], d[2]} : \E r \in rows : Uuid(r) = e
    /\ \A w \in Wave :
           /\ writer[w].pc \in {"none", "writing"} \cup Written
           /\ writer[w].plan \in Plans
           /\ writer[w].at \in Nat

-----------------------------------------------------------------------------
(* A plan is [epics, stories]: the ids of its epics, and for each story in *)
(* turn the number of its epic, its id, the ids of its tasks and those of  *)
(* the stories it depends on.                                              *)

OrDefault(id, letter, n) == IF id = <<>> THEN <<letter, n>> ELSE id

StoryId(plan, i) == OrDefault(plan.stories[i].id, "S", i)

Stories(plan) == DOMAIN plan.stories

\* Stories keep the prefix of their wave in the row, epics and tasks do not.
WithPrefix(w, id) == <<"W", w[2], "-">> \o id

Row(w, kind, path, id, sort) ==
    [wave |-> w, kind |-> kind, path |-> path, id |-> id, sort |-> sort]

EpicRow(w, plan, e) ==
    Row(w, "epic", <<e>>, OrDefault(plan.epics[e], "E", e), e - 1)

StoryRow(w, plan, i) ==
    Row(w, "story", <<plan.stories[i].epic, i>>,
        WithPrefix(w, StoryId(plan, i)), i - 1)

\* The sort orders of tasks are even.
TaskSort(t) == 2 * (t - 1)

TaskRow(w, plan, i, t) ==
    Row(w, "impl", <<plan.stories[i].epic, i, t>>,
        OrDefault(plan.stories[i].tasks[t], "T", t), TaskSort(t))

\* auto_generate_verify_tasks
VerifyRow(r) ==
    [r EXCEPT !.kind = "verify", !.id = Append(@, "v"), !.sort = @ + 1]

TaskRows(w, plan) ==
    UNION {{TaskRow(w, plan, i, t) : t \in DOMAIN plan.stories[i].tasks} :
              i \in Stories(plan)}

Rows(w, plan) ==
    {EpicRow(w, plan, e) : e \in DOMAIN plan.epics} \cup
    {StoryRow(w, plan, i) : i \in Stories(plan)} \cup
    TaskRows(w, plan) \cup {VerifyRow(r) : r \in TaskRows(w, plan)}

\* An item comes after those it is part of and those listed before.
Precedes(a, b) ==
    \E k \in DOMAIN b :
        /\ k <= Len(a) + 1 /\ \A m \in 1..(k - 1) : a[m] = b[m]
        /\ k \in DOMAIN a => a[k] < b[k]

\* The order of insertion: the verify tasks come last.
Before(q, r) ==
    IF q.kind = "verify" <=> r.kind = "verify" THEN Precedes(q.path, r.path)
    ELSE r.kind = "verify"

Concat(s) ==
    LET f[n \in 0..Len(s)] == IF n = 0 THEN <<>> ELSE f[n - 1] \o s[n]
    IN  f[Len(s)]

\* The dependencies in the order of their insertion, as <<id, id>>.
Links(plan) ==
    Concat([i \in Stories(plan) |->
               [k \in DOMAIN plan.stories[i].on |->
                   <<plan.stories[i].on[k], StoryId(plan, i)>>]])

\* short_id_to_uuid: the last story with this id.
WithId(w, plan, id) ==
    LET same == {i \in Stories(plan) : StoryId(plan, i) = id}
    IN  {StoryRow(w, plan, i) : i \in {j \in same : \A k \in same : k <= j}}

\* build_dag finds a cycle (DependencyGraph is about how it does).
HasCycle(D) ==
    \E C \in SUBSET ({d[1] : d \in D}) \ {{}} :
        \A u \in C : \E v \in C : <<v, u>> \in D

-----------------------------------------------------------------------------
NoStream == [pc |-> "none", plan |-> CHOOSE p \in Plans : TRUE, at |-> 0]

ItemsInit ==
    /\ rows = {}
    /\ links = {}
    /\ writer = [w \in Wave |-> NoStream]

\* Claude has answered: the stream begins to write.
Decompose(w, plan) ==
    /\ writer[w].pc = "none"
    /\ writer' = [writer EXCEPT ![w] =
                     [pc |-> "writing", plan |-> plan, at |-> 1]]
    /\ UNCHANGED <<rows, links>>

Advance(w, pc) == writer' = [writer EXCEPT ![w].at = @ + 1, ![w].pc = pc]

RowsOf(w) == Rows(w, writer[w].plan)

InsertItem(w) ==
    /\ writer[w].pc = "writing"
    /\ \E r \in RowsOf(w) \ rows :
           /\ \A q \in RowsOf(w) : Before(q, r) => q \in rows
           /\ rows' = rows \cup {r}
    /\ UNCHANGED <<links, writer>>

\* A dependency on no story of the plan, and one that is there already, end
\* the stream; what it has written stays.
InsertDependency(w) ==
    LET plan == writer[w].plan
        k == writer[w].at
    IN  /\ writer[w].pc = "writing" /\ RowsOf(w) \subseteq rows
        /\ k \in DOMAIN Links(plan)
        /\ LET new == {<<Uuid(r), Uuid(q)>> : r \in WithId(w, plan, Links(plan)[k][1]),
                                              q \in WithId(w, plan, Links(plan)[k][2])}
           IN  IF new # {} /\ new \cap links = {}
               THEN links' = links \cup new /\ Advance(w, "writing")
               ELSE Advance(w, "failed") /\ UNCHANGED links
        /\ UNCHANGED rows

DepsOf(w) == {d \in links : d[1][1] = w}

Validate(w) ==
    /\ writer[w].pc = "writing" /\ RowsOf(w) \subseteq rows
    /\ writer[w].at > Len(Links(writer[w].plan))
    /\ Advance(w, IF HasCycle(DepsOf(w)) THEN "failed" ELSE "stored")
    /\ UNCHANGED <<rows, links>>

\* delete_work_items_by_session.
Kept(w) == {r \in rows : r.wave # w}

\* plan.feedback; dependencies go with their stories.
Feedback(w) ==
    /\ writer[w].pc \in Written
    /\ rows' = Kept(w)
    /\ links' = {d \in links : d[1][1] # w /\ d[2][1] # w}
    /\ writer' = [writer EXCEPT ![w] = NoStream]

\* The daemon dies: what was being written stays as it is.
Crash ==
    /\ \E w \in Wave : writer[w].pc = "writing"
    /\ writer' = [w \in Wave |-> IF writer[w].pc = "writing"
                                 THEN [writer[w] EXCEPT !.pc = "failed"]
                                 ELSE writer[w]]
    /\ UNCHANGED <<rows, links>>

ItemsNext ==
    \/ \E w \in Wave :
           \/ \E plan \in Plans : Decompose(w, plan)
           \/ InsertItem(w) \/ InsertDependency(w) \/ Validate(w)
           \/ Feedback(w)
    \/ Crash

ItemsSpec == ItemsInit /\ [][ItemsNext]_itemsVars

-----------------------------------------------------------------------------
(* Reading: plan.show and exec.status, and find_work_item_by_wave_short_id *)

\* The address under which a row is printed.
Shown(r) == WithPrefix(r.wave, r.id)

ChildrenOf(r) ==
    {q \in rows : /\ q.wave = r.wave
                   /\ Len(q.path) = Len(r.path) + 1
                   /\ SubSeq(q.path, 1, Len(r.path)) = r.path}

\* The tree: epics, under each its stories, under each its tasks.
Tree(w) ==
    LET epics == {r \in rows : r.wave = w /\ r.kind = "epic"}
        stories == UNION {ChildrenOf(r) : r \in epics}
    IN  epics \cup stories \cup UNION {ChildrenOf(r) : r \in stories}

\* parse_wave_prefix: the first dash ends the number of the wave.
Prefixed(address) == Len(address) > 3 /\ address[1] = "W" /\ address[3] = "-"

\* Mutant of Found: the number of the wave is parsed and forgotten.
FoundAnywhere(address) ==
    {r \in rows : /\ Prefixed(address)
                   /\ r.id = SubSeq(address, 4, Len(address))}

\* The row the query may answer with: of any project.
Found(address) ==
    {r \in rows : /\ Prefixed(address)
                   /\ r.id = SubSeq(address, 4, Len(address))
                   /\ r.wave[2] = address[2]}

-----------------------------------------------------------------------------
(* Properties *)

\* No two items of a plan have one id, the ids made up for it included, and no two
\* waves one number.
IdsDiffer ==
    /\ \A w \in Wave, plan \in Plans :
           \A r, q \in Rows(w, plan) : r.id = q.id => r = q
    /\ \A v, w \in Wave : v[2] = w[2] => v = w

\* Where the ids of a plan differ, the address under which a row is printed
\* finds that row and no other, at every moment of every stream, whatever
\* failed or died before.
AddressesResolve == \A r \in rows : Found(Shown(r)) = {r}

\* A plan that counts as stored has the dependencies Claude wrote down, and
\* they leave every set of stories one to begin with.
DependenciesAsPlanned ==
    \A w \in Wave : writer[w].pc = "stored" =>
        LET plan == writer[w].plan
            U(i) == Uuid(StoryRow(w, plan, i))
        IN  /\ \A i, j \in Stories(plan) :
                   <<U(i), U(j)>> \in links <=>
                   \E k \in DOMAIN plan.stories[j].on :
                       plan.stories[j].on[k] = StoryId(plan, i)
            /\ \A C \in SUBSET Stories(plan) \ {{}} :
                   \E j \in C : \A i \in C : <<U(i), U(j)>> \notin links

\* data-model.md:306 and cli.md:18-32: a story is known as W1-S1. The row holds
\* W1-S1 itself, so that this address asks for S1 and finds nothing.
StoriesAnswer ==
    \A w \in Wave, i \in {1, 2} :
        LET r == StoryRow(w, writer[w].plan, i)
        IN  r \in rows => Found(r.id) = {r}

TasksOf(r) == {q \in ChildrenOf(r) : q.kind \in {"impl", "verify"}}

\* The tasks of a stored story have a total order by sort_order in which each
\* task is followed by the task that verifies it (WorkItems takes the tasks of
\* a story to be such a sequence).
TasksAlternate ==
    \A r \in {q \in rows : q.kind = "story" /\ writer[q.wave].pc = "stored"} :
        \A q \in TasksOf(r) :
            LET next == {p \in TasksOf(r) : p.sort = q.sort + 1}
            IN  /\ q.kind = "impl" => next = {VerifyRow(q)}
                /\ \A p \in next : p.kind # q.kind
                /\ q.sort = Cardinality({p \in TasksOf(r) : p.sort < q.sort})

\* The tree shows every row there is, also while a plan is being written, when
\* its stream failed and after feedback: no item is out of the user's sight.
NothingIsHidden == \A r \in rows : r \in Tree(r.wave)

\* The two together: what the user sees of a plan is all of it, and each item can
\* be named in a command.
EveryItemIsReached == NothingIsHidden /\ AddressesResolve

\* What is there of a wave is the beginning of its plan.
ItemsInv ==
    /\ writer \in [Wave -> [pc : {"none", "writing"} \cup Written, plan : Plans, at : Nat]]
    /\ \A r \in rows :
           /\ r.wave \in Wave /\ writer[r.wave].pc # "none" /\ r \in RowsOf(r.wave)
           /\ \A q \in RowsOf(r.wave) : Before(q, r) => q \in rows
=============================================================================

---------------------------- MODULE ExecuteView ----------------------------
(***************************************************************************)
(* The keyboard of nflow-tui: which sub-view a key reaches, the tree of    *)
(* the execute view with its selection, its filter and its collapsed       *)
(* nodes, and the popup that asks before a story is stopped. Events from   *)
(* the daemon fetch the tree anew between any two keys and select a task   *)
(* that runs. The tree of the plan view works the same way.                *)
(*                                                                         *)
(* A list of nodes is a set of them, in the order of the tree; selected    *)
(* counts those that are visible, from 1; what a filter matches is given   *)
(* by Titles. A sub-view is open if its field in App is set; "logs" is     *)
(* logs_view.task_id.                                                      *)
(***************************************************************************)
EXTENDS Integers, Sequences, FiniteSets

CONSTANTS
    Project,    \* names of projects
    Shape,      \* the nodes of a project's tree, as <<depth, kind>>
    Query,      \* filters other than the empty one
    Titles      \* for each query, the nodes whose title contains it

ASSUME ShapeAssumption ==
    /\ Shape \in Seq((0..3) \X {"", "impl", "verify"})
    /\ \A i \in DOMAIN Shape :
           /\ i = 1 => Shape[i][1] = 0
           /\ i > 1 => Shape[i][1] <= Shape[i - 1][1] + 1
    /\ "" \notin Query
    /\ Titles \in [Query -> SUBSET DOMAIN Shape]

VARIABLES
    project,    \* App.project
    view,       \* App.current_view
    open,       \* the sub-views that are open
    confirm,    \* ConfirmAction: what the popup is about
    filter,     \* FilterState
    tree,       \* the answer from which nodes were made, and whose it is
    collapsed,  \* nodes with their children hidden
    selected,   \* index into the visible nodes
    hideVerify, \* hide_verify
    request     \* what the last key asked the daemon to do

treeVars == <<tree, collapsed, selected, hideVerify>>
uiVars == <<project, view, open, confirm, filter>>
vars == <<uiVars, treeVars, request>>

Node == DOMAIN Shape
Depth(i) == Shape[i][1]
IsStory(i) == Depth(i) = 2
Story == {i \in Node : IsStory(i)}

NoAction == [op |-> "none", story |-> 0]
Action == [op : {"none", "stop", "cancel", "escalate"}, story : Story \cup {0}]

\* An answer to exec.status, as the daemon may give it at any time: no waves, or
\* the stories in progress, whose first task is in progress too.
Answer == {a \in [waves : BOOLEAN, running : SUBSET Story] :
              a.waves \/ a.running = {}}

NoRequest == [action |-> NoAction, project |-> CHOOSE p \in Project : TRUE]

NoTree == [project |-> CHOOSE p \in Project : TRUE, waves |-> FALSE, running |-> {}]

Views == {"specs", "plan", "execute", "logs"}

\* In the order in which handle_key_event asks for them.
Exclusive == <<"filter", "logs", "pager", "dialogue", "name", "plan", "confirm">>

Overlays == {"help", "switcher"}

TypeOK ==
    /\ project \in Project
    /\ view \in Views
    /\ open \subseteq ({Exclusive[i] : i \in DOMAIN Exclusive} \cup Overlays)
    /\ confirm \in Action
    /\ filter \in [query : Query \cup {""}, applied : Query \cup {""}]
    /\ tree \in [project : Project, waves : BOOLEAN, running : SUBSET Story]
    /\ collapsed \subseteq Node
    /\ selected \in 1..Len(Shape)
    /\ hideVerify \in BOOLEAN
    /\ request \in [action : Action, project : Project]

-----------------------------------------------------------------------------
(* visible_nodes_filtered *)

Nodes == IF tree.waves THEN Node ELSE {}

HasChildren(i) == i + 1 \in Node /\ Depth(i + 1) > Depth(i)

\* Mutant of Marks: every node of a lesser depth above a match is marked.
MarksAbove(i) == {j \in 1..i : j = i \/ Depth(j) < Depth(i)}

\* The walk back from a match: i, and each node above it whose depth is less
\* than any met so far.
Marks(i) == {j \in 1..i : \A k \in (j + 1)..i : Depth(j) < Depth(k)}

Matching(q) == IF q = "" THEN Node ELSE UNION {Marks(i) : i \in Titles[q]}

Hidden(i) == hideVerify /\ Shape[i][2] = "verify"

\* skip_depth: i is deeper than a collapsed node and everything in between is.
Skipped(i, q) ==
    \E j \in collapsed \cap Matching(q) :
        /\ j < i /\ HasChildren(j)
        /\ \A k \in (j + 1)..i : Depth(k) > Depth(j)

\* The second pass.
Visible(q) == {i \in Nodes \cap Matching(q) : ~Skipped(i, q) /\ ~Hidden(i)}

\* The filter being typed, or else the one applied.
Effective == IF "filter" \in open THEN filter.query ELSE filter.applied

Place(i, list) == Cardinality({j \in list : j <= i})

At(list) == {i \in list : Place(i, list) = selected}

\* What selected_task_id and selected_story_id look at: no filter there.
SelectedTask == {i \in At(Visible("")) : Depth(i) = 3}

\* The selected story, or the story of the selected task.
SelectedStory ==
    {i \in At(Visible("")) : IsStory(i)} \cup
    {j \in Story : \E i \in SelectedTask :
                       j < i /\ \A k \in (j + 1)..i : ~IsStory(k)}

\* render_execute_tree
HighlightedNode == At(Visible(Effective))

\* render_logs_task_list: the selection counts among the tasks.
LogsHighlighted == At({i \in Visible(Effective) : Depth(i) = 3})

\* auto_select_running_task
RunningAt(list) ==
    {Place(i, list) : i \in {j \in list : Depth(j) = 3 /\ j - 1 \in tree.running}}

Clamped(n, list) ==
    IF list # {} /\ n > Cardinality(list) THEN Cardinality(list) ELSE n

-----------------------------------------------------------------------------
Init ==
    /\ project \in Project
    /\ view = "specs"
    /\ open = {}
    /\ confirm = NoAction
    /\ filter = [query |-> "", applied |-> ""]
    /\ tree = [NoTree EXCEPT !.project = project]
    /\ collapsed = {}
    /\ selected = 1
    /\ hideVerify = FALSE
    /\ request = NoRequest

\* update_from_response and auto_select_running_task, with the answer to p,
\* where the selection was at n.
Update(p, n) ==
    /\ \E a \in Answer :
           tree' = [project |-> p, waves |-> a.waves, running |-> a.running]
    /\ collapsed' = {}
    /\ LET running == RunningAt(Visible(""))'
       IN  selected' = IF running # {}
                       THEN CHOOSE m \in running : \A k \in running : m <= k
                       ELSE Clamped(n, Visible("")')

\* fetch_execute; it may fail.
Fetch == hideVerify' = hideVerify /\ (Update(project, selected) \/ UNCHANGED treeVars)

\* A status_change or story_completed event.
DaemonEvent ==
    /\ Fetch
    /\ request' = NoRequest
    /\ UNCHANGED uiVars

-----------------------------------------------------------------------------
(* handle_key_event *)

\* in_logs_view asks for the view as well.
IsOpen(s) == s \in open /\ (s = "logs" => view = "logs")

\* A key reaches the first exclusive sub-view that is open.
Reaches(s) ==
    \E n \in DOMAIN Exclusive :
        /\ Exclusive[n] = s
        /\ IsOpen(s)
        /\ \A m \in 1..(n - 1) : ~IsOpen(Exclusive[m])

NoneOpen == \A n \in DOMAIN Exclusive : ~IsOpen(Exclusive[n])

HasOverlay == open \cap Overlays # {}

AtView(v) == NoneOpen /\ ~HasOverlay /\ view = v

\* Typing, Enter and Esc in the filter bar.
FilterKey ==
    /\ Reaches("filter")
    /\ \/ \E q \in Query \cup {""} : filter' = [filter EXCEPT !.query = q]
          /\ open' = open
       \/ /\ filter' = [filter EXCEPT !.applied = filter.query]
          /\ open' = open \ {"filter"}
       \/ /\ filter' = [query |-> "", applied |-> ""]
          /\ open' = open \ {"filter"}
    /\ UNCHANGED <<project, view, confirm, treeVars>>

\* Esc in a task's log goes to the execute view.
LogsKey ==
    /\ Reaches("logs")
    /\ open' = open \ {"logs"}
    /\ view' = "execute"
    /\ UNCHANGED <<project, confirm, filter, treeVars>>

\* Sub-views of the specs and plan views close; a name opens a dialogue.
SubViewKey ==
    /\ \E s \in {"pager", "dialogue", "name", "plan"} :
           /\ Reaches(s)
           /\ \/ open' = open \ {s}
              \/ s = "name" /\ open' = (open \ {s}) \cup {"dialogue"}
    /\ UNCHANGED <<project, view, confirm, filter, treeVars>>

\* Mutant of Confirmed: the story is looked up when the key comes.
ConfirmedSelection ==
    [confirm EXCEPT !.story = IF SelectedStory = {} THEN 0
                              ELSE CHOOSE s \in SelectedStory : TRUE]

\* The popup keeps the story it asks about.
Confirmed == confirm

\* y sends the command and fetches the tree if it succeeded, n does nothing.
ConfirmKey ==
    /\ Reaches("confirm")
    /\ open' = open \ {"confirm"}
    /\ confirm' = NoAction
    /\ \/ /\ request' = [action |-> Confirmed, project |-> project]
          /\ Fetch
       \/ request' = NoRequest /\ UNCHANGED treeVars
    /\ UNCHANGED <<project, view, filter>>

\* Esc closes an overlay or clears the filter, any key closes the help.
EscapeKey ==
    /\ NoneOpen
    /\ IF HasOverlay THEN open' = open \ Overlays /\ UNCHANGED filter
       ELSE /\ filter.applied # ""
            /\ filter' = [query |-> "", applied |-> ""]
            /\ UNCHANGED open
    /\ UNCHANGED <<project, view, confirm, treeVars>>

EmptyTree(p) == [NoTree EXCEPT !.project = p]

\* Enter in the project switcher. connect, fetch_plan and fetch_execute follow;
\* the last may fail.
SwitchProject ==
    /\ NoneOpen /\ "switcher" \in open
    /\ \E p \in Project :
           /\ project' = p
           /\ hideVerify' = FALSE
           /\ \/ Update(p, 1)
              \/ /\ tree' = EmptyTree(p)
                 /\ collapsed' = {} /\ selected' = 1
    /\ open' = {}
    /\ confirm' = NoAction
    /\ UNCHANGED <<view, filter>>

\* ?, p, / and the keys that change the view.
GlobalKey ==
    /\ NoneOpen /\ ~HasOverlay
    /\ \/ /\ \E o \in Overlays : open' = open \cup {o}
          /\ UNCHANGED <<view, filter>>
       \/ /\ open' = open \cup {"filter"}
          /\ filter' = [filter EXCEPT !.query = filter.applied]
          /\ UNCHANGED view
       \/ view' \in Views \ {view} /\ UNCHANGED <<open, filter>>
    /\ UNCHANGED <<project, confirm, treeVars>>

\* Keys of the specs and plan views that open a sub-view.
OpenKey ==
    /\ \/ AtView("specs") /\ \E s \in {"pager", "dialogue", "name"} : open' = open \cup {s}
       \/ AtView("plan") /\ open' = open \cup {"plan"}
       \/ AtView("logs") /\ SelectedTask # {} /\ open' = open \cup {"logs"}
    /\ UNCHANGED <<project, view, confirm, filter, treeVars>>

-----------------------------------------------------------------------------
(* handle_execute_key and handle_logs_key *)

\* select_prev_filtered and select_next_filtered
MoveKey ==
    /\ view \in {"execute", "logs"} /\ AtView(view)
    /\ LET list == Visible(IF view = "execute" THEN filter.applied ELSE "")
       IN  /\ list # {}
           /\ \/ selected > 1 /\ selected' = selected - 1
              \/ selected < Cardinality(list) /\ selected' = selected + 1
    /\ UNCHANGED <<uiVars, tree, collapsed, hideVerify>>

\* toggle_collapse_filtered
CollapseKey ==
    /\ AtView("execute")
    /\ \E i \in At(Visible(filter.applied)) :
           /\ HasChildren(i)
           /\ collapsed' = IF i \in collapsed THEN collapsed \ {i}
                           ELSE collapsed \cup {i}
    /\ UNCHANGED <<uiVars, tree, selected, hideVerify>>

\* toggle_verify_visibility
VerifyKey ==
    /\ AtView("execute")
    /\ hideVerify' = ~hideVerify
    /\ UNCHANGED <<uiVars, tree, collapsed>>
    /\ selected' = Clamped(selected, Visible("")')

\* s, e and c.
AskKey ==
    /\ AtView("execute")
    /\ \E s \in SelectedStory :
           /\ \E op \in IF s \in tree.running THEN {"stop", "escalate"}
                        ELSE {"cancel"} :
                  confirm' = [op |-> op, story |-> s]
           /\ open' = open \cup {"confirm"}
    /\ UNCHANGED <<project, view, filter, treeVars>>

Key ==
    \/ ConfirmKey
    \/ /\ \/ FilterKey \/ LogsKey \/ SubViewKey \/ EscapeKey \/ SwitchProject
          \/ GlobalKey \/ OpenKey \/ MoveKey \/ CollapseKey \/ VerifyKey \/ AskKey
       /\ request' = NoRequest

Next == DaemonEvent \/ Key

Spec == Init /\ [][Next]_vars

-----------------------------------------------------------------------------
(* Properties *)

\* Without a filter a node is selected whenever there is one: whatever was
\* collapsed, hidden, filtered or fetched since it was selected.
SelectionInRange ==
    Visible("") # {} => selected <= Cardinality(Visible(""))

Parent(i) ==
    CHOOSE j \in 1..(i - 1) : /\ Depth(j) = Depth(i) - 1
                              /\ \A k \in (j + 1)..(i - 1) : Depth(k) >= Depth(i)

Ancestors(i) ==
    LET f[n \in Node] == IF Depth(n) = 0 THEN {} ELSE {Parent(n)} \cup f[Parent(n)]
    IN  f[i]

\* The list is the one a reader of the tree expects: a node is in it if its
\* title or one below it matches, it is not hidden, and no ancestor is
\* collapsed.
VisibleIsExact ==
    \A q \in Query \cup {""} :
        Visible(q) =
        {i \in Nodes :
            /\ q = "" \/ \E t \in Titles[q] : i = t \/ i \in Ancestors(t)
            /\ ~(hideVerify /\ Shape[i][2] = "verify")
            /\ Ancestors(i) \cap collapsed = {}}

\* A command is about the story its popup named, in the project in which it
\* was asked, however often the tree was fetched and the selection moved
\* between the question and the answer.
SendsWhatWasConfirmed ==
    [][request' # NoRequest =>
          /\ "confirm" \in open
          /\ request' = [action |-> confirm, project |-> project]]_vars

\* tui.md: s stops the selected story. With a filter the highlighted node is
\* another than the one selected_story_id looks at.
AsksAboutHighlighted ==
    [][confirm' # confirm /\ confirm' # NoAction =>
          HighlightedNode = At(Visible(""))]_vars

\* tui.md: Enter shows the log of the selected task. The list of tasks counts
\* the selection among tasks, Enter among all nodes.
OpensHighlightedLog ==
    [][("logs" \in open' \ open) => SelectedTask = LogsHighlighted]_vars

\* A key reaches one sub-view: two are never open at a time, and the popup is
\* open just when it has a question.
OneSubView ==
    /\ \A s, t \in {u \in open : IsOpen(u)} : s = t
    /\ "confirm" \in open <=> confirm # NoAction

\* What is shown is of the current project, also where fetching failed.
ShownIsOfProject == tree.project = project
=============================================================================

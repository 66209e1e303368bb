------------------------------- MODULE Panels -------------------------------
(***************************************************************************)
(* The list of specs of nflow-tui and the dialogs of its plan view: what   *)
(* is selected, what is ticked, and what a key makes the interface ask the *)
(* daemon for. Of the sub-views, of which ExecuteView shows that one is    *)
(* open at a time, panel is the one that is; the dialogue's lines are in   *)
(* LiveViews and the pager's in Scrolling.                                 *)
(***************************************************************************)
EXTENDS Integers, Sequences, FiniteSets

CONSTANTS
    Name,       \* names of specs
    Owner,      \* names of projects
    Filters,    \* filters other than the empty one
    Matched     \* for each, the names that contain it

ASSUME PanelsAssumption == Matched \in [Filters -> SUBSET Name]

VARIABLES
    owner,      \* App.project
    list,       \* SpecsListState.items, and whose they are
    pick,       \* SpecsListState.selected, from 0
    typed,      \* the filter applied or being typed
    panel,      \* the view, or the sub-view over it
    form,       \* PlanGenerateState
    asked       \* what the last key made the interface send

panelsVars == <<owner, list, pick, typed, panel, form, asked>>

Item == [name : Name, status : {"draft", "approved"}]

\* The answers to spec.list.
Lists ==
    {l \in UNION {[1..n -> Item] : n \in 0..Cardinality(Name)} :
        \A i, j \in DOMAIN l : l[i].name = l[j].name => i = j}

Approved(l) == {i.name : i \in {l[n] : n \in {m \in DOMAIN l : l[m].status = "approved"}}}

NoForm == [specs |-> <<>>, ticked |-> {}, cursor |-> 0, code |-> FALSE]
NothingAsked == [op |-> "none", specs |-> {}]

OfSpec == {"approve", "delete", "view", "resume"}

PanelsTypeOK ==
    /\ owner \in Owner
    /\ list \in [of : Owner, items : Lists]
    /\ pick \in 0..Cardinality(Name)
    /\ typed \in Filters \cup {""}
    /\ panel \in {"specs", "plan", "pager", "dialogue", "name", "generate", "feedback",
                  "approvePlan", "discardPlan", "detail"}
    /\ form.ticked \subseteq {form.specs[i] : i \in DOMAIN form.specs}
    /\ form.cursor \in 0..Len(form.specs) /\ form.code \in BOOLEAN
    /\ asked \in [op : OfSpec \cup {"none", "new", "generate", "feedback", "approvePlan",
                                    "discardPlan"},
                  specs : SUBSET Name]

PanelsInit ==
    /\ owner \in Owner
    /\ list = [of |-> owner, items |-> <<>>]
    /\ pick = 0 /\ typed = "" /\ panel = "specs"
    /\ form = NoForm /\ asked = NothingAsked

-----------------------------------------------------------------------------
(* SpecsListState *)

\* visible_items_filtered
Listed ==
    SelectSeq(list.items, LAMBDA i : typed = "" \/ i.name \in Matched[typed])

\* render_specs_list: the place counts among what is listed.
Highlighted == IF pick + 1 \in DOMAIN Listed THEN {Listed[pick + 1]} ELSE {}

\* selected_item: the place counts among all of them.
Selected == IF pick + 1 \in DOMAIN list.items THEN {list.items[pick + 1]} ELSE {}

\* update_from_response
PickWithin(n, l) ==
    IF l = <<>> THEN 0 ELSE IF n >= Len(l) THEN Len(l) - 1 ELSE n

\* fetch_specs for p, after l0 and the selection n; it may fail.
FetchSpecs(p, l0, n) ==
    \/ \E l \in Lists : list' = [of |-> p, items |-> l] /\ pick' = PickWithin(n, l)
    \/ list' = l0 /\ pick' = n

Asks(op, specs) == asked' = [op |-> op, specs |-> specs]

\* select_prev_filtered and select_next_filtered
MovePick ==
    /\ panel = "specs"
    /\ \/ Listed # <<>> /\ pick > 0 /\ pick' = pick - 1
       \/ pick < Len(Listed) - 1 /\ pick' = pick + 1
    /\ asked' = NothingAsked
    /\ UNCHANGED <<owner, list, typed, panel, form>>

\* handle_spec_approve_action and handle_spec_delete_action fetch the list if
\* the daemon did it.
ActOnSpec ==
    /\ panel = "specs"
    /\ \E i \in Selected, op \in {"approve", "delete"} : Asks(op, {i.name})
    /\ FetchSpecs(owner, list, pick)
    /\ UNCHANGED <<owner, typed, panel, form>>

\* handle_spec_view and handle_spec_resume; Enter is one or the other.
OpenSpec ==
    /\ panel = "specs"
    /\ \E i \in Selected :
           \/ Asks("view", {i.name}) /\ panel' \in {"pager", "specs"}
           \/ Asks("resume", {i.name}) /\ panel' = "dialogue"
    /\ UNCHANGED <<owner, list, pick, typed, form>>

\* n, and Enter in the popup; the name may be one there is.
NewSpec ==
    /\ \/ panel = "specs" /\ panel' = "name" /\ asked' = NothingAsked
       \/ panel = "name" /\ panel' = "dialogue" /\ \E n \in Name : Asks("new", {n})
    /\ UNCHANGED <<owner, list, pick, typed, form>>

\* Leaving the dialogue fetches the list.
LeaveSpec ==
    /\ \/ panel = "dialogue" /\ FetchSpecs(owner, list, pick)
       \/ panel \in {"pager", "name"} /\ UNCHANGED <<list, pick>>
    /\ panel' = "specs"
    /\ asked' = NothingAsked
    /\ UNCHANGED <<owner, typed, form>>

\* 1 and 2, and the filter bar.
ToView ==
    /\ panel \in {"specs", "plan"}
    /\ \/ panel' \in {"specs", "plan"} \ {panel} /\ UNCHANGED typed
       \/ typed' \in (Filters \cup {""}) \ {typed} /\ UNCHANGED panel
    /\ asked' = NothingAsked
    /\ UNCHANGED <<owner, list, pick, form>>

\* SpecsListState::new
Emptied(p) == [of |-> p, items |-> <<>>]

\* switch_project; the filter stays. connect fails before it fetches the specs
\* if it has no answer to exec.status.
ToProject ==
    /\ panel \in {"specs", "plan"}
    /\ \E p \in Owner : owner' = p /\ FetchSpecs(p, Emptied(p), 0)
    /\ asked' = NothingAsked
    /\ UNCHANGED <<typed, panel, form>>

-----------------------------------------------------------------------------
(* handle_plan_key and handle_plan_sub_view_key *)

\* Mutant of NewForm: the dialog is as it was left.
SameForm(specs) == IF form.specs = <<>> THEN [NoForm EXCEPT !.specs = specs] ELSE form

\* PlanGenerateState::new
NewForm(specs) == [NoForm EXCEPT !.specs = specs]

\* open_generate_dialog: the specs that are approved in the list.
OpenGenerate ==
    /\ panel = "plan"
    /\ panel' = "generate"
    /\ LET approved == {n \in DOMAIN list.items : list.items[n].status = "approved"}
       IN  \E at \in [1..Cardinality(approved) -> approved] :
               /\ \A i, j \in DOMAIN at : i < j => at[i] < at[j]
               /\ form' = NewForm([i \in DOMAIN at |-> list.items[at[i]].name])
    /\ asked' = NothingAsked
    /\ UNCHANGED <<owner, list, pick, typed>>

\* The keys of the dialog that change it.
FillGenerate ==
    /\ panel = "generate"
    /\ \/ form.cursor > 0 /\ form' = [form EXCEPT !.cursor = @ - 1]
       \/ form.cursor < Len(form.specs) - 1 /\ form' = [form EXCEPT !.cursor = @ + 1]
       \/ /\ form.cursor + 1 \in DOMAIN form.specs
          /\ LET s == form.specs[form.cursor + 1]
             IN  form' = [form EXCEPT !.ticked = IF s \in @ THEN @ \ {s} ELSE @ \cup {s}]
       \/ form' = [form EXCEPT !.code = ~@]
    /\ asked' = NothingAsked
    /\ UNCHANGED <<owner, list, pick, typed, panel>>

\* Enter: handle_plan_generate, or a message that nothing is ticked.
Generate ==
    /\ panel = "generate"
    /\ panel' = "plan"
    /\ IF form.ticked = {} THEN asked' = NothingAsked ELSE Asks("generate", form.ticked)
    /\ UNCHANGED <<owner, list, pick, typed, form>>

\* f, a, d and Enter in the tree.
OpenDialog ==
    /\ panel = "plan"
    /\ panel' \in {"feedback", "approvePlan", "discardPlan", "detail"}
    /\ asked' = NothingAsked
    /\ UNCHANGED <<owner, list, pick, typed, form>>

\* Enter after some text, or y. A key in the detail closes it.
ConfirmDialog ==
    /\ panel \in {"feedback", "approvePlan", "discardPlan", "detail"}
    /\ panel' = "plan"
    /\ IF panel = "detail" THEN asked' = NothingAsked ELSE Asks(panel, {})
    /\ UNCHANGED <<owner, list, pick, typed, form>>

\* Esc, n, or Enter without text.
CloseDialog ==
    /\ panel \in {"generate", "feedback", "approvePlan", "discardPlan", "detail"}
    /\ panel' = "plan"
    /\ asked' = NothingAsked
    /\ UNCHANGED <<owner, list, pick, typed, form>>

PanelsNext ==
    \/ MovePick \/ ActOnSpec \/ OpenSpec \/ NewSpec \/ LeaveSpec \/ ToView \/ ToProject
    \/ OpenGenerate \/ FillGenerate \/ Generate
    \/ OpenDialog \/ ConfirmDialog \/ CloseDialog

PanelsSpec == PanelsInit /\ [][PanelsNext]_panelsVars

-----------------------------------------------------------------------------
(* Properties *)

\* While no filter hides specs, one is highlighted whenever there are any,
\* whatever was deleted, listed anew or filtered since it was selected.
SomethingHighlighted == typed = "" /\ list.items # <<>> => Highlighted # {}

\* A plan is generated from specs that were ticked in this dialog and that the
\* list of the current project has as approved, also after dialogs that were
\* closed and projects that were left.
GeneratesApproved ==
    [][asked'.op = "generate" =>
          /\ asked'.specs # {}
          /\ asked'.specs \subseteq Approved(list.items)
          /\ list.of = owner]_panelsVars

\* A key of the specs view is about a spec of the current project, also where
\* the list of a project could not be fetched.
SpecIsOfProject ==
    [][asked'.op \in OfSpec =>
          /\ list.of = owner
          /\ \E i \in DOMAIN list.items : asked'.specs = {list.items[i].name}]_panelsVars

\* tui.md: d deletes the selected spec. With a filter another one than the one
\* that is highlighted.
ActsOnHighlighted ==
    [][asked'.op \in OfSpec => asked'.specs = {i.name : i \in Highlighted}]_panelsVars

\* tui.md: d prompts for confirmation if the spec is approved.
ApprovedAreKept ==
    [][asked'.op = "delete" => asked'.specs \cap Approved(list.items) = {}]_panelsVars
=============================================================================

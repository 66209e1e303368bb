------------------------------ MODULE MCScreen ------------------------------
(***************************************************************************)
(* Instances of the four modules about nflow-tui for TLC: ExecuteView with *)
(* the keys and the trees, Panels with the specs and the plan's dialogs,   *)
(* Scrolling, and LiveViews with what is written while one looks.  They    *)
(* share the views that are open and nothing else.  A behaviour is one of  *)
(* them, while the others stay where they begin.                           *)
(***************************************************************************)
EXTENDS ExecuteView, Panels, Scrolling, LiveViews

VARIABLE part

screenVars == <<part, vars, panelsVars, scrollVars, liveVars>>

ScreenInit ==
    /\ Init /\ PanelsInit /\ ScrollInit /\ LiveInit
    /\ part \in {"keys", "panels", "scrolling", "lines"}
    /\ part = "keys" \/ project = CHOOSE p \in Project : TRUE
    /\ part = "panels" \/ owner = CHOOSE p \in Owner : TRUE
    /\ part = "scrolling" \/ height = CHOOSE h \in Heights : TRUE
    /\ part = "lines" \/ listening = FALSE

ScreenNext ==
    /\ UNCHANGED part
    /\ \/ part = "keys" /\ Next /\ UNCHANGED <<panelsVars, scrollVars, liveVars>>
       \/ part = "panels" /\ PanelsNext /\ UNCHANGED <<vars, scrollVars, liveVars>>
       \/ part = "scrolling" /\ ScrollNext /\ UNCHANGED <<vars, panelsVars, liveVars>>
       \/ part = "lines" /\ LiveNext /\ UNCHANGED <<vars, panelsVars, scrollVars>>

\* Only the lines have a schedule that anything depends on.
ScreenSpec ==
    /\ ScreenInit /\ [][ScreenNext]_screenVars
    /\ WF_liveVars(part = "lines" /\ Serve)
    /\ WF_liveVars(part = "lines" /\ Answered)
    /\ SF_liveVars(part = "lines" /\ PollAny)

\* A wave with an epic and two stories.
SmallTree == << <<0, "">>, <<1, "">>, <<2, "">>, <<3, "impl">>, <<3, "verify">>,
                <<2, "">>, <<3, "impl">> >>

\* A query matches the verify task, another the last task.
SmallTitles == [q \in Query |-> IF q = "verify" THEN {5} ELSE {7}]

\* A filter leaves one of the specs.
OneName == [f \in Filters |-> {CHOOSE n \in Name : TRUE}]
=============================================================================

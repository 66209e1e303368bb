------------------------------ MODULE LiveViews ------------------------------
(***************************************************************************)
(* The three places of nflow-tui that show lines as the daemon writes them *)
(* - the dialogue about a spec, the output of a task beside the execute    *)
(* tree and the log of a task - over its single connection. A turn of a    *)
(* dialogue and the log of a running task are streams; everything else is  *)
(* a command with an answer of one line. Nothing that reads a stream asks  *)
(* whose lines it gets: request_id is kept and never looked at.            *)
(*                                                                         *)
(* Connection says how lines travel; here they say what they are about.    *)
(* What is typed, and the lines themselves, are left out.                  *)
(***************************************************************************)
EXTENDS Integers, Sequences

CONSTANTS
    SpecName,       \* names of specs; an id is the name of its spec
    Task,           \* tasks with a log
    None,           \* no spec and no task
    MaxKeys,        \* keys that ask the daemon for something (bound)
    MaxText,        \* lines of text in a stream (bound)
    MaxRefreshes    \* events that make the interface fetch the tree (bound)

ASSUME LiveViewsAssumption ==
    /\ None \notin SpecName \cup Task /\ SpecName \cap Task = {}
    /\ MaxKeys \in Nat /\ MaxText \in Nat /\ MaxRefreshes \in Nat

VARIABLES
    tab,        \* App.current_view
    dialogue,   \* App.spec_dialogue
    pane,       \* App.execute_output
    logs,       \* App.logs_view
    listening,  \* event_subscription.subscribed
    doing,      \* the command a handler sends, and what it is for
    up,         \* the connection is open
    keys,       \* keys pressed that ask for something
    requests,   \* what those are about that the daemon has not read
    running,    \* the stream it writes
    lines,      \* what the interface has not read
    events,     \* events forwarded
    crossed     \* a request was sent before a stream had been read to its end

appVars == <<tab, dialogue, pane, logs, listening>>
viewVars == <<appVars, doing>>
streamVars == <<running, events, up>>
liveVars == <<viewVars, streamVars, keys, requests, lines, crossed>>

\* id is spec_id; foreign says that lines about something else were shown.
NoDialogue == [spec |-> None, state |-> "closed", id |-> None, foreign |-> FALSE]
NoViewer == [task |-> None, streaming |-> FALSE, foreign |-> FALSE]
NotDoing == [op |-> "none", task |-> None, waits |-> FALSE]
NoStream == [of |-> None, left |-> 0]

About == SpecName \cup Task \cup {None}
Viewer == [task : Task \cup {None}, streaming : BOOLEAN, foreign : BOOLEAN]

LiveTypeOK ==
    /\ tab \in {"specs", "execute", "logs"}
    /\ dialogue \in [spec : SpecName \cup {None}, id : SpecName \cup {None}, foreign : BOOLEAN,
                     state : {"closed", "streaming", "waiting", "completed"}]
    /\ pane \in Viewer /\ logs \in Viewer
    /\ listening \in BOOLEAN /\ up \in BOOLEAN /\ crossed \in BOOLEAN
    /\ doing \in [op : {"none", "exit", "end", "pane", "logs", "other"},
                  task : Task \cup {None}, waits : BOOLEAN]
    /\ keys \in 0..MaxKeys /\ events \in 0..MaxRefreshes
    /\ requests \in Seq(About)
    /\ running \in [of : About, left : 0..MaxText]
    /\ lines \in Seq([is : {"text", "done", "completed", "error", "reply", "event"},
                      of : About])

LiveInit ==
    /\ tab = "specs"
    /\ dialogue = NoDialogue /\ pane = NoViewer /\ logs = NoViewer
    /\ listening \in BOOLEAN
    /\ doing = NotDoing
    /\ up = TRUE
    /\ keys = 0 /\ requests = <<>> /\ running = NoStream
    /\ lines = <<>> /\ events = 0 /\ crossed = FALSE

-----------------------------------------------------------------------------
(* The daemon: SocketServer's loop takes one request after the other *)

Emit(is, of) == lines' = Append(lines, [is |-> is, of |-> of])

Begin ==
    /\ up
    /\ running = NoStream
    /\ requests # <<>>
    /\ requests' = Tail(requests)
    /\ IF Head(requests) = None
       THEN Emit("reply", None) /\ UNCHANGED running
       ELSE /\ running' = [of |-> Head(requests), left |-> MaxText]
            /\ UNCHANGED lines
    /\ UNCHANGED <<viewVars, up, keys, events, crossed>>

Text ==
    /\ up
    /\ running.left > 0
    /\ Emit("text", running.of)
    /\ running' = [running EXCEPT !.left = @ - 1]
    /\ UNCHANGED <<viewVars, up, keys, requests, events, crossed>>

\* The last line of a stream. That of a turn holds the spec's id and whether
\* the dialogue is at its end.
End ==
    /\ up
    /\ running # NoStream /\ running.left = 0
    /\ \E is \in {"done", "error"} \cup (IF running.of \in SpecName THEN {"completed"} ELSE {}) :
           Emit(is, running.of)
    /\ running' = NoStream
    /\ UNCHANGED <<viewVars, up, keys, requests, events, crossed>>

Event ==
    /\ up /\ listening
    /\ events < MaxRefreshes
    /\ events' = events + 1
    /\ Emit("event", None)
    /\ UNCHANGED <<viewVars, up, keys, requests, running, crossed>>

Lose ==
    /\ up
    /\ up' = FALSE
    /\ UNCHANGED <<viewVars, keys, requests, running, lines, events, crossed>>

-----------------------------------------------------------------------------
(* Sending *)

IsLast(line) == line.is \in {"done", "completed", "error"}

\* A stream was asked for and its last line is not read.
StreamOpen ==
    \/ running # NoStream
    \/ \E i \in DOMAIN requests : requests[i] # None
    \/ \E i \in DOMAIN lines : IsLast(lines[i])

Ask(of) ==
    /\ requests' = Append(requests, of)
    /\ crossed' = (crossed \/ StreamOpen)

NotAsked == UNCHANGED <<requests, crossed>>

\* send_streaming_command: one, or other if writing fails.
SendsOr(of, one, other) ==
    \/ Ask(of) /\ one
    \/ ~up /\ NotAsked /\ other

\* A handler sends a command and waits for a line.
Does(op, task) == doing' = [op |-> op, task |-> task, waits |-> FALSE]

\* set_historical, with the log of t or the message that it cannot be had.
Historical(t) == [NoViewer EXCEPT !.task = t]

\* What the handler does with its answer, or with its failure.
Finish ==
    CASE doing.op = "exit" ->
            /\ dialogue' = NoDialogue
            /\ Does("other", None)
            /\ UNCHANGED <<pane, logs>>
      [] doing.op = "end" ->
            /\ dialogue' = [dialogue EXCEPT !.state = "completed"]
            /\ doing' = NotDoing
            /\ UNCHANGED <<pane, logs>>
      [] doing.op = "pane" ->
            /\ pane' = Historical(doing.task)
            /\ doing' = NotDoing
            /\ UNCHANGED <<dialogue, logs>>
      [] doing.op = "logs" ->
            /\ logs' = Historical(doing.task)
            /\ doing' = NotDoing
            /\ UNCHANGED <<dialogue, pane>>
      [] OTHER -> doing' = NotDoing /\ UNCHANGED <<dialogue, pane, logs>>

\* send_command
WriteCommand ==
    /\ doing.op # "none" /\ ~doing.waits
    /\ \/ /\ Ask(None)
          /\ doing' = [doing EXCEPT !.waits = TRUE]
          /\ UNCHANGED <<dialogue, pane, logs>>
       \/ ~up /\ NotAsked /\ Finish
    /\ UNCHANGED <<tab, listening, streamVars, keys, lines>>

\* It reads one line, whosever it is; of an answer that is not its own the
\* handler shows as little as of none.
TakeLine ==
    /\ doing.waits
    /\ lines # <<>>
    /\ lines' = Tail(lines)
    /\ Finish
    /\ UNCHANGED <<tab, listening, streamVars, keys, requests, crossed>>

\* The timeout, or the end of the connection.
Unanswered ==
    /\ doing.waits
    /\ lines = <<>>
    /\ Finish
    /\ UNCHANGED <<tab, listening, streamVars, keys, requests, lines, crossed>>

-----------------------------------------------------------------------------
(* event_loop: what is read between two keys *)

Open == dialogue # NoDialogue

\* Mutant of Told: a turn that fails leaves the dialogue as it is.
ToldUnlessError(d, line) ==
    CASE line.is = "text" -> [d EXCEPT !.foreign = @ \/ line.of # d.spec]
      [] line.is = "done" -> [d EXCEPT !.state = "waiting",
                                       !.id = IF line.of \in SpecName THEN line.of ELSE @]
      [] line.is = "completed" -> [d EXCEPT !.state = "completed", !.id = line.of]
      [] OTHER -> d

\* The dialogue after a line: the last line of a log has no spec_id.
Told(d, line) ==
    CASE line.is = "text" -> [d EXCEPT !.foreign = @ \/ line.of # d.spec]
      [] line.is = "done" -> [d EXCEPT !.state = "waiting",
                                       !.id = IF line.of \in SpecName THEN line.of ELSE @]
      [] line.is = "completed" -> [d EXCEPT !.state = "completed", !.id = line.of]
      [] line.is = "error" -> [d EXCEPT !.state = "completed"]
      [] OTHER -> d

\* The output pane or the log after a poll.
Shows(v) ==
    IF lines = <<>> \/ IsLast(Head(lines)) THEN [v EXCEPT !.streaming = FALSE]
    ELSE IF Head(lines).is = "text" THEN [v EXCEPT !.foreign = @ \/ Head(lines).of # v.task]
    ELSE v

\* A poll that finds a line, or that the connection is lost. After an event
\* handle_daemon_event fetches the tree.
Polls ==
    /\ doing = NotDoing
    /\ \/ /\ lines # <<>>
          /\ lines' = Tail(lines)
          /\ IF Head(lines).is = "event" THEN Does("other", None) ELSE UNCHANGED doing
       \/ lines = <<>> /\ ~up /\ UNCHANGED <<lines, doing>>
    /\ UNCHANGED <<tab, streamVars, keys, requests, crossed>>

\* poll_streaming_data
PollDialogue ==
    /\ dialogue.state = "streaming"
    /\ Polls
    /\ dialogue' = IF lines = <<>> THEN [dialogue EXCEPT !.state = "completed"]
                   ELSE Told(dialogue, Head(lines))
    /\ UNCHANGED <<pane, logs, listening>>

\* poll_execute_streaming_data
PollPane ==
    /\ tab = "execute" /\ pane.streaming
    /\ Polls
    /\ pane' = Shows(pane)
    /\ UNCHANGED <<dialogue, logs, listening>>

\* poll_logs_streaming_data
PollLogs ==
    /\ tab = "logs" /\ logs.streaming
    /\ Polls
    /\ logs' = Shows(logs)
    /\ UNCHANGED <<dialogue, pane, listening>>

\* The output pane may be streaming behind another view.
ListensIn ==
    listening /\ ~pane.streaming /\ ~(tab = "logs" /\ logs.streaming) /\ ~Open

\* poll_daemon_events passes over lines that are no events.
PollEvents ==
    /\ ListensIn
    /\ Polls
    /\ listening' = (lines # <<>>)
    /\ UNCHANGED <<dialogue, pane, logs>>

-----------------------------------------------------------------------------
(* Keys *)

\* SpecDialogueState::new
Entered(s) == [NoDialogue EXCEPT !.spec = s, !.state = "streaming"]

Ready ==
    /\ doing = NotDoing
    /\ keys < MaxKeys /\ keys' = keys + 1

Free == Ready /\ ~Open

\* handle_spec_new and handle_spec_resume
StartDialogue(s) ==
    /\ Free /\ tab = "specs"
    /\ SendsOr(s, dialogue' = Entered(s),
                  dialogue' = [Entered(s) EXCEPT !.state = "completed"])
    /\ UNCHANGED <<tab, pane, logs, listening, doing, streamVars, lines>>

\* Enter and handle_dialogue_send_answer: the spec is known by the id the last
\* turn came with; without one there is a message.
SendAnswer ==
    /\ Ready /\ dialogue.state = "waiting"
    /\ dialogue.id # None
    /\ SendsOr(dialogue.id, dialogue' = [dialogue EXCEPT !.state = "streaming"],
               UNCHANGED dialogue)
    /\ UNCHANGED <<tab, pane, logs, listening, doing, streamVars, lines>>

\* Esc and Ctrl+D: spec.deactivate, in any state.
LeaveDialogue ==
    /\ Open
    /\ \/ doing = NotDoing /\ Does("exit", None) /\ UNCHANGED keys
       \/ Ready /\ Does("end", None)
    /\ UNCHANGED <<appVars, streamVars, requests, lines, crossed>>

\* Another view, unless a log is on the screen.
ChangeView ==
    /\ doing = NotDoing /\ ~Open
    /\ logs = NoViewer
    /\ tab' \in {"specs", "execute", "logs"} \ {tab}
    /\ UNCHANGED <<dialogue, pane, logs, listening, doing, streamVars, keys, requests,
                   lines, crossed>>

\* Mutant of Following: which task is followed is not kept.
FollowingAny(t) == [NoViewer EXCEPT !.streaming = TRUE]

\* start_streaming
Following(t) == [NoViewer EXCEPT !.task = t, !.streaming = TRUE]

\* handle_execute_select_task: a task that runs is followed.
SelectInPane(t) ==
    /\ Free /\ tab = "execute"
    /\ \/ /\ SendsOr(t, pane' = Following(t), pane' = Historical(t))
          /\ UNCHANGED doing
       \/ Does("pane", t) /\ NotAsked /\ UNCHANGED pane
    /\ UNCHANGED <<tab, dialogue, logs, listening, streamVars, lines>>

\* handle_logs_select_task
SelectInLogs(t) ==
    /\ Free /\ tab = "logs" /\ logs = NoViewer
    /\ \/ /\ SendsOr(t, logs' = Following(t), logs' = Historical(t))
          /\ UNCHANGED doing
       \/ Does("logs", t) /\ NotAsked /\ UNCHANGED logs
    /\ UNCHANGED <<tab, dialogue, pane, listening, streamVars, lines>>

\* exit_logs_view
LeaveLogs ==
    /\ doing = NotDoing
    /\ tab = "logs" /\ logs # NoViewer
    /\ logs' = NoViewer
    /\ tab' = "execute"
    /\ UNCHANGED <<dialogue, pane, listening, doing, streamVars, keys, requests, lines,
                   crossed>>

\* A key that sends a command and forgets its answer.
Command ==
    /\ Free /\ logs = NoViewer
    /\ Does("other", None)
    /\ UNCHANGED <<appVars, streamVars, requests, lines, crossed>>

LiveKey ==
    \/ \E s \in SpecName : StartDialogue(s)
    \/ \E t \in Task : SelectInPane(t) \/ SelectInLogs(t)
    \/ SendAnswer \/ LeaveDialogue \/ ChangeView \/ LeaveLogs \/ Command

Serve == Begin \/ Text \/ End

Answered == WriteCommand \/ TakeLine \/ Unanswered

PollAny == PollDialogue \/ PollPane \/ PollLogs \/ PollEvents

LiveNext == Serve \/ Event \/ Lose \/ Answered \/ PollAny \/ LiveKey

\* A turn and a followed task come to an end, a command has a timeout, and
\* event_loop polls before each key.
Fairness == WF_liveVars(Serve) /\ WF_liveVars(Answered) /\ SF_liveVars(PollAny)

LiveSpec == LiveInit /\ [][LiveNext]_liveVars /\ Fairness

-----------------------------------------------------------------------------
(* Properties *)

\* While nothing is sent before the stream that is open has been read to its
\* end, the dialogue and the two logs show the lines of their own spec or task
\* only, and an answer goes to the spec it is typed for.
LinesAreOwn ==
    ~crossed =>
        /\ ~dialogue.foreign /\ ~pane.foreign /\ ~logs.foreign
        /\ dialogue.id \in {None, dialogue.spec}

\* tui.md: the answer is sent to Claude. After Esc in a dialogue whose turn is
\* still running, the next dialogue takes that turn's last line for its own
\* and sends the answer to the spec that was left.
AnswerReachesItsSpec == dialogue.id \in {None, dialogue.spec}

\* Where no event makes the interface send a command meanwhile, a dialogue does
\* not wait for its turn for ever: a lost connection, a failed turn and the
\* lines of other requests included.
TurnsEnd ==
    [](events = 0) => (dialogue.state = "streaming" ~> dialogue.state # "streaming")

\* The same with events: the command takes the line that ends the turn.
TurnsEndAnyhow == dialogue.state = "streaming" ~> dialogue.state # "streaming"

\* A subscribed interface that rests reads the lines of abandoned requests, so
\* that later answers are found again.
LeftoversAreRead ==
    <>[](listening /\ ~Open /\ ~pane.streaming /\ ~logs.streaming)
        => []<>(lines = <<>>)
=============================================================================

----------------------------- MODULE Connection -----------------------------
(***************************************************************************)
(* One connection to the daemon's socket: the loop that answers requests   *)
(* one after the other, the task that forwards events to a subscriber, and *)
(* the two clients. The command line client waits for one answer at a time *)
(* and exits when something is wrong; the terminal interface keeps its     *)
(* connection, reads exactly one line per command and polls for lines in   *)
(* between, of whatever kind they are.                                     *)
(*                                                                         *)
(* A request is known by its place in the order of sending. What a handler *)
(* does is not modelled here, nor is the socket's buffer ever full.        *)
(***************************************************************************)
EXTENDS Integers, Sequences

CONSTANTS
    Clients,        \* kinds of client, of "cli" and "tui"
    MaxRequests,    \* requests a client sends (bound)
    MaxEvents,      \* events the daemon publishes (bound)
    MaxLines,       \* lines of a stream before its last (bound)
    Capacity        \* events the bus keeps for a slow receiver

ASSUME ConnectionAssumption ==
    /\ Clients \subseteq {"cli", "tui"}
    /\ MaxRequests \in Nat /\ MaxEvents \in Nat /\ MaxLines \in Nat
    /\ Capacity \in Nat \ {0}

VARIABLES
    kind,       \* the client
    link,       \* the connection: new, open or closed
    sent,       \* the sorts of the requests sent
    taken,      \* how many of them the daemon has read
    serving,    \* the requests being handled, with the lines they may still send
    toClient,   \* lines on their way to the client
    published,  \* events broadcast
    forwarder,  \* for each task that forwards events, the next one it receives
    waiting,    \* the command whose answer the client waits for, or 0
    stream,     \* the stream the client reads, or 0
    subscribed, \* what the client knows of its subscription
    seen,       \* the last event the client has seen
    trouble     \* why the last command or stream of the client failed

clientVars == <<kind, waiting, stream, subscribed, seen, trouble>>
daemonVars == <<taken, serving, published, forwarder>>
vars == <<clientVars, daemonVars, link, sent, toClient>>

Request == 1..MaxRequests

Line == [is : {"reply", "line", "done"}, id : Request]
            \cup [is : {"event"}, id : 1..MaxEvents]
            \cup {[is |-> "torn", id |-> 0]}

TypeOK ==
    /\ kind \in Clients
    /\ link \in {"new", "open", "closed"}
    /\ sent \in Seq({"command", "stream", "subscribe"})
    /\ Len(sent) <= MaxRequests
    /\ taken \in 0..Len(sent)
    /\ serving \subseteq Request \X (0..MaxLines)
    /\ toClient \in Seq(Line)
    /\ published \in 0..MaxEvents
    /\ forwarder \in Seq(1..(MaxEvents + 1))
    /\ waiting \in 0..Len(sent)
    /\ stream \in 0..Len(sent)
    /\ subscribed \in BOOLEAN
    /\ seen \in 0..MaxEvents
    /\ trouble \in {"none", "mismatch", "event", "torn", "timeout", "closed"}

Init ==
    /\ kind \in Clients
    /\ link = "new"
    /\ sent = <<>> /\ toClient = <<>>
    /\ taken = 0 /\ serving = {} /\ published = 0 /\ forwarder = <<>>
    /\ waiting = 0 /\ stream = 0 /\ subscribed = FALSE
    /\ seen = 0 /\ trouble = "none"

-----------------------------------------------------------------------------
(* The daemon *)

Write(is, id) == toClient' = Append(toClient, [is |-> is, id |-> id])

\* perform_handshake: another version, garbage or 5 seconds of silence end it.
Handshake ==
    /\ link = "new"
    /\ link' \in {"open", "closed"}
    /\ UNCHANGED <<clientVars, daemonVars, sent, toClient>>

\* The loop reads a request when the one before is answered.
MayTake == serving = {}

\* A request is read; the handler runs on a thread of its own.
Take ==
    /\ link = "open"
    /\ MayTake
    /\ taken < Len(sent)
    /\ sent[taken + 1] # "subscribe"
    /\ taken' = taken + 1
    /\ \E n \in IF sent[taken + 1] = "stream" THEN 0..MaxLines ELSE {0} :
           serving' = serving \cup {<<taken + 1, n>>}
    /\ UNCHANGED <<clientVars, link, sent, toClient, published, forwarder>>

\* Mutant of Subscribed: a client that asks again is subscribed again.
SubscribedAnew == Append(forwarder, published + 1)

\* A connection has one task that forwards events.
Subscribed == IF forwarder = <<>> THEN <<published + 1>> ELSE forwarder

\* handle_subscribe. The task may forward before the answer is written.
Subscribe ==
    /\ link = "open"
    /\ MayTake
    /\ taken < Len(sent)
    /\ sent[taken + 1] = "subscribe"
    /\ taken' = taken + 1
    /\ forwarder' = Subscribed
    /\ serving' = serving \cup {<<taken + 1, 0>>}
    /\ UNCHANGED <<clientVars, link, sent, toClient, published>>

\* The loop goes on to the next request after the answer or the last line.
EndsAt(s) == {s}

\* The answer or, where no line is left, the last one of a stream.
Answer ==
    /\ link = "open"
    /\ \E s \in serving :
           /\ s[2] = 0
           /\ Write(IF sent[s[1]] = "stream" THEN "done" ELSE "reply", s[1])
           /\ serving' = serving \ EndsAt(s)
    /\ UNCHANGED <<clientVars, link, sent, taken, published, forwarder>>

StreamLine ==
    /\ link = "open"
    /\ \E s \in serving :
           /\ s[2] > 0
           /\ Write("line", s[1])
           /\ serving' = (serving \ {s}) \cup {<<s[1], s[2] - 1>>}
    /\ UNCHANGED <<clientVars, link, sent, taken, published, forwarder>>

\* EventBus.broadcast, from the scheduler or another client's command.
Publish ==
    /\ published < MaxEvents
    /\ published' = published + 1
    /\ UNCHANGED <<clientVars, link, sent, toClient, taken, serving, forwarder>>

\* A receiver that lags continues with the oldest event the bus still has.
Received(n) == IF published - n >= Capacity THEN published - Capacity + 1 ELSE n

Forward ==
    /\ link = "open"
    /\ \E f \in DOMAIN forwarder :
           /\ forwarder[f] <= published
           /\ Write("event", Received(forwarder[f]))
           /\ forwarder' = [forwarder EXCEPT ![f] = Received(@) + 1]
    /\ UNCHANGED <<clientVars, link, sent, taken, serving, published>>

\* The daemon dies; what it has written can still be read.
Close ==
    /\ link = "open"
    /\ link' = "closed"
    /\ serving' = {} /\ forwarder' = <<>>
    /\ UNCHANGED <<clientVars, sent, taken, published, toClient>>

-----------------------------------------------------------------------------
(* The clients *)

\* Mutant of Goes: the command line client goes on after a timeout.
GoesAfterTimeout == kind = "tui" \/ trouble \in {"none", "timeout"}

\* Nothing went wrong, or the client does not mind.
Goes == kind = "tui" \/ trouble = "none"

Idle == waiting = 0 /\ (kind = "tui" \/ stream = 0)

Send(sort) ==
    /\ link = "open"
    /\ Goes /\ Idle
    /\ Len(sent) < MaxRequests
    /\ sent' = Append(sent, sort)

\* send_command and send_command_with_timeout: a line is written.
SendCommand ==
    /\ \E sort \in {"command", "subscribe"} :
           /\ sort = "subscribe" => kind = "tui" /\ ~subscribed
           /\ Send(sort)
    /\ waiting' = Len(sent')
    /\ UNCHANGED <<daemonVars, link, toClient, kind, stream, subscribed, seen,
                   trouble>>

\* An event has no data and is no Response; a streaming line is one.
Matches(line) == line.is \notin {"event", "torn"} /\ line.id = waiting

\* send_command_with_timeout reads one line, and one only.
ReadAnswer ==
    /\ waiting # 0
    /\ toClient # <<>>
    /\ LET line == Head(toClient)
       IN  IF Matches(line)
           THEN /\ subscribed' = (subscribed \/ sent[waiting] = "subscribe")
                /\ trouble' = "none"
           ELSE /\ trouble' = IF line.is \in {"event", "torn"} THEN line.is ELSE "mismatch"
                /\ UNCHANGED subscribed
    /\ toClient' = Tail(toClient)
    /\ waiting' = 0
    /\ UNCHANGED <<daemonVars, link, sent, kind, stream, seen>>

\* Mutant of GiveUp: the end of the connection is not noticed.
GiveUpWhileOpen ==
    /\ link = "open"
    /\ waiting # 0
    /\ toClient = <<>>
    /\ waiting' = 0
    /\ trouble' = "timeout"
    /\ UNCHANGED <<daemonVars, link, sent, toClient, kind, stream, subscribed,
                   seen>>

\* The timeout of 60 or 300 seconds, or the end of the connection.
GiveUp ==
    /\ waiting # 0
    /\ toClient = <<>>
    /\ waiting' = 0
    /\ trouble' = IF link = "open" THEN "timeout" ELSE "closed"
    /\ UNCHANGED <<daemonVars, link, sent, toClient, kind, stream, subscribed,
                   seen>>

\* send_streaming_command. The interface forgets the stream it had.
SendStream ==
    /\ Send("stream")
    /\ stream' = Len(sent')
    /\ trouble' = "none"
    /\ UNCHANGED <<daemonVars, link, toClient, kind, waiting, subscribed,
                   seen>>

\* StreamingReader.next_line of the command line client.
ReadLine ==
    /\ kind = "cli" /\ stream # 0
    /\ \/ /\ toClient # <<>>
          /\ LET line == Head(toClient)
             IN  IF line.id = stream /\ line.is # "event"
                 THEN /\ stream' = IF line.is = "done" THEN 0 ELSE stream
                      /\ UNCHANGED trouble
                 ELSE trouble' = "mismatch" /\ stream' = 0
          /\ toClient' = Tail(toClient)
       \/ /\ toClient = <<>>
          /\ trouble' = IF link = "open" THEN "timeout" ELSE "closed"
          /\ stream' = 0
          /\ UNCHANGED toClient
    /\ UNCHANGED <<daemonVars, link, sent, kind, waiting, subscribed, seen>>

\* Between two keys the interface reads a line, if it has a stream or knows of
\* its subscription. An event makes it send a command at once; of other lines
\* it only asks whether they are an error or the last of the stream.
Poll ==
    /\ kind = "tui" /\ waiting = 0
    /\ stream # 0 \/ subscribed
    /\ \/ /\ toClient # <<>>
          /\ toClient' = Tail(toClient)
          /\ LET line == Head(toClient)
             IN  IF line.is = "event"
                 THEN /\ seen' = line.id
                      /\ \/ /\ link = "open" /\ Len(sent) < MaxRequests
                            /\ sent' = Append(sent, "command")
                            /\ waiting' = Len(sent')
                         \/ UNCHANGED <<sent, waiting>>
                      /\ UNCHANGED stream
                 ELSE /\ line.is # "torn"
                      /\ stream' \in {0} \cup IF line.is = "done" THEN {} ELSE {stream}
                      /\ line.is = "line" => stream' = stream
                      /\ UNCHANGED <<seen, sent, waiting>>
          /\ UNCHANGED <<subscribed, trouble>>
       \/ /\ IF toClient = <<>> THEN link = "closed" ELSE Head(toClient).is = "torn"
          /\ toClient' = IF toClient = <<>> THEN <<>> ELSE Tail(toClient)
          /\ stream' = 0
          /\ subscribed' = (stream # 0 /\ subscribed)
          /\ trouble' = "closed"
          /\ UNCHANGED <<sent, waiting, seen>>
    /\ UNCHANGED <<daemonVars, link, kind>>

\* A poll ends after 10 ms, also in the middle of a line: what it has read of it
\* is lost and the rest is no JSON.
Tear ==
    /\ kind = "tui" /\ waiting = 0
    /\ stream # 0 \/ subscribed
    /\ toClient # <<>>
    /\ toClient' = [toClient EXCEPT ![1] = [is |-> "torn", id |-> 0]]
    /\ UNCHANGED <<daemonVars, link, sent, clientVars>>

\* The task's output is left or another project chosen: the stream goes on.
Abandon ==
    /\ kind = "tui" /\ waiting = 0 /\ stream # 0
    /\ stream' = 0
    /\ UNCHANGED <<daemonVars, link, sent, toClient, kind, waiting, subscribed,
                   seen, trouble>>

-----------------------------------------------------------------------------
Daemon == Take \/ Subscribe \/ Answer \/ StreamLine \/ Forward

Reads == ReadAnswer \/ GiveUp \/ ReadLine \/ Poll

Next ==
    \/ Handshake \/ Daemon \/ Publish \/ Close
    \/ SendCommand \/ SendStream \/ Reads \/ Tear \/ Abandon

Spec == Init /\ [][Next]_vars

\* The daemon's tasks run, and so does the loop of the client, whose reads
\* have a timeout.
FairSpec == Spec /\ WF_vars(Daemon) /\ WF_vars(Reads)

-----------------------------------------------------------------------------
(* Properties *)

\* The command line client never reads a line it did not ask for, be it a late
\* answer, one given twice, a line of an earlier stream or an event: it ends with
\* its first failure, and requests are answered one by one, each to its end.
InSync == kind = "cli" => trouble \notin {"mismatch", "event"}

\* Events come in the order in which they were published and no event comes
\* twice, however often a client subscribes and however slow it is.
EventsInOrder ==
    \A i \in DOMAIN toClient : toClient[i].is = "event" =>
        /\ toClient[i].id > seen
        /\ \A j \in DOMAIN toClient :
              i < j /\ toClient[j].is = "event" => toClient[i].id < toClient[j].id

\* A request that was written is handled, also one the client gave up, unless
\* the daemon dies.
EveryRequestRuns ==
    \A r \in Request : Len(sent) >= r ~> taken >= r \/ link = "closed"

\* A client does not wait forever, whatever the daemon does.
ClientReturns == waiting # 0 \/ (kind = "cli" /\ stream # 0) ~> Idle

\* nflow-tui main.rs:187: events that come while streaming are handled there. But the
\* command an event sends reads the next line of the stream as its answer, and
\* if that is the last one the stream never ends for the interface.
StreamsEnd == stream # 0 ~> stream = 0
-----------------------------------------------------------------------------
(* Inductive strengthenings of the invariants above *)

\* What the forwarding task receives next comes after all that it has sent.
EventsInv ==
    /\ EventsInOrder
    /\ Len(forwarder) <= 1
    /\ seen <= published
    /\ \A i \in DOMAIN toClient :
          toClient[i].is = "event" => toClient[i].id <= published
    /\ \A f \in DOMAIN forwarder :
          /\ seen < forwarder[f]
          /\ \A i \in DOMAIN toClient :
                toClient[i].is = "event" => toClient[i].id < forwarder[f]

\* All that is handled or on its way belongs to the last request, and the
\* answer or the last line of a stream has nothing behind it.
LastRequestOnly ==
    /\ waiting \in {0, Len(sent)} /\ stream \in {0, Len(sent)}
    /\ taken \in {Len(sent) - 1, Len(sent)}
    /\ taken = Len(sent) \/ (serving = {} /\ toClient = <<>> /\ ~Idle)
    /\ Idle => serving = {} /\ toClient = <<>>
    /\ \A s \in serving :
          /\ s[1] = Len(sent)
          /\ waiting # 0 => s[2] = 0
          /\ \A q \in serving : q = s
    /\ \A i \in DOMAIN toClient :
          /\ toClient[i].id = Len(sent)
          /\ waiting # 0 => toClient[i].is # "line"
          /\ toClient[i].is # "line" => i = Len(toClient) /\ serving = {}
    /\ waiting # 0 => sent[waiting] = "command"

\* The command line client has one request at a time, and none after a failure.
SyncInv ==
    kind = "cli" =>
        /\ trouble \in {"none", "timeout", "closed"}
        /\ forwarder = <<>>
        /\ \A r \in DOMAIN sent : sent[r] # "subscribe"
        /\ \A i \in DOMAIN toClient : toClient[i].is \notin {"event", "torn"}
        /\ waiting = 0 \/ stream = 0
        /\ Idle \/ trouble = "none"
        /\ trouble = "none" => LastRequestOnly
=============================================================================

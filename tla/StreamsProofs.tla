--------------------------- MODULE StreamsProofs ---------------------------
(***************************************************************************)
(* What clients are sent and what is made of what agents print, for any    *)
(* number of requests, events, lines and runs and any capacity of the      *)
(* event bus: Connection's EventsInOrder and InSync, then AgentLog's       *)
(* LinesInOrder, VerdictByOwnOutput and DoneWorkIsKept.                    *)
(*                                                                         *)
(* All lines of a connection share one queue.  The inductive invariants    *)
(* say what may be in it: only events that the forwarding task is past     *)
(* (EventsInv) and, for a client that stops at its first failure, only     *)
(* lines that belong to the last request (SyncInv).                        *)
(*                                                                         *)
(* The lines of all attempts at a task share one file.  OutputInv says     *)
(* that those of the running one come last, in the file or else in the     *)
(* pipe, and RunsInv that none is in the pipe when its exit code is        *)
(* stored; StackInv that each task's commit is on top of those of the      *)
(* tasks before it, and what the running agent has committed on top of all *)
(* of them.                                                                *)
(***************************************************************************)
EXTENDS Connection, AgentLog, WellFoundedInduction, TLAPS

(***************************************************************************)
(* Queues.                                                                 *)
(***************************************************************************)

\* What is in a queue after a line has been written.
LEMMA Written ==
    ASSUME NEW S, NEW q \in Seq(S), NEW x \in S
    PROVE  /\ Append(q, x) \in Seq(S)
           /\ Len(Append(q, x)) = Len(q) + 1
           /\ \A i \in 1..Len(q) : Append(q, x)[i] = q[i]
           /\ Append(q, x)[Len(q) + 1] = x
           /\ Append(q, x) # <<>>
OBVIOUS

\* What is in a queue after a line has been read.
LEMMA Read ==
    ASSUME NEW S, NEW q \in Seq(S), q # <<>>
    PROVE  /\ Tail(q) \in Seq(S) /\ Head(q) \in S /\ Head(q) = q[1]
           /\ Len(q) \in Nat \ {0} /\ Len(Tail(q)) = Len(q) - 1
           /\ \A i \in 1..Len(Tail(q)) : Tail(q)[i] = q[i + 1]
<1>1. Len(q) \in Nat \ {0}
      OBVIOUS
<1>2. Head(q) = q[1] /\ q[1] \in S
      BY <1>1
<1>3. Tail(q) \in Seq(S) /\ Len(Tail(q)) = Len(q) - 1
      OBVIOUS
<1>4. \A i \in 1..Len(Tail(q)) : Tail(q)[i] = q[i + 1]
      BY <1>1, <1>3
<1>5. QED BY <1>1, <1>2, <1>3, <1>4

\* What is in a queue after an element has been replaced.
LEMMA Updated ==
    ASSUME NEW S, NEW q \in Seq(S), NEW i \in DOMAIN q, NEW x \in S
    PROVE  /\ [q EXCEPT ![i] = x] \in Seq(S)
           /\ Len([q EXCEPT ![i] = x]) = Len(q)
           /\ \A j \in DOMAIN q : [q EXCEPT ![i] = x][j] = IF j = i THEN x ELSE q[j]
OBVIOUS
-----------------------------------------------------------------------------
(***************************************************************************)
(* The type invariant.                                                     *)
(***************************************************************************)

\* Lines are lines.
LEMMA LineType ==
    /\ \A id \in Request : /\ [is |-> "reply", id |-> id] \in Line
                           /\ [is |-> "line", id |-> id] \in Line
                           /\ [is |-> "done", id |-> id] \in Line
    /\ \A id \in 1..MaxEvents : [is |-> "event", id |-> id] \in Line
    /\ [is |-> "torn", id |-> 0] \in Line
    /\ \A line \in Line :
          /\ line.is \notin {"event", "torn"} => line.id \in Request
          /\ line.is = "event" => line.id \in 1..MaxEvents
          /\ line.is \in {"reply", "line", "done", "event", "torn"}
BY DEF Line

\* What the daemon writes keeps the queue one of lines.
LEMMA WriteType ==
    ASSUME TypeOK, NEW is, NEW id, [is |-> is, id |-> id] \in Line,
           Write(is, id)
    PROVE  toClient' \in Seq(Line)
BY DEF TypeOK, Write

\* What is received is an event that has been published.
LEMMA ReceivedType ==
    ASSUME TypeOK, NEW n \in 1..(MaxEvents + 1), n <= published
    PROVE  /\ Received(n) \in 1..MaxEvents
           /\ n <= Received(n) /\ Received(n) <= published
BY ConnectionAssumption DEF TypeOK, Received

\* Every step keeps the types.
LEMMA NextType ==
    ASSUME TypeOK, [Next]_vars
    PROVE  TypeOK'
<1> USE ConnectionAssumption DEF TypeOK
<1>0. CASE Handshake
      BY <1>0 DEF Handshake, clientVars, daemonVars
<1>1. CASE Publish
      BY <1>1 DEF Publish, clientVars
<1>c. CASE Close
      BY <1>c DEF Close, clientVars
<1>2. CASE Take
  <2>1. taken + 1 \in Request /\ taken' \in 0..Len(sent)
        BY <1>2 DEF Take, Request
  <2>2. serving' \subseteq Request \X (0..MaxLines)
        BY <1>2, <2>1 DEF Take
  <2>3. QED BY <1>2, <2>1, <2>2 DEF Take, clientVars
<1>3. CASE Subscribe
  <2>1. taken + 1 \in Request /\ taken' \in 0..Len(sent)
        BY <1>3 DEF Subscribe, Request
  <2>2. serving' \subseteq Request \X (0..MaxLines)
        BY <1>3, <2>1 DEF Subscribe
  <2>3. forwarder' \in Seq(1..(MaxEvents + 1))
    <3>1. published + 1 \in 1..(MaxEvents + 1)
          OBVIOUS
    <3>2. <<published + 1>> \in Seq(1..(MaxEvents + 1))
          BY <3>1
    <3>3. QED BY <1>3, <3>2 DEF Subscribe, Subscribed
  <2>4. QED BY <1>3, <2>1, <2>2, <2>3 DEF Subscribe, clientVars
<1>4. CASE Answer
  <2>1. PICK s \in serving :
           /\ Write(IF sent[s[1]] = "stream" THEN "done" ELSE "reply", s[1])
           /\ serving' = serving \ EndsAt(s)
        BY <1>4 DEF Answer
  <2>2. s[1] \in Request
        OBVIOUS
  <2>3. toClient' \in Seq(Line)
        BY <2>1, <2>2, LineType, WriteType
  <2>4. QED BY <1>4, <2>1, <2>3 DEF Answer, clientVars
<1>5. CASE StreamLine
  <2>1. PICK s \in serving :
           /\ s[2] > 0
           /\ Write("line", s[1])
           /\ serving' = (serving \ {s}) \cup {<<s[1], s[2] - 1>>}
        BY <1>5 DEF StreamLine
  <2>2. s[1] \in Request /\ s[2] - 1 \in 0..MaxLines
        BY <2>1
  <2>3. toClient' \in Seq(Line)
        BY <2>1, <2>2, LineType, WriteType
  <2>4. serving' \subseteq Request \X (0..MaxLines)
        BY <2>1, <2>2
  <2>5. QED BY <1>5, <2>3, <2>4 DEF StreamLine, clientVars
<1>6. CASE Forward
  <2>1. PICK f \in DOMAIN forwarder :
           /\ forwarder[f] <= published
           /\ Write("event", Received(forwarder[f]))
           /\ forwarder' = [forwarder EXCEPT ![f] = Received(@) + 1]
        BY <1>6 DEF Forward
  <2>2. forwarder[f] \in 1..(MaxEvents + 1)
        OBVIOUS
  <2>3. Received(forwarder[f]) \in 1..MaxEvents
        BY <2>1, <2>2, ReceivedType
  <2>4. toClient' \in Seq(Line)
        BY <2>1, <2>3, LineType, WriteType
  <2>5. forwarder' \in Seq(1..(MaxEvents + 1))
    <3>1. Received(forwarder[f]) + 1 \in 1..(MaxEvents + 1)
          BY <2>3
    <3>2. QED BY <2>1, <3>1, Updated
  <2>6. QED BY <1>6, <2>4, <2>5 DEF Forward, clientVars
<1>7. CASE SendCommand
      BY <1>7 DEF SendCommand, Send, daemonVars
<1>8. CASE SendStream
      BY <1>8 DEF SendStream, Send, daemonVars
<1>9. CASE ReadAnswer
  <2>1. /\ toClient' \in Seq(Line) /\ Head(toClient) \in Line
        BY <1>9, Read DEF ReadAnswer
  <2>2. waiting \in Request /\ waiting' = 0
        BY <1>9 DEF ReadAnswer, Request
  <2>3. /\ subscribed' \in BOOLEAN
        /\ trouble' \in {"none", "mismatch", "event", "torn"}
    <3>1. CASE Matches(Head(toClient))
      <4>1. /\ subscribed' = (subscribed \/ sent[waiting] = "subscribe")
            /\ trouble' = "none"
            BY <1>9, <3>1 DEF ReadAnswer
      <4>2. QED BY <2>1, <2>2, <3>1, <4>1, LineType DEF Matches
    <3>2. CASE ~Matches(Head(toClient))
      <4>1. /\ trouble' = IF Head(toClient).is \in {"event", "torn"}
                         THEN Head(toClient).is ELSE "mismatch"
            /\ UNCHANGED subscribed
            BY <1>9, <3>2 DEF ReadAnswer
      <4>2. QED BY <4>1
    <3>3. QED BY <3>1, <3>2
  <2>4. QED BY <1>9, <2>1, <2>2, <2>3 DEF ReadAnswer, daemonVars
<1>10. CASE GiveUp
      BY <1>10 DEF GiveUp, daemonVars
<1>11. CASE ReadLine
  <2>1. toClient # <<>> => Tail(toClient) \in Seq(Line)
                           /\ Head(toClient) \in Line
        BY Read
  <2>2. stream \in Request
        BY <1>11 DEF ReadLine, Request
  <2>3. /\ toClient' \in Seq(Line) /\ stream' \in {0, stream}
        /\ trouble' \in {trouble, "mismatch", "timeout", "closed"}
    <3>1. CASE toClient = <<>>
          BY <1>11, <3>1 DEF ReadLine
    <3>2. CASE toClient # <<>>
      <4>1. CASE Head(toClient).id = stream /\ Head(toClient).is # "event"
        <5>1. /\ stream' \in {0, stream} /\ UNCHANGED trouble
              /\ toClient' = Tail(toClient)
              BY <1>11, <3>2, <4>1 DEF ReadLine
        <5>2. QED BY <2>1, <2>2, <3>2, <4>1, <5>1
      <4>2. CASE ~(Head(toClient).id = stream /\ Head(toClient).is # "event")
        <5>1. /\ trouble' = "mismatch" /\ stream' = 0
              /\ toClient' = Tail(toClient)
              BY <1>11, <3>2, <4>2 DEF ReadLine
        <5>2. QED BY <2>1, <3>2, <5>1
      <4>3. QED BY <4>1, <4>2
    <3>3. QED BY <3>1, <3>2
  <2>4. QED BY <1>11, <2>3 DEF ReadLine, daemonVars
<1>12. CASE Poll
  <2>1. toClient # <<>> => Tail(toClient) \in Seq(Line)
                           /\ Head(toClient) \in Line
        BY Read
  <2>2. toClient' \in Seq(Line)
        BY <1>12, <2>1 DEF Poll
  <2>3. /\ sent' \in Seq({"command", "stream", "subscribe"})
        /\ Len(sent') <= MaxRequests
        /\ Len(sent) <= Len(sent')
        /\ waiting' \in 0..Len(sent')
    <3>1. CASE UNCHANGED <<sent, waiting>>
          BY <3>1
    <3>2. CASE /\ Len(sent) < MaxRequests
               /\ sent' = Append(sent, "command")
               /\ waiting' = Len(sent')
          BY <3>2
    <3>3. QED BY <1>12, <3>1, <3>2 DEF Poll
  <2>4. /\ stream' \in {0, stream} /\ subscribed' \in BOOLEAN
        /\ seen' \in 0..MaxEvents /\ trouble' \in {trouble, "closed"}
    <3>1. stream' \in {0, stream} /\ trouble' \in {trouble, "closed"}
          BY <1>12 DEF Poll
    <3>2. subscribed' \in BOOLEAN
          BY <1>12 DEF Poll
    <3>3. seen' \in {seen} \/ seen' \in 1..MaxEvents
          BY <1>12, <2>1, LineType DEF Poll
    <3>4. QED BY <3>1, <3>2, <3>3
  <2>5. QED BY SMTT(30), <1>12, <2>2, <2>3, <2>4 DEF Poll, daemonVars
<1>13. CASE Tear
      BY <1>13, LineType DEF Tear, daemonVars, clientVars
<1>14. CASE Abandon
      BY <1>14 DEF Abandon, daemonVars
<1>15. CASE UNCHANGED vars
      BY <1>15 DEF vars, clientVars, daemonVars
<1>16. QED BY <1>0, <1>1, <1>c, <1>2, <1>3, <1>4, <1>5, <1>6, <1>7, <1>8, <1>9, <1>10,
              <1>11, <1>12, <1>13, <1>14, <1>15 DEF Next, Daemon, Reads

\* The state is well typed, whatever requests, events and lines there are.
THEOREM TypeCorrect == Spec => []TypeOK
<1>1. Init => TypeOK
  <2>1. SUFFICES ASSUME Init PROVE TypeOK
        OBVIOUS
  <2>2. /\ sent \in Seq({"command", "stream", "subscribe"}) /\ Len(sent) = 0
        /\ toClient \in Seq(Line)
        /\ forwarder \in Seq(1..(MaxEvents + 1))
        BY <2>1 DEF Init
  <2>3. /\ kind \in Clients /\ link = "new"
        /\ taken = 0 /\ serving = {} /\ published = 0
        /\ waiting = 0 /\ stream = 0 /\ subscribed = FALSE
        /\ seen = 0 /\ trouble = "none"
        BY <2>1 DEF Init
  <2>4. subscribed = FALSE => subscribed \in BOOLEAN
        OBVIOUS
  <2>5. /\ taken \in 0..Len(sent) /\ waiting \in 0..Len(sent)
        /\ stream \in 0..Len(sent)
        /\ published \in 0..MaxEvents /\ seen \in 0..MaxEvents
        BY <2>2, <2>3, ConnectionAssumption
  <2>6. Len(sent) <= MaxRequests
        BY <2>2, ConnectionAssumption
  <2>7. subscribed \in BOOLEAN
        BY <2>3, <2>4, Zenon
  <2>8. QED BY <2>2, <2>3, <2>5, <2>6, <2>7 DEF TypeOK
<1>2. QED BY <1>1, NextType, PTL DEF Spec
-----------------------------------------------------------------------------
(***************************************************************************)
(* Events.                                                                 *)
(***************************************************************************)

\* The events on their way stay in order when the first line is read (d is 1),
\* when lines are torn, and when the forwarding task ends.
LEMMA FewerEvents ==
    ASSUME TypeOK, TypeOK', EventsInv,
           forwarder' = forwarder \/ forwarder' = <<>>,
           published <= published',
           NEW d \in {0, 1}, Len(toClient') = Len(toClient) - d,
           \A i \in DOMAIN toClient' :
              toClient'[i] = toClient[i + d] \/ toClient'[i].is = "torn",
           \/ seen' = seen
           \/ d = 1 /\ toClient # <<>> /\ toClient[1].is = "event" /\ seen' = toClient[1].id
    PROVE  EventsInv'
<1>1. /\ Len(toClient) \in Nat /\ Len(toClient') \in Nat
      /\ DOMAIN toClient = 1..Len(toClient) /\ DOMAIN toClient' = 1..Len(toClient')
      /\ seen \in Nat /\ seen' \in Nat /\ published \in Nat /\ published' \in Nat
      BY SMTT(30), ConnectionAssumption DEF TypeOK
<1>2. \A i \in DOMAIN toClient : toClient[i].is = "event" => toClient[i].id \in Nat
  <2>1. \A i \in DOMAIN toClient : toClient[i] \in Line
        BY SMTT(30) DEF TypeOK
  <2>2. QED BY SMTT(30), <2>1, LineType, ConnectionAssumption
<1>3. ASSUME NEW i \in DOMAIN toClient', toClient'[i].is = "event"
      PROVE  /\ i + d \in DOMAIN toClient /\ toClient'[i] = toClient[i + d]
             /\ toClient[i + d].is = "event"
      BY <1>1, <1>3
<1>4. \A i \in DOMAIN toClient' : toClient'[i].is = "event" =>
         /\ toClient'[i].id > seen'
         /\ toClient'[i].id <= published'
  <2>1. SUFFICES ASSUME NEW i \in DOMAIN toClient', toClient'[i].is = "event"
                 PROVE  toClient'[i].id > seen' /\ toClient'[i].id <= published'
        OBVIOUS
  <2>2. /\ i + d \in DOMAIN toClient /\ toClient'[i] = toClient[i + d]
        /\ toClient[i + d].is = "event"
        BY <1>3, <2>1
  <2>3. toClient[i + d].id > seen /\ toClient[i + d].id <= published
        BY <2>2 DEF EventsInv, EventsInOrder
  <2>4. CASE seen' = seen
        BY <1>1, <1>2, <2>2, <2>3, <2>4
  <2>5. CASE d = 1 /\ toClient # <<>> /\ toClient[1].is = "event" /\ seen' = toClient[1].id
    <3>1. 1 \in DOMAIN toClient /\ 1 < i + d
          BY <1>1, <2>2, <2>5
    <3>2. toClient[1].id < toClient[i + d].id
          BY <2>2, <2>5, <3>1 DEF EventsInv, EventsInOrder
    <3>3. QED BY <1>1, <1>2, <2>2, <2>3, <2>5, <3>1, <3>2
  <2>6. QED BY <2>4, <2>5
<1>5. \A i, j \in DOMAIN toClient' :
         i < j /\ toClient'[i].is = "event" /\ toClient'[j].is = "event"
            => toClient'[i].id < toClient'[j].id
  <2>1. SUFFICES ASSUME NEW i \in DOMAIN toClient', NEW j \in DOMAIN toClient', i < j,
                        toClient'[i].is = "event", toClient'[j].is = "event"
                 PROVE  toClient'[i].id < toClient'[j].id
        OBVIOUS
  <2>2. /\ i + d \in DOMAIN toClient /\ toClient'[i] = toClient[i + d]
        /\ toClient[i + d].is = "event"
        /\ j + d \in DOMAIN toClient /\ toClient'[j] = toClient[j + d]
        /\ toClient[j + d].is = "event"
        BY <1>3, <2>1
  <2>3. i + d < j + d
        BY <1>1, <2>1
  <2>4. QED BY <2>2, <2>3 DEF EventsInv, EventsInOrder
<1>6. \A f \in DOMAIN forwarder' :
         /\ f \in DOMAIN forwarder /\ forwarder'[f] = forwarder[f]
         /\ seen' < forwarder'[f]
         /\ \A i \in DOMAIN toClient' :
               toClient'[i].is = "event" => toClient'[i].id < forwarder'[f]
  <2>1. SUFFICES ASSUME NEW f \in DOMAIN forwarder'
                 PROVE  /\ f \in DOMAIN forwarder /\ forwarder'[f] = forwarder[f]
                        /\ seen' < forwarder'[f]
                        /\ \A i \in DOMAIN toClient' :
                              toClient'[i].is = "event" => toClient'[i].id < forwarder'[f]
        OBVIOUS
  <2>2. f \in DOMAIN forwarder /\ forwarder'[f] = forwarder[f]
        OBVIOUS
  <2>3. /\ seen < forwarder[f]
        /\ \A i \in DOMAIN toClient :
              toClient[i].is = "event" => toClient[i].id < forwarder[f]
        BY <2>2 DEF EventsInv
  <2>4. seen' < forwarder[f]
        BY <1>1, <2>3
  <2>5. QED BY <1>3, <2>2, <2>3, <2>4
<1>7. Len(forwarder') <= 1 /\ seen' <= published'
  <2>1. Len(forwarder') <= 1
        BY DEF EventsInv
  <2>2. seen' <= published'
        BY <1>1 DEF EventsInv
  <2>3. QED BY <2>1, <2>2
<1>8. QED BY <1>4, <1>5, <1>6, <1>7 DEF EventsInv, EventsInOrder

\* Answers and lines of a stream do not touch the events.
LEMMA OneMoreLine ==
    ASSUME TypeOK, EventsInv, NEW is, NEW id, [is |-> is, id |-> id] \in Line,
           is # "event", Write(is, id), UNCHANGED <<published, forwarder, seen>>
    PROVE  EventsInv'
<1>1. /\ toClient' = Append(toClient, [is |-> is, id |-> id])
      /\ toClient \in Seq(Line)
      BY DEF Write, TypeOK
<1>2. /\ Len(toClient) \in Nat /\ DOMAIN toClient = 1..Len(toClient)
      /\ DOMAIN toClient' = 1..(Len(toClient) + 1)
      /\ \A i \in 1..Len(toClient) : toClient'[i] = toClient[i]
      /\ toClient'[Len(toClient) + 1].is # "event"
      BY <1>1
<1>3. \A i \in DOMAIN toClient' : toClient'[i].is = "event" =>
         i \in DOMAIN toClient /\ toClient'[i] = toClient[i]
      BY <1>2
<1>4. QED BY <1>3 DEF EventsInv, EventsInOrder

\* Reading a line takes the first one.
LEMMA ReadFirst ==
    ASSUME TypeOK, TypeOK', EventsInv, toClient # <<>>, toClient' = Tail(toClient),
           UNCHANGED <<published, forwarder>>,
           \/ seen' = seen
           \/ Head(toClient).is = "event" /\ seen' = Head(toClient).id
    PROVE  EventsInv'
<1>1. /\ Head(toClient) = toClient[1]
      /\ Len(toClient') = Len(toClient) - 1
      /\ DOMAIN toClient' = 1..Len(toClient')
      /\ \A i \in 1..Len(toClient') : toClient'[i] = toClient[i + 1]
  <2>1. toClient \in Seq(Line)
        BY DEF TypeOK
  <2>2. /\ Head(toClient) = toClient[1]
        /\ Len(Tail(toClient)) = Len(toClient) - 1
        /\ \A i \in 1..Len(Tail(toClient)) : Tail(toClient)[i] = toClient[i + 1]
        BY <2>1, Read
  <2>3. DOMAIN toClient' = 1..Len(toClient')
        BY DEF TypeOK
  <2>4. QED BY <2>2, <2>3
<1>2. forwarder' = forwarder /\ published <= published'
      BY ConnectionAssumption DEF TypeOK
<1>3. QED BY <1>1, <1>2, FewerEvents

\* Nothing is read.
LEMMA NoneRead ==
    ASSUME TypeOK, TypeOK', EventsInv, UNCHANGED <<toClient, seen>>,
           forwarder' = forwarder \/ forwarder' = <<>>,
           published <= published'
    PROVE  EventsInv'
<1>1. /\ Len(toClient') = Len(toClient) - 0
      /\ \A i \in DOMAIN toClient' : toClient'[i] = toClient[i + 0]
      BY SMTT(30) DEF TypeOK
<1>2. QED BY <1>1, FewerEvents

\* The events stay in order when the next one is received and sent.
LEMMA ForwardEvents ==
    ASSUME TypeOK, TypeOK', EventsInv, Forward
    PROVE  EventsInv'
<1>1. PICK f \in DOMAIN forwarder :
         /\ forwarder[f] <= published
         /\ Write("event", Received(forwarder[f]))
         /\ forwarder' = [forwarder EXCEPT ![f] = Received(@) + 1]
      BY DEF Forward
<1> DEFINE n == Received(forwarder[f])
<1>2. /\ n \in Nat /\ forwarder[f] \in Nat
      /\ forwarder[f] <= n /\ n <= published
  <2>1. forwarder[f] \in 1..(MaxEvents + 1)
    <3>1. forwarder \in Seq(1..(MaxEvents + 1)) /\ f \in DOMAIN forwarder
          BY <1>1 DEF TypeOK
    <3>2. \A g \in DOMAIN forwarder : forwarder[g] \in 1..(MaxEvents + 1)
          BY <3>1, ConnectionAssumption
    <3>3. QED BY <3>1, <3>2
  <2>2. n \in 1..MaxEvents /\ forwarder[f] <= n /\ n <= published
        BY <1>1, <2>1, ReceivedType
  <2>3. QED BY <2>1, <2>2, ConnectionAssumption
<1>3. f = 1 /\ DOMAIN forwarder = {1} /\ Len(forwarder) = 1
  <2>1. Len(forwarder) \in Nat /\ DOMAIN forwarder = 1..Len(forwarder)
        BY SMTT(30) DEF TypeOK
  <2>2. QED BY <2>1 DEF EventsInv
<1>4. DOMAIN forwarder' = {1} /\ forwarder'[1] = n + 1 /\ Len(forwarder') = 1
      BY <1>1, <1>3 DEF TypeOK
<1>5. /\ Len(toClient) \in Nat /\ DOMAIN toClient = 1..Len(toClient)
      /\ DOMAIN toClient' = 1..(Len(toClient) + 1)
      /\ \A i \in 1..Len(toClient) : toClient'[i] = toClient[i]
      /\ toClient'[Len(toClient) + 1].id = n
      BY SMTT(30), <1>1 DEF TypeOK, Write
<1>6. UNCHANGED <<published, seen>>
      BY DEF Forward, clientVars
<1>7. seen < forwarder[1] /\ seen \in Nat /\ published \in Nat
      BY <1>3, ConnectionAssumption DEF EventsInv, TypeOK
<1>8. ASSUME NEW i \in 1..Len(toClient), toClient'[i].is = "event"
      PROVE  /\ toClient'[i].id \in Nat
             /\ toClient'[i].id > seen /\ toClient'[i].id <= published
             /\ toClient'[i].id < forwarder[1]
  <2>1. toClient[i] \in Line /\ toClient'[i] = toClient[i]
    <3>1. toClient \in Seq(Line)
          BY DEF TypeOK
    <3>2. QED BY <1>5, <3>1
  <2>2. toClient[i].id \in Nat
        BY <1>8, <2>1, LineType, ConnectionAssumption
  <2>3. /\ toClient[i].id > seen /\ toClient[i].id <= published
        /\ toClient[i].id < forwarder[1]
        BY <1>3, <1>5, <1>8, <2>1 DEF EventsInv, EventsInOrder
  <2>4. QED BY <2>1, <2>2, <2>3
<1>9. \A i \in DOMAIN toClient' : toClient'[i].is = "event" =>
         /\ toClient'[i].id > seen' /\ toClient'[i].id <= published'
         /\ toClient'[i].id < n + 1
  <2>1. SUFFICES ASSUME NEW i \in DOMAIN toClient', toClient'[i].is = "event"
                 PROVE  /\ toClient'[i].id > seen /\ toClient'[i].id <= published
                        /\ toClient'[i].id < n + 1
        BY <1>6
  <2>2. CASE i \in 1..Len(toClient)
        BY <1>2, <1>3, <1>8, <2>1, <2>2
  <2>3. CASE i = Len(toClient) + 1
        BY <1>2, <1>3, <1>5, <1>7, <2>3
  <2>4. QED BY <1>5, <2>2, <2>3
<1>10. \A i, j \in DOMAIN toClient' :
          i < j /\ toClient'[i].is = "event" /\ toClient'[j].is = "event"
             => toClient'[i].id < toClient'[j].id
  <2>1. SUFFICES ASSUME NEW i \in DOMAIN toClient', NEW j \in DOMAIN toClient', i < j,
                        toClient'[i].is = "event", toClient'[j].is = "event"
                 PROVE  toClient'[i].id < toClient'[j].id
        OBVIOUS
  <2>2. i \in 1..Len(toClient)
        BY <1>5, <2>1
  <2>3. CASE j \in 1..Len(toClient)
    <3>1. toClient'[i] = toClient[i] /\ toClient'[j] = toClient[j]
          BY <1>5, <2>2, <2>3
    <3>2. QED BY <1>5, <2>1, <2>2, <2>3, <3>1 DEF EventsInv, EventsInOrder
  <2>4. CASE j = Len(toClient) + 1
    <3>1. toClient'[j].id = n
          BY <1>5, <2>4
    <3>2. toClient'[i].id \in Nat /\ toClient'[i].id < forwarder[1]
          BY <1>8, <2>1, <2>2
    <3>3. QED BY <1>2, <1>3, <3>1, <3>2
  <2>5. QED BY <1>5, <2>3, <2>4
<1>11. seen' < n + 1 /\ seen' <= published'
       BY <1>2, <1>3, <1>6, <1>7
<1>12. EventsInOrder'
       BY <1>9, <1>10 DEF EventsInOrder
<1>13. QED BY <1>4, <1>9, <1>11, <1>12 DEF EventsInv

\* A task that starts to forward receives what is published from then on.
LEMMA SubscribeEvents ==
    ASSUME TypeOK, TypeOK', EventsInv, Subscribe
    PROVE  EventsInv'
<1>1. UNCHANGED <<toClient, published, seen>>
      BY DEF Subscribe, clientVars
<1>2. CASE forwarder' = forwarder
      BY <1>1, <1>2, NoneRead DEF TypeOK
<1>3. CASE forwarder' = <<published + 1>>
  <2>1. DOMAIN forwarder' = {1} /\ forwarder'[1] = published + 1 /\ Len(forwarder') = 1
        BY <1>3
  <2>2. \A i \in DOMAIN toClient : toClient[i].is = "event" =>
           toClient[i].id < published + 1
    <3>1. SUFFICES ASSUME NEW i \in DOMAIN toClient, toClient[i].is = "event"
                   PROVE  toClient[i].id < published + 1
          OBVIOUS
    <3>2. toClient[i] \in Line
          BY SMTT(30) DEF TypeOK
    <3>3. published \in Nat
          BY ConnectionAssumption DEF TypeOK
    <3>4. toClient[i].id \in Nat
          BY <3>1, <3>2, LineType, ConnectionAssumption
    <3>5. QED BY <3>1, <3>3, <3>4 DEF EventsInv
  <2>3. seen < published + 1
        BY ConnectionAssumption DEF EventsInv, TypeOK
  <2>4. QED BY <1>1, <2>1, <2>2, <2>3 DEF EventsInv, EventsInOrder
<1>4. QED BY <1>2, <1>3 DEF Subscribe, Subscribed

\* Every step keeps the events in order.
LEMMA NextEvents ==
    ASSUME TypeOK, TypeOK', EventsInv, [Next]_vars
    PROVE  EventsInv'
<1>1. published \in Nat /\ published <= published
      BY ConnectionAssumption DEF TypeOK
<1>2. CASE UNCHANGED <<toClient, seen, forwarder, published>>
      BY <1>1, <1>2, NoneRead
<1>3. CASE Publish
      BY <1>1, <1>3, NoneRead DEF Publish, clientVars
<1>4. CASE Close
      BY <1>1, <1>4, NoneRead DEF Close, clientVars
<1>5. CASE Answer
  <2>1. PICK s \in serving :
           Write(IF sent[s[1]] = "stream" THEN "done" ELSE "reply", s[1])
        BY <1>5 DEF Answer
  <2>2. s[1] \in Request
        BY DEF TypeOK
  <2>3. UNCHANGED <<published, forwarder, seen>>
        BY <1>5 DEF Answer, clientVars
  <2>4. QED BY <2>1, <2>2, <2>3, LineType, OneMoreLine
<1>6. CASE StreamLine
  <2>1. PICK s \in serving : Write("line", s[1])
        BY <1>6 DEF StreamLine
  <2>2. s[1] \in Request
        BY DEF TypeOK
  <2>3. UNCHANGED <<published, forwarder, seen>>
        BY <1>6 DEF StreamLine, clientVars
  <2>4. QED BY <2>1, <2>2, <2>3, LineType, OneMoreLine
<1>7. CASE Forward
      BY <1>7, ForwardEvents
<1>8. CASE Subscribe
      BY <1>8, SubscribeEvents
<1>9. CASE ReadAnswer
      BY <1>9, ReadFirst DEF ReadAnswer, daemonVars
<1>10. CASE ReadLine
  <2>1. UNCHANGED <<published, forwarder, seen>>
        BY <1>10 DEF ReadLine, daemonVars
  <2>2. \/ toClient # <<>> /\ toClient' = Tail(toClient)
        \/ UNCHANGED toClient
        BY <1>10 DEF ReadLine
  <2>3. QED BY <1>1, <2>1, <2>2, ReadFirst, NoneRead
<1>11. CASE Poll
  <2>1. UNCHANGED <<published, forwarder>>
        BY <1>11 DEF Poll, daemonVars
  <2>2. \/ /\ toClient # <<>> /\ toClient' = Tail(toClient)
           /\ \/ seen' = seen
              \/ Head(toClient).is = "event" /\ seen' = Head(toClient).id
        \/ UNCHANGED <<toClient, seen>>
        BY <1>11 DEF Poll
  <2>3. QED BY <1>1, <2>1, <2>2, ReadFirst, NoneRead
<1>12. CASE Tear
  <2>1. /\ UNCHANGED <<published, forwarder, seen>> /\ toClient \in Seq(Line)
        /\ toClient # <<>>
        /\ toClient' = [toClient EXCEPT ![1] = [is |-> "torn", id |-> 0]]
        BY <1>12 DEF Tear, daemonVars, clientVars, TypeOK
  <2>2. 1 \in DOMAIN toClient
        BY <2>1
  <2>3. /\ Len(toClient') = Len(toClient) - 0
        /\ \A i \in DOMAIN toClient' :
              toClient'[i] = toClient[i + 0] \/ toClient'[i].is = "torn"
        BY <2>1, <2>2
  <2>4. QED BY <1>1, <2>1, <2>3, FewerEvents
<1>13. QED BY <1>2, <1>3, <1>4, <1>5, <1>6, <1>7, <1>8, <1>9, <1>10, <1>11, <1>12
           DEF Next, Daemon, Reads, vars, clientVars, daemonVars, Handshake, Take,
               SendCommand, SendStream, GiveUp, Abandon

\* Events reach a client in the order in which they were published and none
\* comes twice: a connection has at most one forwarding task, and it never goes
\* back, also when it lags behind the bus.
THEOREM EventsComeInOrder == Spec => []EventsInOrder
<1>1. Init => EventsInv
      BY ConnectionAssumption DEF Init, EventsInv, EventsInOrder
<1>2. TypeOK /\ EventsInv /\ [Next]_vars => EventsInv'
      BY NextType, NextEvents
<1>3. EventsInv => EventsInOrder
      BY DEF EventsInv
<1>4. QED BY <1>1, <1>2, <1>3, TypeCorrect, PTL DEF Spec
-----------------------------------------------------------------------------
(***************************************************************************)
(* One request at a time.                                                  *)
(***************************************************************************)

\* What the command line client knows of its connection, in one place.
LEMMA SyncFacts ==
    ASSUME TypeOK, SyncInv, kind = "cli"
    PROVE  /\ Len(sent) \in Nat /\ taken \in Nat
           /\ waiting \in 0..Len(sent) /\ stream \in 0..Len(sent)
           /\ trouble \in {"none", "timeout", "closed"}
           /\ forwarder = <<>>
           /\ \A r \in DOMAIN sent : sent[r] # "subscribe"
           /\ \A i \in DOMAIN toClient : toClient[i].is \notin {"event", "torn"}
           /\ waiting = 0 \/ stream = 0
           /\ Idle <=> waiting = 0 /\ stream = 0
           /\ ~Idle => trouble = "none"
           /\ trouble = "none" => LastRequestOnly
BY DEF TypeOK, SyncInv, Idle

\* A request goes out when the one before is done with.
LEMMA SendSync ==
    ASSUME TypeOK, SyncInv, kind = "cli", SendCommand \/ SendStream
    PROVE  SyncInv'
<1>1. PICK sort \in {"command", "subscribe", "stream"} :
         /\ Send(sort)
         /\ sort # "subscribe"
         /\ \/ sort = "stream" /\ stream' = Len(sent') /\ waiting' = waiting
            \/ sort = "command" /\ waiting' = Len(sent') /\ stream' = stream
         /\ trouble' \in {trouble, "none"}
         /\ UNCHANGED <<daemonVars, toClient, kind>>
      BY DEF SendCommand, SendStream
<1>2. /\ trouble = "none" /\ Idle /\ sent' = Append(sent, sort)
      BY <1>1 DEF Send, Goes
<1>3. /\ waiting = 0 /\ stream = 0 /\ LastRequestOnly
      BY <1>2, SyncFacts
<1>4. /\ serving = {} /\ toClient = <<>> /\ taken = Len(sent)
      BY <1>2, <1>3 DEF LastRequestOnly
<1>5. /\ Len(sent') = Len(sent) + 1 /\ sent'[Len(sent')] = sort
      /\ DOMAIN sent' = 1..(Len(sent) + 1)
      /\ \A r \in 1..Len(sent) : sent'[r] = sent[r]
      /\ Len(sent) \in Nat
      BY <1>2 DEF TypeOK
<1>6. /\ serving' = {} /\ toClient' = <<>> /\ taken' = Len(sent') - 1
      /\ kind' = "cli" /\ forwarder' = <<>> /\ trouble' = "none"
      BY <1>1, <1>2, <1>4, <1>5, SyncFacts DEF daemonVars
<1>7. \A r \in DOMAIN sent' : sent'[r] # "subscribe"
  <2>1. \A r \in 1..Len(sent) : sent[r] # "subscribe"
        BY SyncFacts DEF TypeOK
  <2>2. QED BY <1>1, <1>5, <2>1
<1>8. /\ waiting' \in {0, Len(sent')} /\ stream' \in {0, Len(sent')}
      /\ waiting' = 0 \/ stream' = 0
      /\ waiting' # 0 => sent'[waiting'] = "command"
      /\ ~(waiting' = 0 /\ stream' = 0)
      BY <1>1, <1>3, <1>5
<1>9. ~Idle'
      BY <1>6, <1>8 DEF Idle
<1>10. LastRequestOnly'
       BY <1>5, <1>6, <1>8, <1>9 DEF LastRequestOnly
<1>11. QED BY <1>6, <1>7, <1>8, <1>9, <1>10 DEF SyncInv

\* Only the last request is taken.
LEMMA TakeSync ==
    ASSUME TypeOK, SyncInv, kind = "cli", Take
    PROVE  SyncInv'
<1>1. PICK n \in IF sent[taken + 1] = "stream" THEN 0..MaxLines ELSE {0} :
         serving' = serving \cup {<<taken + 1, n>>}
      BY DEF Take
<1>2. /\ taken < Len(sent) /\ taken' = taken + 1
      /\ UNCHANGED <<clientVars, sent, toClient, forwarder>>
      BY DEF Take
<1>3. UNCHANGED <<kind, waiting, stream, trouble>>
      BY <1>2 DEF clientVars
<1>4. ASSUME trouble = "none"
      PROVE  LastRequestOnly'
  <2>1. LastRequestOnly /\ Len(sent) \in Nat /\ taken \in Nat
        BY <1>4, SyncFacts
  <2>2. /\ taken + 1 = Len(sent) /\ serving = {} /\ toClient = <<>> /\ ~Idle
        /\ waiting \in {0, Len(sent)} /\ stream \in {0, Len(sent)}
        /\ waiting # 0 => sent[waiting] = "command"
        BY <1>2, <2>1 DEF LastRequestOnly
  <2>3. waiting # 0 => n = 0
        BY <1>1, <2>2
  <2>4. /\ taken' = Len(sent') /\ toClient' = <<>> /\ ~Idle'
        /\ serving' = {<<Len(sent'), n>>}
        /\ waiting' \in {0, Len(sent')} /\ stream' \in {0, Len(sent')}
        /\ waiting' # 0 => sent'[waiting'] = "command" /\ n = 0
        BY <1>1, <1>2, <1>3, <2>2, <2>3 DEF Idle
  <2>5. QED BY <2>4 DEF LastRequestOnly
<1>5. QED BY <1>2, <1>3, <1>4 DEF SyncInv, Idle

\* What is written belongs to the last request and, unless it is a line of a
\* stream, ends it.
LEMMA WriteSync ==
    ASSUME TypeOK, SyncInv, kind = "cli",
           NEW s \in serving, NEW is \in {"reply", "line", "done"},
           Write(is, s[1]),
           UNCHANGED <<clientVars, sent, taken, forwarder>>,
           \/ is # "line" /\ serving' = serving \ {s}
           \/ is = "line" /\ s[2] > 0 /\ serving' = (serving \ {s}) \cup {<<s[1], s[2] - 1>>}
    PROVE  SyncInv'
<1>1. UNCHANGED <<kind, waiting, stream, trouble, sent, taken, forwarder>>
      BY DEF clientVars
<1>2. /\ Len(toClient) \in Nat /\ DOMAIN toClient = 1..Len(toClient)
      /\ Len(toClient') = Len(toClient) + 1
      /\ DOMAIN toClient' = 1..(Len(toClient) + 1)
      /\ \A i \in 1..Len(toClient) : toClient'[i] = toClient[i]
      /\ toClient'[Len(toClient) + 1].id = s[1]
      /\ toClient'[Len(toClient) + 1].is = is
      BY DEF Write, TypeOK
<1>3. \A i \in DOMAIN toClient' : toClient'[i].is \notin {"event", "torn"}
  <2>1. \A i \in 1..Len(toClient) : toClient[i].is \notin {"event", "torn"}
        BY <1>2, SyncFacts
  <2>2. QED BY <1>2, <2>1
<1>4. ASSUME trouble = "none"
      PROVE  LastRequestOnly'
  <2>1. LastRequestOnly
        BY <1>4, SyncFacts
  <2>2. /\ s[1] = Len(sent) /\ serving = {s} /\ taken = Len(sent) /\ ~Idle
        /\ waiting # 0 => s[2] = 0
        BY <2>1 DEF LastRequestOnly
  <2>3. \A i \in 1..Len(toClient) : toClient[i].id = Len(sent) /\ toClient[i].is = "line"
        BY <1>2, <2>1, <2>2 DEF LastRequestOnly
  <2>4. \A i \in DOMAIN toClient' :
           /\ toClient'[i].id = Len(sent)
           /\ toClient'[i].is # "line" => i = Len(toClient') /\ is # "line"
        BY <1>2, <2>2, <2>3
  <2>5. waiting # 0 => \A i \in DOMAIN toClient' : toClient'[i].is # "line"
    <3>1. SUFFICES ASSUME waiting # 0
                   PROVE  \A i \in DOMAIN toClient' : toClient'[i].is # "line"
          OBVIOUS
    <3>2. is # "line"
          BY <2>2, <3>1
    <3>3. \A i \in 1..Len(toClient) : toClient[i].is # "line"
          BY <1>2, <2>1, <3>1 DEF LastRequestOnly
    <3>4. QED BY <1>2, <3>2, <3>3
  <2>6. /\ is # "line" => serving' = {}
        /\ is = "line" => serving' = {<<s[1], s[2] - 1>>} /\ waiting = 0
    <3>1. is = "line" => waiting = 0
      <4>1. is = "line" => s[2] > 0
            OBVIOUS
      <4>2. QED BY <2>2, <4>1
    <3>2. QED BY <2>2, <3>1
  <2>7. \A t \in serving' : /\ t[1] = Len(sent')
                            /\ waiting' # 0 => t[2] = 0
                            /\ \A q \in serving' : q = t
        BY <1>1, <2>2, <2>6
  <2>8. /\ waiting' \in {0, Len(sent')} /\ stream' \in {0, Len(sent')}
        /\ taken' = Len(sent') /\ ~Idle'
        /\ waiting' # 0 => sent'[waiting'] = "command"
        BY <1>1, <2>1, <2>2 DEF LastRequestOnly, Idle
  <2>9. \A i \in DOMAIN toClient' :
           /\ toClient'[i].id = Len(sent')
           /\ waiting' # 0 => toClient'[i].is # "line"
           /\ toClient'[i].is # "line" => i = Len(toClient') /\ serving' = {}
        BY <1>1, <2>4, <2>5, <2>6
  <2>10. QED BY <2>7, <2>8, <2>9 DEF LastRequestOnly
<1>5. QED BY <1>1, <1>3, <1>4 DEF SyncInv, Idle

\* The line that is read belongs to the last request; the one that ends it
\* leaves nothing behind.
LEMMA ReadSync ==
    ASSUME TypeOK, TypeOK', SyncInv, kind = "cli", ~Idle, toClient # <<>>,
           toClient' = Tail(toClient), UNCHANGED <<daemonVars, kind, sent>>,
           trouble' = "none", waiting' = 0,
           \/ stream' = stream /\ waiting = 0
           \/ stream' = 0 /\ Head(toClient).is # "line"
    PROVE  SyncInv'
<1>1. /\ LastRequestOnly
      /\ Len(sent) \in Nat
      /\ forwarder = <<>>
      /\ \A r \in DOMAIN sent : sent[r] # "subscribe"
      /\ \A i \in DOMAIN toClient : toClient[i].is \notin {"event", "torn"}
      BY SyncFacts
<1>2. /\ Head(toClient) = toClient[1] /\ Len(toClient) \in Nat \ {0}
      /\ DOMAIN toClient = 1..Len(toClient)
      /\ Len(toClient') = Len(toClient) - 1
      /\ DOMAIN toClient' = 1..Len(toClient')
      /\ \A i \in 1..Len(toClient') : toClient'[i] = toClient[i + 1]
  <2>1. toClient \in Seq(Line)
        BY DEF TypeOK
  <2>2. /\ Head(toClient) = toClient[1] /\ Len(toClient) \in Nat \ {0}
        /\ Len(Tail(toClient)) = Len(toClient) - 1
        /\ \A i \in 1..Len(Tail(toClient)) : Tail(toClient)[i] = toClient[i + 1]
        BY <2>1, Read
  <2>3. DOMAIN toClient = 1..Len(toClient) /\ DOMAIN toClient' = 1..Len(toClient')
        BY DEF TypeOK
  <2>4. QED BY <2>2, <2>3
<1>3. UNCHANGED <<kind, sent, taken, serving, forwarder>>
      BY DEF daemonVars
<1>4. \A i \in DOMAIN toClient' :
         /\ i + 1 \in DOMAIN toClient /\ toClient'[i] = toClient[i + 1]
         /\ toClient'[i].is \notin {"event", "torn"}
         /\ toClient'[i].id = Len(sent)
         /\ toClient'[i].is # "line" => i = Len(toClient') /\ serving = {}
  <2>1. SUFFICES ASSUME NEW i \in DOMAIN toClient'
                 PROVE  /\ i + 1 \in DOMAIN toClient /\ toClient'[i] = toClient[i + 1]
                        /\ toClient'[i].is \notin {"event", "torn"}
                        /\ toClient'[i].id = Len(sent)
                        /\ toClient'[i].is # "line" => i = Len(toClient') /\ serving = {}
        OBVIOUS
  <2>2. i + 1 \in DOMAIN toClient /\ toClient'[i] = toClient[i + 1]
        BY <1>2
  <2>3. /\ toClient[i + 1].id = Len(sent)
        /\ toClient[i + 1].is # "line" => i + 1 = Len(toClient) /\ serving = {}
        BY <1>1, <2>2 DEF LastRequestOnly
  <2>4. QED BY <1>1, <1>2, <2>2, <2>3
<1>5. taken = Len(sent) /\ stream \in {0, Len(sent)}
      BY <1>1 DEF LastRequestOnly
<1>6. Idle' => serving = {} /\ toClient' = <<>>
  <2>1. CASE stream' = stream /\ waiting = 0
    <3>1. stream # 0
          BY <2>1, SyncFacts
    <3>2. QED BY <1>3, <2>1, <3>1 DEF Idle
  <2>2. CASE stream' = 0 /\ Head(toClient).is # "line"
    <3>1. 1 \in DOMAIN toClient /\ toClient[1].is # "line"
          BY <1>2, <2>2
    <3>2. 1 = Len(toClient) /\ serving = {}
          BY <1>1, <3>1 DEF LastRequestOnly
    <3>3. Len(toClient') = 0
      <4>1. Len(toClient') = Len(toClient) - 1
            BY <1>2
      <4>2. QED BY <3>2, <4>1
    <3>4. toClient' \in Seq(Line)
          BY DEF TypeOK
    <3>5. QED BY <3>2, <3>3, <3>4
  <2>3. QED BY <2>1, <2>2
<1>7. \A s \in serving' : s[1] = Len(sent') /\ \A q \in serving' : q = s
      BY <1>1, <1>3 DEF LastRequestOnly
<1>8. LastRequestOnly'
  <2>1. /\ waiting' \in {0, Len(sent')} /\ stream' \in {0, Len(sent')}
        /\ taken' = Len(sent')
        BY <1>3, <1>5
  <2>2. Idle' => serving' = {} /\ toClient' = <<>>
        BY <1>3, <1>6
  <2>3. \A i \in DOMAIN toClient' :
           /\ toClient'[i].id = Len(sent')
           /\ toClient'[i].is # "line" => i = Len(toClient') /\ serving' = {}
        BY <1>3, <1>4
  <2>4. QED BY <1>7, <2>1, <2>2, <2>3 DEF LastRequestOnly
<1>9. /\ kind' = "cli" /\ forwarder' = <<>>
      /\ \A r \in DOMAIN sent' : sent'[r] # "subscribe"
      /\ \A i \in DOMAIN toClient' : toClient'[i].is \notin {"event", "torn"}
      BY <1>1, <1>3, <1>4
<1>10. QED BY <1>8, <1>9 DEF SyncInv

\* Every step of the command line client and its daemon keeps them in step.
LEMMA NextSync ==
    ASSUME TypeOK, TypeOK', SyncInv, [Next]_vars
    PROVE  SyncInv'
<1>1. SUFFICES ASSUME kind = "cli", kind' = "cli"
               PROVE  SyncInv'
  <2>1. kind' = kind
        BY DEF Next, Daemon, Reads, vars, clientVars, daemonVars, Handshake, Publish,
               Close, Take, Subscribe, Answer, StreamLine, Forward, SendCommand,
               SendStream, ReadAnswer, GiveUp, ReadLine, Poll, Tear, Abandon
  <2>2. QED BY <2>1 DEF SyncInv
<1>2. CASE UNCHANGED <<clientVars, sent, taken, serving, forwarder, toClient>>
      BY <1>1, <1>2 DEF SyncInv, LastRequestOnly, Idle, clientVars
<1>3. CASE Close
  <2>1. /\ UNCHANGED <<kind, waiting, stream, trouble, sent, taken, toClient>>
        /\ serving' = {} /\ forwarder' = <<>>
        BY <1>3 DEF Close, clientVars
  <2>2. LastRequestOnly => LastRequestOnly'
        BY <2>1 DEF LastRequestOnly, Idle
  <2>3. QED BY <1>1, <2>1, <2>2 DEF SyncInv, Idle
<1>4. CASE Take
      BY <1>1, <1>4, TakeSync
<1>5. CASE Subscribe
  <2>1. taken + 1 \in DOMAIN sent /\ sent[taken + 1] = "subscribe"
        BY <1>5 DEF Subscribe, TypeOK
  <2>2. QED BY <1>1, <2>1, SyncFacts
<1>6. CASE Answer
  <2>1. PICK s \in serving :
           /\ Write(IF sent[s[1]] = "stream" THEN "done" ELSE "reply", s[1])
           /\ serving' = serving \ {s}
        BY <1>6 DEF Answer, EndsAt
  <2>2. UNCHANGED <<clientVars, sent, taken, forwarder>>
        BY <1>6 DEF Answer
  <2>3. QED BY <1>1, <2>1, <2>2, WriteSync
<1>7. CASE StreamLine
  <2>1. PICK s \in serving :
           /\ s[2] > 0 /\ Write("line", s[1])
           /\ serving' = (serving \ {s}) \cup {<<s[1], s[2] - 1>>}
        BY <1>7 DEF StreamLine
  <2>2. UNCHANGED <<clientVars, sent, taken, forwarder>>
        BY <1>7 DEF StreamLine
  <2>3. QED BY <1>1, <2>1, <2>2, WriteSync
<1>8. CASE Forward
  <2>1. forwarder = <<>> /\ DOMAIN forwarder # {}
        BY <1>1, <1>8, SyncFacts DEF Forward
  <2>2. QED BY <2>1
<1>9. CASE SendCommand \/ SendStream
      BY <1>1, <1>9, SendSync
<1>10. CASE ReadAnswer
  <2>1. /\ waiting # 0 /\ toClient # <<>> /\ toClient' = Tail(toClient)
        /\ waiting' = 0 /\ UNCHANGED <<daemonVars, kind, sent, stream>>
        BY <1>10 DEF ReadAnswer
  <2>2. ~Idle /\ stream = 0
        BY <1>1, <2>1, SyncFacts
  <2>3. LastRequestOnly /\ waiting = Len(sent)
    <3>1. LastRequestOnly
          BY <1>1, <2>2, SyncFacts
    <3>2. QED BY <2>1, <3>1 DEF LastRequestOnly
  <2>4. 1 \in DOMAIN toClient /\ Head(toClient) = toClient[1]
    <3>1. PICK S : toClient \in Seq(S)
          BY DEF TypeOK
    <3>2. Len(toClient) \in Nat \ {0} /\ DOMAIN toClient = 1..Len(toClient)
          BY <2>1, <3>1
    <3>3. QED BY <3>1, <3>2
  <2>5. /\ Head(toClient).id = waiting /\ Head(toClient).is # "line"
        /\ Head(toClient).is \notin {"event", "torn"}
    <3>1. toClient[1].id = Len(sent) /\ toClient[1].is # "line"
          BY <2>1, <2>3, <2>4 DEF LastRequestOnly
    <3>2. toClient[1].is \notin {"event", "torn"}
          BY <1>1, <2>4, SyncFacts
    <3>3. QED BY <2>3, <2>4, <3>1, <3>2
  <2>6. trouble' = "none"
        BY <1>10, <2>5 DEF ReadAnswer, Matches
  <2>7. QED BY <1>1, <2>1, <2>2, <2>5, <2>6, ReadSync
<1>11. CASE GiveUp
  <2>1. /\ UNCHANGED <<kind, stream, sent, forwarder, toClient>> /\ waiting # 0
        /\ waiting' = 0 /\ trouble' \in {"timeout", "closed"}
        BY <1>11 DEF GiveUp, daemonVars
  <2>2. stream = 0
        BY <1>1, <2>1, SyncFacts
  <2>3. QED BY <1>1, <2>1, <2>2, SyncFacts DEF SyncInv, Idle
<1>12. CASE ReadLine
  <2>1. /\ stream # 0 /\ UNCHANGED <<daemonVars, kind, sent, waiting>>
        BY <1>12 DEF ReadLine
  <2>2. /\ ~Idle /\ waiting = 0 /\ trouble = "none"
        BY <1>1, <2>1, SyncFacts
  <2>3. CASE toClient = <<>>
    <3>1. /\ toClient' = toClient /\ stream' = 0 /\ trouble' \in {"timeout", "closed"}
          BY <1>12, <2>3 DEF ReadLine
    <3>2. /\ forwarder' = forwarder /\ kind' = kind /\ sent' = sent /\ waiting' = 0
          BY <2>1, <2>2 DEF daemonVars
    <3>3. /\ forwarder' = <<>>
          /\ \A r \in DOMAIN sent' : sent'[r] # "subscribe"
          /\ \A i \in DOMAIN toClient' : toClient'[i].is \notin {"event", "torn"}
          BY <1>1, <3>1, <3>2, SyncFacts
    <3>4. Idle' /\ trouble' # "none"
          BY <3>1, <3>2 DEF Idle
    <3>5. QED BY <3>1, <3>2, <3>3, <3>4 DEF SyncInv
  <2>4. CASE toClient # <<>>
    <3>1. 1 \in DOMAIN toClient /\ Head(toClient) = toClient[1]
      <4>1. toClient \in Seq(Line)
            BY DEF TypeOK
      <4>2. Len(toClient) \in Nat \ {0} /\ Head(toClient) = toClient[1]
            BY <2>4, <4>1, Read
      <4>3. QED BY <4>1, <4>2
    <3>2. LastRequestOnly
          BY <1>1, <2>2, SyncFacts
    <3>3. stream = Len(sent) /\ toClient[1].id = Len(sent)
          BY <2>1, <3>1, <3>2 DEF LastRequestOnly
    <3>4. toClient[1].is # "event"
          BY <1>1, <3>1, SyncFacts
    <3>5. /\ toClient' = Tail(toClient) /\ UNCHANGED trouble
          /\ stream' = IF Head(toClient).is = "done" THEN 0 ELSE stream
          BY <1>12, <2>4, <3>1, <3>3, <3>4 DEF ReadLine
    <3>6. \/ stream' = stream /\ waiting = 0
          \/ stream' = 0 /\ Head(toClient).is # "line"
          BY <2>2, <3>5
    <3>7. QED BY <1>1, <2>1, <2>2, <2>4, <3>5, <3>6, ReadSync
  <2>5. QED BY <2>3, <2>4
<1>13. CASE Poll \/ Tear \/ Abandon
      BY <1>1, <1>13 DEF Poll, Tear, Abandon
<1>14. QED BY <1>2, <1>3, <1>4, <1>5, <1>6, <1>7, <1>8, <1>9, <1>10, <1>11, <1>12,
              <1>13 DEF Next, Daemon, Reads, vars, daemonVars, Handshake, Publish

\* The command line client never reads a line it did not ask for: it exits with
\* its first failure, and until then its requests and the daemon's answers take
\* turns.
THEOREM ClientStaysInSync == Spec => []InSync
<1>1. Init => SyncInv
  <2>1. SUFFICES ASSUME Init PROVE SyncInv
        OBVIOUS
  <2>2. /\ sent = <<>> /\ toClient = <<>> /\ taken = 0 /\ serving = {}
        /\ forwarder = <<>> /\ waiting = 0 /\ stream = 0 /\ trouble = "none"
        BY <2>1 DEF Init
  <2>3. QED BY <2>2 DEF SyncInv, LastRequestOnly, Idle
<1>2. TypeOK /\ SyncInv /\ [Next]_vars => SyncInv'
      BY NextType, NextSync
<1>3. SyncInv => InSync
      BY DEF SyncInv, InSync
<1>4. QED BY <1>1, <1>2, <1>3, TypeCorrect, PTL DEF Spec

-----------------------------------------------------------------------------
(***************************************************************************)
(* Logs: sequences of lines and of commits.                                *)
(***************************************************************************)

\* The last line, when one is written or read.
LEMMA LastLine ==
    ASSUME NEW S, NEW q \in Seq(S), NEW x \in S
    PROVE  /\ Last(Append(q, x)) = x
           /\ q # <<>> /\ Tail(q) # <<>> => Last(Tail(q)) = Last(q)
           /\ q # <<>> /\ Tail(q) = <<>> => Last(q) = Head(q)
           /\ q # <<>> => Last(q) \in S
<1>1. Last(Append(q, x)) = x
      BY Written DEF Last
<1>2. ASSUME q # <<>>
      PROVE  /\ Tail(q) # <<>> => Last(Tail(q)) = Last(q)
             /\ Tail(q) = <<>> => Last(q) = Head(q)
             /\ Last(q) \in S
  <2>1. /\ Len(q) \in Nat \ {0} /\ Len(Tail(q)) = Len(q) - 1
        /\ \A i \in 1..Len(Tail(q)) : Tail(q)[i] = q[i + 1]
        /\ Tail(q) \in Seq(S) /\ Head(q) = q[1]
        BY <1>2, Read
  <2>2. Last(q) \in S
        BY <2>1 DEF Last
  <2>3. CASE Tail(q) = <<>>
    <3>0. Len(<<>>) = 0
          OBVIOUS
    <3>1. Len(q) = 1
      <4>1. Len(Tail(q)) = 0
            BY <2>3, <3>0, Zenon
      <4>2. QED BY <2>1, <4>1
    <3>2. Last(q) = Head(q)
          BY <2>1, <3>1 DEF Last
    <3>3. QED BY <2>2, <2>3, <3>2
  <2>4. CASE Tail(q) # <<>>
    <3>1. Len(Tail(q)) \in 1..Len(Tail(q)) /\ Len(Tail(q)) + 1 = Len(q)
          BY <2>1, <2>4
    <3>2. QED BY <2>1, <2>2, <2>4, <3>1 DEF Last
  <2>5. QED BY <2>3, <2>4
<1>3. QED BY <1>1, <1>2

\* A prefix, position by position.
LEMMA PrefixIs ==
    ASSUME NEW S, NEW s \in Seq(S), NEW t \in Seq(S)
    PROVE  IsPrefix(s, t) <=> Len(s) <= Len(t) /\ \A i \in 1..Len(s) : s[i] = t[i]
<1>1. SubSeq(s, 1, Len(s)) = s
      OBVIOUS
<1>2. ASSUME Len(s) <= Len(t)
      PROVE  /\ SubSeq(t, 1, Len(s)) \in Seq(S) /\ Len(SubSeq(t, 1, Len(s))) = Len(s)
             /\ \A i \in 1..Len(s) : SubSeq(t, 1, Len(s))[i] = t[i]
      BY <1>2
<1>3. ASSUME Len(s) <= Len(t)
      PROVE  s = SubSeq(t, 1, Len(s)) <=> \A i \in 1..Len(s) : s[i] = t[i]
      BY <1>2, <1>3
<1>4. QED BY <1>1, <1>3 DEF IsPrefix

\* A commit has those it is made on top of below it.
LEMMA PrefixOfPrefix ==
    ASSUME NEW s \in Commit, NEW t \in Commit, NEW u \in Commit,
           IsPrefix(s, t), IsPrefix(t, u)
    PROVE  IsPrefix(s, u)
<1>1. /\ Len(s) <= Len(t) /\ \A i \in 1..Len(s) : s[i] = t[i]
      /\ Len(t) <= Len(u) /\ \A i \in 1..Len(t) : t[i] = u[i]
      BY PrefixIs DEF Commit
<1>2. Len(s) <= Len(u) /\ \A i \in 1..Len(s) : s[i] = u[i]
      BY <1>1 DEF Commit
<1>3. QED BY <1>2, PrefixIs DEF Commit

\* A commit is made on top of HEAD.
LEMMA PrefixOfNew ==
    ASSUME NEW t \in Commit, NEW x \in Run \X (1..MaxOfRun)
    PROVE  Append(t, x) \in Commit /\ IsPrefix(t, Append(t, x)) /\ IsPrefix(t, t)
<1>1. Append(t, x) \in Commit
      BY DEF Commit
<1>2. Len(t) <= Len(Append(t, x)) /\ \A i \in 1..Len(t) : t[i] = Append(t, x)[i]
      BY DEF Commit
<1>3. IsPrefix(t, Append(t, x))
  <2> DEFINE u == Append(t, x)
  <2> HIDE DEF u
  <2> QED BY <1>1, <1>2, PrefixIs DEF Commit, u
<1>4. IsPrefix(t, t)
      BY PrefixIs DEF Commit
<1>5. QED BY <1>1, <1>3, <1>4

\* Among tasks before another there is a last one.
LEMMA LastBefore ==
    ASSUME NEW S \in SUBSET Nat, S # {}, NEW n \in Nat, \A u \in S : u < n
    PROVE  \E u \in S : \A v \in S : v <= u
<1> DEFINE T == {m \in Nat : n - m \in S}
           R == OpToRel(<, Nat)
<1>1. T # {}
  <2>1. PICK u \in S : TRUE
        OBVIOUS
  <2>2. n - u \in Nat /\ n - (n - u) = u
        BY <2>1
  <2>3. n - u \in T
        BY <2>1, <2>2
  <2>4. QED BY <2>3
<1>2. IsWellFoundedOn(R, Nat)
      BY NatLessThanWellFounded
<1>3. T \subseteq Nat
      OBVIOUS
<1>4. \E x \in T : \A y \in T : <<y, x>> \notin R
  <2> HIDE DEF T, R
  <2> QED BY <1>1, <1>2, <1>3, WFMin
<1>5. PICK m \in T : \A k \in T : <<k, m>> \notin R
      BY <1>4
<1>6. \A k \in T : ~(k < m)
      BY <1>3, <1>5 DEF OpToRel
<1>7. ASSUME NEW v \in S
      PROVE  v <= n - m
  <2>1. n - v \in T
        BY <1>7
  <2>2. QED BY <1>6, <2>1
<1>8. QED BY <1>7

\* The last of the lines of a kind, if that is the last line.
LEMMA FoundLast ==
    ASSUME LogTypeOK, NEW t \in Task, NEW kd, file[t] # <<>>, Last(file[t]).kind = kd
    PROVE  OfKind(kd, t) # {} /\ Found(kd, t) = Last(file[t])
<1> DEFINE n == Len(file[t])
<1>1. file[t] \in Seq(LogLine)
      BY DEF LogTypeOK
<1>2. n \in Nat \ {0} /\ DOMAIN file[t] = 1..n
      BY <1>1
<1>3. n \in OfKind(kd, t) /\ OfKind(kd, t) \subseteq 1..n
      BY <1>2 DEF OfKind, Last
<1>4. Max(OfKind(kd, t)) = n
  <2> HIDE DEF n
  <2> QED BY <1>2, <1>3 DEF Max
<1>5. QED BY <1>3, <1>4 DEF Found, Last

-----------------------------------------------------------------------------
(***************************************************************************)
(* What the steps do.                                                      *)
(***************************************************************************)

\* The pipe of a row is changed.
LEMMA RowPipe ==
    ASSUME NEW row \in AgentRow, NEW p \in Seq(LogLine)
    PROVE  /\ row.task \in Task /\ row.pipe \in Seq(LogLine)
           /\ [row EXCEPT !.pipe = p] \in AgentRow
           /\ [row EXCEPT !.pipe = p].pipe = p
           /\ [row EXCEPT !.pipe = p].task = row.task
           /\ [row EXCEPT !.pipe = p].at = row.at
           /\ [row EXCEPT !.pipe = p].kept = row.kept
BY DEF AgentRow

\* What has become of a run is changed.
LEMMA RowAt ==
    ASSUME NEW row \in AgentRow,
           NEW x \in {"free", "live", "exited", "waited", "stored", "ended"}
    PROVE  /\ row.task \in Task /\ row.pipe \in Seq(LogLine)
           /\ [row EXCEPT !.at = x] \in AgentRow
           /\ [row EXCEPT !.at = x].pipe = row.pipe
           /\ [row EXCEPT !.at = x].task = row.task
           /\ [row EXCEPT !.at = x].at = x
           /\ [row EXCEPT !.at = x].kept = row.kept
BY DEF AgentRow

\* The exit code is changed.
LEMMA RowCode ==
    ASSUME NEW row \in AgentRow, NEW c \in {"zero", "nonzero"}
    PROVE  /\ [row EXCEPT !.code = c] \in AgentRow
           /\ [row EXCEPT !.code = c].pipe = row.pipe
           /\ [row EXCEPT !.code = c].task = row.task
           /\ [row EXCEPT !.code = c].at = row.at
           /\ [row EXCEPT !.code = c].kept = row.kept
BY DEF AgentRow

\* A row is inserted.
LEMMA SpawnEffect ==
    ASSUME LogTypeOK, NEW t \in Task, NEW k \in BOOLEAN, \E r \in Run : agent[r].at = "free",
           agent' = [agent EXCEPT ![NewRun] = NewRow(t, k)]
    PROVE  \E n \in Run :
              /\ agent[n].at = "free" /\ agent' \in [Run -> AgentRow]
              /\ agent'[n].task = t /\ agent'[n].at = "live" /\ agent'[n].pipe = <<>>
              /\ \A r \in Run : r # n => agent'[r] = agent[r]
<1>1. NewRun \in Run /\ agent[NewRun].at = "free"
      BY DEF NewRun
<1>2. /\ NewRow(t, k) \in AgentRow /\ NewRow(t, k).task = t
      /\ NewRow(t, k).at = "live" /\ NewRow(t, k).pipe = <<>>
  <2>1. <<>> \in Seq(LogLine)
        OBVIOUS
  <2>2. QED BY <2>1 DEF NewRow, AgentRow
<1>3. /\ agent' \in [Run -> AgentRow] /\ agent'[NewRun] = NewRow(t, k)
      /\ \A r \in Run : r # NewRun => agent'[r] = agent[r]
      BY <1>1, <1>2 DEF LogTypeOK
<1>4. QED BY <1>1, <1>2, <1>3

\* A line is printed.
LEMMA PrintsEffect ==
    ASSUME LogTypeOK, NEW r \in Run, NEW line \in LogLine, Prints(r, line)
    PROVE  /\ said' \in [Run -> Seq(LogLine)] /\ agent' \in [Run -> AgentRow]
           /\ said'[r] = Append(said[r], line)
           /\ agent'[r] = [agent[r] EXCEPT !.pipe = Append(agent[r].pipe, line)]
           /\ \A q \in Run : q # r => said'[q] = said[q] /\ agent'[q] = agent[q]
<1>1. said[r] \in Seq(LogLine) /\ agent[r].pipe \in Seq(LogLine)
      BY DEF LogTypeOK, AgentRow
<1>2. Append(said[r], line) \in Seq(LogLine) /\ Append(agent[r].pipe, line) \in Seq(LogLine)
      BY <1>1
<1>3. /\ said'[r] = Append(said[r], line) /\ \A q \in Run : q # r => said'[q] = said[q]
      /\ said' \in [Run -> Seq(LogLine)]
      BY <1>2 DEF Prints, LogTypeOK
<1>4. /\ agent'[r] = [agent[r] EXCEPT !.pipe = Append(agent[r].pipe, line)]
      /\ \A q \in Run : q # r => agent'[q] = agent[q]
      /\ agent' = [agent EXCEPT ![r] = [agent[r] EXCEPT !.pipe = Append(agent[r].pipe, line)]]
      BY DEF Prints, LogTypeOK
<1>5. [agent[r] EXCEPT !.pipe = Append(agent[r].pipe, line)] \in AgentRow
  <2>1. agent[r] \in AgentRow
        BY DEF LogTypeOK
  <2>2. QED BY <1>2, <2>1, RowPipe
<1>6. agent' \in [Run -> AgentRow]
      BY <1>4, <1>5 DEF LogTypeOK
<1>7. QED BY <1>3, <1>4, <1>6

\* A line is copied.
LEMMA CopyEffect ==
    ASSUME LogTypeOK, NEW r \in Run, CopyLine(r)
    PROVE  /\ file' \in [Task -> Seq(LogLine)] /\ agent' \in [Run -> AgentRow]
           /\ agent[r].at # "free" /\ agent[r].pipe # <<>> /\ agent[r].task \in Task
           /\ agent'[r] = [agent[r] EXCEPT !.pipe = Tail(agent[r].pipe)]
           /\ \A q \in Run : q # r => agent'[q] = agent[q]
           /\ file'[agent[r].task] = Append(file[agent[r].task], Head(agent[r].pipe))
           /\ \A t \in Task : t # agent[r].task => file'[t] = file[t]
           /\ UNCHANGED <<items, head, said, reading>>
           /\ late' = IF agent[r].at = "ended" THEN late \cup {agent[r].task} ELSE late
<1>1. agent[r].pipe \in Seq(LogLine) /\ agent[r].task \in Task /\ agent[r].pipe # <<>>
      BY DEF LogTypeOK, AgentRow, CopyLine
<1>2. Tail(agent[r].pipe) \in Seq(LogLine) /\ Head(agent[r].pipe) \in LogLine
      BY <1>1, Read
<1>3. [agent[r] EXCEPT !.pipe = Tail(agent[r].pipe)] \in AgentRow
  <2>1. agent[r] \in AgentRow
        BY DEF LogTypeOK
  <2>2. QED BY <1>2, <2>1, RowPipe
<1>4. /\ agent'[r] = [agent[r] EXCEPT !.pipe = Tail(agent[r].pipe)]
      /\ \A q \in Run : q # r => agent'[q] = agent[q]
      /\ agent' = [agent EXCEPT ![r] = [agent[r] EXCEPT !.pipe = Tail(agent[r].pipe)]]
      BY DEF CopyLine, LogTypeOK
<1>5. agent' \in [Run -> AgentRow]
      BY <1>3, <1>4 DEF LogTypeOK
<1>6. Append(file[agent[r].task], Head(agent[r].pipe)) \in Seq(LogLine)
      BY <1>1, <1>2 DEF LogTypeOK
<1>7. /\ file' \in [Task -> Seq(LogLine)]
      /\ file'[agent[r].task] = Append(file[agent[r].task], Head(agent[r].pipe))
      /\ \A t \in Task : t # agent[r].task => file'[t] = file[t]
      BY <1>1, <1>6 DEF CopyLine, LogTypeOK
<1>8. QED BY <1>1, <1>4, <1>5, <1>7 DEF CopyLine

\* A row goes on.
LEMMA AtEffect ==
    ASSUME LogTypeOK, NEW r \in Run,
           NEW x \in {"free", "live", "exited", "waited", "stored", "ended"},
           agent' = [agent EXCEPT ![r].at = x]
    PROVE  /\ agent' \in [Run -> AgentRow]
           /\ agent'[r].at = x /\ agent'[r].task = agent[r].task
           /\ agent'[r].pipe = agent[r].pipe /\ agent'[r].kept = agent[r].kept
           /\ \A q \in Run : q # r => agent'[q] = agent[q]
<1>1. agent[r] \in AgentRow
      BY DEF LogTypeOK
<1>2. [agent[r] EXCEPT !.at = x] \in AgentRow
      BY <1>1, RowAt
<1>3. /\ agent' = [agent EXCEPT ![r] = [agent[r] EXCEPT !.at = x]]
      /\ agent'[r] = [agent[r] EXCEPT !.at = x]
      /\ \A q \in Run : q # r => agent'[q] = agent[q]
      BY DEF LogTypeOK
<1>4. agent' \in [Run -> AgentRow]
      BY <1>2, <1>3 DEF LogTypeOK
<1>5. QED BY <1>1, <1>3, <1>4, RowAt

\* An agent exits.
LEMMA ExitEffect ==
    ASSUME LogTypeOK, NEW r \in Run, AgentExits(r)
    PROVE  /\ agent' \in [Run -> AgentRow] /\ agent[r].at = "live"
           /\ agent'[r].at = "exited" /\ agent'[r].task = agent[r].task
           /\ agent'[r].pipe = agent[r].pipe /\ agent'[r].kept = agent[r].kept
           /\ \A q \in Run : q # r => agent'[q] = agent[q]
           /\ UNCHANGED <<items, head, output, reading>>
<1>1. PICK c \in {"zero", "nonzero"} :
         agent' = [agent EXCEPT ![r].at = "exited", ![r].code = c]
      BY DEF AgentExits
<1>2. agent[r] \in AgentRow
      BY DEF LogTypeOK
<1> DEFINE row == [agent[r] EXCEPT !.at = "exited"]
<1>3. /\ row \in AgentRow /\ [row EXCEPT !.code = c] \in AgentRow
      /\ row.at = "exited" /\ row.task = agent[r].task
      /\ row.pipe = agent[r].pipe /\ row.kept = agent[r].kept
      /\ [row EXCEPT !.code = c].at = row.at /\ [row EXCEPT !.code = c].task = row.task
      /\ [row EXCEPT !.code = c].pipe = row.pipe /\ [row EXCEPT !.code = c].kept = row.kept
  <2>1. /\ row \in AgentRow /\ row.at = "exited" /\ row.task = agent[r].task
        /\ row.pipe = agent[r].pipe /\ row.kept = agent[r].kept
        BY <1>2, RowAt
  <2> HIDE DEF row
  <2> QED BY <2>1, RowCode
<1>4. /\ agent' = [agent EXCEPT ![r] = [row EXCEPT !.code = c]]
      /\ agent'[r] = [row EXCEPT !.code = c]
      /\ \A q \in Run : q # r => agent'[q] = agent[q]
      BY <1>1 DEF LogTypeOK
<1>5. agent' \in [Run -> AgentRow]
      BY <1>3, <1>4 DEF LogTypeOK
<1>6. agent[r].at = "live" /\ UNCHANGED <<items, head, output, reading>>
      BY DEF AgentExits
<1> HIDE DEF row
<1>7. QED BY <1>3, <1>4, <1>5, <1>6

\* What is found in a file is a line of it.
LEMMA FoundType ==
    ASSUME LogTypeOK, NEW t \in Task, NEW kd, OfKind(kd, t) # {}
    PROVE  Found(kd, t) \in LogLine
<1>1. file[t] \in Seq(LogLine)
      BY DEF LogTypeOK
<1>2. /\ Len(file[t]) \in Nat /\ DOMAIN file[t] = 1..Len(file[t])
      /\ \A i \in 1..Len(file[t]) : file[t][i] \in LogLine
      BY <1>1
<1>3. OfKind(kd, t) \subseteq 1..Len(file[t])
      BY <1>2 DEF OfKind
<1>4. \E u \in OfKind(kd, t) : \A v \in OfKind(kd, t) : v <= u
  <2>1. OfKind(kd, t) \in SUBSET Nat /\ \A u \in OfKind(kd, t) : u < Len(file[t]) + 1
        BY <1>2, <1>3
  <2>2. Len(file[t]) + 1 \in Nat
        BY <1>2
  <2>3. QED BY <2>1, <2>2, LastBefore
<1>5. \E u \in OfKind(kd, t) : \A v \in OfKind(kd, t) : u >= v
      BY <1>2, <1>3, <1>4
<1>6. Max(OfKind(kd, t)) \in OfKind(kd, t)
      BY <1>5 DEF Max
<1>7. QED BY <1>2, <1>3, <1>6 DEF Found

\* The last of the done impl tasks before t.
LEMMA LatestIs ==
    ASSUME LogTypeOK, NEW t \in Task, DoneBefore(t) # {}
    PROVE  /\ LatestBefore(t) \in DoneBefore(t)
           /\ \A v \in DoneBefore(t) : v <= LatestBefore(t)
<1>1. DoneBefore(t) \in SUBSET Nat /\ t \in Nat /\ \A u \in DoneBefore(t) : u < t
      BY AgentLogAssumption DEF DoneBefore
<1>2. \E u \in DoneBefore(t) : \A v \in DoneBefore(t) : v <= u
      BY <1>1, LastBefore
<1>3. QED BY <1>2 DEF LatestBefore

\* A commit.
LEMMA CommitEffect ==
    ASSUME LogTypeOK, NEW r \in Run, AgentCommits(r)
    PROVE  /\ agent[r].at = "live" /\ agent[r].task \in Impl
           /\ head' \in Commit /\ IsPrefix(head, head') /\ IsPrefix(head', head')
           /\ \E line \in LogLine :
                 line.kind = "commit" /\ line.at = head' /\ Prints(r, line)
           /\ UNCHANGED <<items, file, late, reading>>
<1>1. PICK tagged \in BOOLEAN : Prints(r, [kind |-> "commit", at |-> head', good |-> tagged])
      BY DEF AgentCommits
<1>2. Len(said[r]) + 1 \in 1..MaxOfRun
  <2>1. Len(said[r]) \in Nat
        BY DEF LogTypeOK
  <2>2. Len(said[r]) < MaxOfRun
        BY <1>1 DEF Prints
  <2>3. QED BY <2>1, <2>2, AgentLogAssumption
<1>3. head' = Append(head, <<r, Len(said[r]) + 1>>) /\ head \in Commit
      BY DEF AgentCommits, LogTypeOK
<1>4. <<r, Len(said[r]) + 1>> \in Run \X (1..MaxOfRun)
      BY <1>2
<1>5. head' \in Commit /\ IsPrefix(head, head')
      BY <1>3, <1>4, PrefixOfNew
<1>6. IsPrefix(head', head')
      BY <1>4, <1>5, PrefixOfNew
<1>7. [kind |-> "commit", at |-> head', good |-> tagged] \in LogLine
      BY <1>1, <1>5 DEF LogLine
<1>8. QED BY <1>1, <1>5, <1>6, <1>7 DEF AgentCommits

\* A verdict.
LEMMA ConcludeEffect ==
    ASSUME LogTypeOK, NEW r \in Run, AgentConcludes(r)
    PROVE  /\ agent[r].at = "live" /\ agent[r].task \notin Impl
           /\ \E line \in LogLine : line.kind = "result" /\ Prints(r, line)
           /\ UNCHANGED <<items, head, file, late, reading>>
<1>1. PICK passed \in BOOLEAN :
         Prints(r, [kind |-> "result", at |-> NoCommit, good |-> passed])
      BY DEF AgentConcludes
<1>2. NoCommit \in Commit
      BY DEF NoCommit, Commit
<1>3. [kind |-> "result", at |-> NoCommit, good |-> passed] \in LogLine
      BY <1>1, <1>2 DEF LogLine
<1>4. QED BY <1>1, <1>3 DEF AgentConcludes

\* What a follower does, does nothing else.
LEMMA FollowEffect ==
    ASSUME LogTypeOK, Follow \/ ClientLeaves \/ \E t \in Task : BeginFollow(t)
    PROVE  /\ UNCHANGED <<items, head, agents>>
           /\ follower' \in [task : Task, at : {"off", "history", "gap", "tail"},
                             next : Nat \ {0}, idle : 0..MaxIdle]
           /\ told' \in Seq(Nat)
<1>1. /\ follower \in [task : Task, at : {"off", "history", "gap", "tail"},
                       next : Nat \ {0}, idle : 0..MaxIdle]
      /\ told \in Seq(Nat)
      BY DEF LogTypeOK
<1>2. UNCHANGED <<items, head, agents>>
      BY DEF Follow, SendLine, HistoryEnds, SeekEnd, NothingCame, ClientLeaves, BeginFollow
<1>3. ASSUME NEW t \in Task, BeginFollow(t)
      PROVE  /\ follower' \in [task : Task, at : {"off", "history", "gap", "tail"},
                               next : Nat \ {0}, idle : 0..MaxIdle]
             /\ told' \in Seq(Nat)
      BY <1>1, <1>3, AgentLogAssumption DEF BeginFollow
<1>4. CASE SendLine
  <2>1. /\ follower' = [follower EXCEPT !.next = follower.next + 1, !.idle = 0]
        /\ told' = Append(told, follower.next) /\ follower.next + 1 \in Nat \ {0}
        BY <1>1, <1>4 DEF SendLine
  <2>2. told' \in Seq(Nat)
        BY <1>1, <2>1
  <2>3. follower' \in [task : Task, at : {"off", "history", "gap", "tail"},
                        next : Nat \ {0}, idle : 0..MaxIdle]
    <3>1. PICK next \in Nat \ {0} :
             follower' = [follower EXCEPT !.next = next, !.idle = 0]
          BY <2>1
    <3>2. 0 \in 0..MaxIdle
          BY AgentLogAssumption
    <3>3. QED BY <1>1, <3>1, <3>2
  <2>4. QED BY <1>2, <2>2, <2>3
<1>5. CASE HistoryEnds \/ ClientLeaves
      BY <1>1, <1>5 DEF HistoryEnds, ClientLeaves
<1>6. CASE SeekEnd
  <2>1. Len(file[follower.task]) + 1 \in Nat \ {0}
        BY <1>1 DEF LogTypeOK
  <2>2. QED BY <1>1, <1>6, <2>1, <1>2 DEF SeekEnd, EndOf
<1>7. CASE NothingCame
  <2>1. CASE follower.idle < MaxIdle /\ follower' = [follower EXCEPT !.idle = follower.idle + 1]
    <3>1. follower.idle + 1 \in 0..MaxIdle
          BY <1>1, <2>1, AgentLogAssumption
    <3>2. QED BY <1>1, <1>7, <2>1, <3>1 DEF NothingCame
  <2>2. CASE follower' = [follower EXCEPT !.at = "off"]
        BY <1>1, <1>7, <2>2 DEF NothingCame
  <2>3. QED BY <1>7, <2>1, <2>2 DEF NothingCame, OneMoreIdle
<1>8. QED BY <1>2, <1>3, <1>4, <1>5, <1>6, <1>7 DEF Follow

\* What the reaper and the timeouts do.
LEMMA ReapEffect ==
    ASSUME LogTypeOK, NEW r \in Run, Reap(r) \/ TimeOut(r)
    PROVE  /\ agent[r].at \in {"live", "exited", "waited", "stored"}
           /\ agent' = [agent EXCEPT ![r].at = "ended"]
           /\ UNCHANGED <<skipped, head, output, reading>>
           /\ \/ /\ Reap(r) /\ Succeeded(r)
                 /\ status' = [status EXCEPT ![agent[r].task] = "done"]
                 /\ hash' = IF agent[r].task \in Impl
                            THEN [hash EXCEPT ![agent[r].task] =
                                     Found("commit", agent[r].task).at]
                            ELSE hash
                 /\ credited' = [credited EXCEPT ![agent[r].task] = r]
              \/ /\ status' = [status EXCEPT ![agent[r].task] = "failed"]
                 /\ UNCHANGED <<hash, credited>>
BY DEF Reap, TimeOut

-----------------------------------------------------------------------------
(***************************************************************************)
(* Types.                                                                  *)
(***************************************************************************)

Statuses == {"pending", "in_progress", "done", "failed", "cancelled"}

\* Every step keeps the types.
LEMMA LogNextType ==
    ASSUME LogTypeOK, [LogNext]_logVars
    PROVE  LogTypeOK'
<1> USE DEF items, agents, output, reading
<1>1. CASE UNCHANGED logVars
      BY <1>1 DEF logVars, LogTypeOK
<1>2. ASSUME scene' = scene, AgentStep
      PROVE  LogTypeOK'
  <2>1. PICK r \in Run : AgentCommits(r) \/ AgentConcludes(r) \/ AgentExits(r)
        BY <1>2 DEF AgentStep
  <2>2. CASE AgentCommits(r)
        BY <1>2, <2>2, CommitEffect, PrintsEffect DEF LogTypeOK
  <2>3. CASE AgentConcludes(r)
        BY <1>2, <2>3, ConcludeEffect, PrintsEffect DEF LogTypeOK
  <2>4. CASE AgentExits(r)
        BY <1>2, <2>4, ExitEffect DEF LogTypeOK
  <2>5. QED BY <2>1, <2>2, <2>3, <2>4
<1>3. ASSUME scene' = scene, Background
      PROVE  LogTypeOK'
  <2>1. PICK r \in Run : CopyLine(r) \/ WaitForChild(r) \/ StoreExitCode(r)
        BY <1>3 DEF Background
  <2>2. CASE CopyLine(r)
    <3>1. late' \subseteq Task
      <4>1. late' \in {late, late \cup {agent[r].task}} /\ agent[r].task \in Task
            BY <2>2, CopyEffect
      <4>2. QED BY <4>1 DEF LogTypeOK
    <3>2. /\ file' \in [Task -> Seq(LogLine)] /\ agent' \in [Run -> AgentRow]
          /\ UNCHANGED <<items, head, said, reading>>
          BY <2>2, CopyEffect
    <3>3. QED BY <1>3, <3>1, <3>2 DEF LogTypeOK
  <2>3. CASE WaitForChild(r) \/ StoreExitCode(r)
    <3>1. agent' \in [Run -> AgentRow]
          BY <2>3, AtEffect DEF WaitForChild, StoreExitCode
    <3>2. UNCHANGED <<items, head, output, reading>>
          BY <2>3 DEF WaitForChild, StoreExitCode
    <3>3. QED BY <1>3, <3>1, <3>2 DEF LogTypeOK
  <2>4. QED BY <2>1, <2>2, <2>3
<1>4. ASSUME scene' = scene, NEW r \in Run, Reap(r) \/ TimeOut(r)
      PROVE  LogTypeOK'
  <2>1. agent' \in [Run -> AgentRow]
        BY <1>4, ReapEffect, AtEffect
  <2>2. status' \in [Task -> Statuses]
        BY <1>4, ReapEffect DEF LogTypeOK, Statuses
  <2>3. credited' \in [Task -> 0..MaxRuns]
    <3>1. credited' = [credited EXCEPT ![agent[r].task] = r] \/ credited' = credited
          BY <1>4, ReapEffect
    <3>2. r \in 0..MaxRuns /\ credited \in [Task -> 0..MaxRuns]
          BY AgentLogAssumption DEF LogTypeOK, Run
    <3>3. QED BY <3>1, <3>2
  <2>4. hash' \in [Task -> Commit]
    <3>1. agent[r].task \in Task
      <4>1. agent[r] \in AgentRow
            BY DEF LogTypeOK
      <4>2. QED BY <4>1 DEF AgentRow
    <3>2. ASSUME Succeeded(r), agent[r].task \in Impl
          PROVE  Found("commit", agent[r].task).at \in Commit
      <4>1. OfKind("commit", agent[r].task) # {}
            BY <3>2 DEF Succeeded, KindFor
      <4>2. Found("commit", agent[r].task) \in LogLine
            BY <3>1, <4>1, FoundType
      <4>3. QED BY <4>2 DEF LogLine
    <3>3. \/ hash' = hash
          \/ /\ Found("commit", agent[r].task).at \in Commit
             /\ hash' = [hash EXCEPT ![agent[r].task] = Found("commit", agent[r].task).at]
          BY <1>4, <3>2, ReapEffect
    <3>4. hash \in [Task -> Commit]
          BY DEF LogTypeOK
    <3>5. QED BY <3>1, <3>3, <3>4
  <2>5. UNCHANGED <<skipped, head, output, reading>>
        BY <1>4, ReapEffect
  <2>6. QED BY <1>4, <2>1, <2>2, <2>3, <2>4, <2>5 DEF LogTypeOK, Statuses
<1>5. ASSUME scene' = scene, NEW t \in Task, Start(t)
      PROVE  LogTypeOK'
  <2>1. agent' \in [Run -> AgentRow]
        BY <1>5, SpawnEffect DEF Start, Spawn
  <2>2. status' \in [Task -> Statuses]
        BY <1>5 DEF Start, LogTypeOK, Statuses
  <2>3. QED BY <1>5, <2>1, <2>2 DEF Start, LogTypeOK, Statuses
<1>6. ASSUME scene' = scene, NEW t \in Task, Retry(t)
      PROVE  LogTypeOK'
  <2>1. agent' \in [Run -> AgentRow] /\ status' \in [Task -> Statuses]
    <3>1. CASE status' = [status EXCEPT ![t] = "in_progress"] /\ Spawn(t)
      <4>1. agent' \in [Run -> AgentRow]
            BY <3>1, SpawnEffect DEF Spawn
      <4>2. QED BY <3>1, <4>1 DEF LogTypeOK, Statuses
    <3>2. CASE UNCHANGED <<status, agent>>
          BY <3>2 DEF LogTypeOK, Statuses
    <3>3. QED BY <1>6, <3>1, <3>2 DEF Retry
  <2>2. head' \in Commit
    <3>1. ResetTo(t) \in Commit
      <4>1. CASE DoneBefore(t) = {}
            BY <4>1 DEF ResetTo, NoCommit, Commit
      <4>2. CASE DoneBefore(t) # {}
        <5>1. LatestBefore(t) \in Task
              BY <4>2, LatestIs, AgentLogAssumption DEF DoneBefore
        <5>2. QED BY <4>2, <5>1 DEF ResetTo, LogTypeOK
      <4>3. QED BY <4>1, <4>2
    <3>2. QED BY <1>6, <3>1 DEF Retry, LogTypeOK
  <2>3. UNCHANGED <<hash, credited, skipped, output, reading>>
        BY <1>6 DEF Retry
  <2>4. QED BY <1>6, <2>1, <2>2, <2>3 DEF LogTypeOK, Statuses
<1>7. ASSUME scene' = scene, NEW t \in Task, Skip(t)
      PROVE  LogTypeOK'
  <2>1. AfterSkip(t) \in [Task -> Statuses]
        BY DEF AfterSkip, LogTypeOK, Statuses
  <2>2. agent' \in [Run -> AgentRow] /\ status' \in [Task -> Statuses]
    <3>1. ASSUME NEW n \in Task, status' = [AfterSkip(t) EXCEPT ![n] = "in_progress"],
                 \E r \in Run : agent[r].at = "free",
                 agent' = [agent EXCEPT ![NewRun] = NewRow(n, FALSE)]
          PROVE  agent' \in [Run -> AgentRow] /\ status' \in [Task -> Statuses]
      <4>1. agent' \in [Run -> AgentRow]
            BY <3>1, SpawnEffect
      <4>2. QED BY <2>1, <3>1, <4>1 DEF Statuses
    <3>2. CASE status' = AfterSkip(t) /\ UNCHANGED agent
          BY <2>1, <3>2 DEF LogTypeOK
    <3>3. QED BY <1>7, <3>1, <3>2 DEF Skip
  <2>3. UNCHANGED <<hash, credited, head, output, reading>> /\ skipped' = skipped \cup {t}
        BY <1>7 DEF Skip
  <2>4. QED BY <1>7, <2>2, <2>3 DEF LogTypeOK, Statuses
<1>8. ASSUME scene' = scene, Follow \/ ClientLeaves \/ \E t \in Task : BeginFollow(t)
      PROVE  LogTypeOK'
      BY <1>8, FollowEffect DEF LogTypeOK
<1>9. QED BY <1>1, <1>2, <1>3, <1>4, <1>5, <1>6, <1>7, <1>8 DEF LogNext, Scheduler

\* In the beginning.
LEMMA LogInitType == LogInit => LogTypeOK
<1>1. \A t \in Task : (CHOOSE u \in Task : TRUE) \in Task
      OBVIOUS
<1>2. FreeRow \in AgentRow
      BY <1>1, AgentLogAssumption DEF FreeRow, AgentRow
<1>3. Off \in [task : Task, at : {"off", "history", "gap", "tail"},
               next : Nat \ {0}, idle : 0..MaxIdle]
      BY <1>1, AgentLogAssumption DEF Off
<1>4. <<>> \in Seq(LogLine) /\ <<>> \in Commit /\ <<>> \in Seq(Nat)
      BY DEF Commit
<1>5. QED BY <1>2, <1>3, <1>4, AgentLogAssumption DEF LogInit, LogTypeOK, NoCommit

\* Rows, files and hashes keep their types, whatever the agents print.
THEOREM LogTypeCorrect == LogSpec => []LogTypeOK
BY LogInitType, LogNextType, PTL DEF LogSpec

-----------------------------------------------------------------------------
(***************************************************************************)
(* FollowInv: what a follower has been told.                               *)
(***************************************************************************)

\* Files only grow.
LEMMA FilesGrow ==
    ASSUME LogTypeOK, [LogNext]_logVars, NEW t \in Task
    PROVE  Len(file[t]) \in Nat /\ Len(file'[t]) \in Nat /\ Len(file[t]) <= Len(file'[t])
<1> USE DEF items, agents, output, reading
<1>1. file[t] \in Seq(LogLine) /\ Len(file[t]) \in Nat
      BY DEF LogTypeOK
<1>2. CASE file' = file
      BY <1>1, <1>2
<1>3. ASSUME NEW r \in Run, CopyLine(r)
      PROVE  Len(file'[t]) \in Nat /\ Len(file[t]) <= Len(file'[t])
  <2>1. CASE t # agent[r].task
    <3>1. file'[t] = file[t]
          BY <1>3, <2>1, CopyEffect
    <3>2. QED BY <1>1, <3>1
  <2>2. CASE t = agent[r].task
    <3>1. agent[r].pipe \in Seq(LogLine) /\ agent[r].pipe # <<>>
          BY <1>3, CopyEffect DEF LogTypeOK, AgentRow
    <3>2. Head(agent[r].pipe) \in LogLine
          BY <3>1, Read
    <3>3. file'[t] = Append(file[t], Head(agent[r].pipe))
          BY <1>3, <2>2, CopyEffect
    <3>4. Len(file'[t]) = Len(file[t]) + 1
          BY <1>1, <3>2, <3>3, Written
    <3>5. QED BY <1>1, <3>4
  <2>3. QED BY <2>1, <2>2
<1>4. LogNext => file' = file \/ \E r \in Run : CopyLine(r)
  <2>1. AgentStep => file' = file
        BY DEF AgentStep, AgentCommits, AgentConcludes, AgentExits
  <2>2. Background => file' = file \/ \E r \in Run : CopyLine(r)
        BY DEF Background, WaitForChild, StoreExitCode
  <2>3. Scheduler => file' = file
        BY DEF Scheduler, Start, Reap, TimeOut
  <2>4. (\E u \in Task : Retry(u) \/ Skip(u) \/ BeginFollow(u)) => file' = file
        BY DEF Retry, Skip, BeginFollow
  <2>5. Follow \/ ClientLeaves => file' = file
        BY FollowEffect
  <2>6. QED BY <2>1, <2>2, <2>3, <2>4, <2>5 DEF LogNext
<1>5. QED BY <1>1, <1>2, <1>3, <1>4 DEF logVars

\* Every step keeps it.
LEMMA NextFollow ==
    ASSUME LogTypeOK, FollowInv, [LogNext]_logVars
    PROVE  FollowInv'
<1> USE DEF items, agents, output, reading
<1> DEFINE n == follower.next
<1>1. /\ n \in Nat \ {0} /\ follower.task \in Task /\ told \in Seq(Nat)
      /\ n <= Len(file[follower.task]) + 1
      /\ \A i \in DOMAIN told : told[i] \in Nat /\ told[i] < n
      /\ \A i, j \in DOMAIN told : i < j => told[i] < told[j]
      BY DEF LogTypeOK, FollowInv, LinesInOrder
<1> HIDE DEF n
<1>2. CASE UNCHANGED reading
  <2>1. Len(file'[follower.task]) \in Nat /\ Len(file[follower.task]) \in Nat
        /\ Len(file[follower.task]) <= Len(file'[follower.task])
        BY <1>1, FilesGrow
  <2>2. n <= Len(file'[follower.task]) + 1
        BY <1>1, <2>1
  <2>3. QED BY <1>1, <1>2, <2>2 DEF FollowInv, LinesInOrder, n
<1>3. ASSUME NEW t \in Task, BeginFollow(t)
      PROVE  FollowInv'
  <2>1. Len(file[t]) \in Nat /\ file' = file /\ follower'.next = 1 /\ follower'.task = t
        /\ told' = <<>>
        BY <1>3 DEF BeginFollow, LogTypeOK
  <2>2. QED BY <2>1 DEF FollowInv, LinesInOrder
<1>4. CASE SendLine
  <2>1. /\ follower'.next = n + 1 /\ follower'.task = follower.task
        /\ told' = Append(told, n) /\ file' = file /\ n <= Len(file[follower.task])
        BY <1>4 DEF SendLine, LogTypeOK, n
  <2>2. /\ DOMAIN told' = 1..(Len(told) + 1) /\ DOMAIN told = 1..Len(told) /\ Len(told) \in Nat
        /\ told'[Len(told) + 1] = n
        /\ \A i \in 1..Len(told) : told'[i] = told[i]
        BY <1>1, <2>1
  <2>3. \A i \in DOMAIN told' : told'[i] < n + 1
        BY <1>1, <2>2
  <2>4. \A i, j \in DOMAIN told' : i < j => told'[i] < told'[j]
        BY <1>1, <2>2
  <2>5. n + 1 <= Len(file'[follower'.task]) + 1
    <3>1. Len(file[follower.task]) \in Nat
          BY <1>1 DEF LogTypeOK
    <3>2. QED BY <1>1, <2>1, <3>1
  <2>6. QED BY <2>1, <2>3, <2>4, <2>5 DEF FollowInv, LinesInOrder
<1>5. CASE HistoryEnds \/ NothingCame \/ ClientLeaves
  <2>1. /\ follower'.next = n /\ follower'.task = follower.task
        /\ told' = told /\ file' = file
        BY <1>5 DEF HistoryEnds, NothingCame, ClientLeaves, LogTypeOK, n
  <2>2. QED BY <1>1, <2>1 DEF FollowInv, LinesInOrder
<1>6. CASE SeekEnd
  <2>1. /\ follower'.next = Len(file[follower.task]) + 1 /\ follower'.task = follower.task
        /\ told' = told /\ file' = file
        BY <1>6 DEF SeekEnd, EndOf, LogTypeOK
  <2>2. Len(file[follower.task]) \in Nat
        BY <1>1 DEF LogTypeOK
  <2>3. \A i \in DOMAIN told : told[i] < Len(file[follower.task]) + 1
        BY <1>1, <2>2
  <2>4. QED BY <1>1, <2>1, <2>2, <2>3 DEF FollowInv, LinesInOrder
<1>7. \/ UNCHANGED reading
      \/ Follow \/ ClientLeaves \/ \E t \in Task : BeginFollow(t)
  <2>1. CASE LogNext
    <3>1. AgentStep \/ Background \/ Scheduler \/ (\E t \in Task : Retry(t) \/ Skip(t))
             => UNCHANGED reading
          BY DEF AgentStep, AgentCommits, AgentConcludes, AgentExits, Background, CopyLine,
                 WaitForChild, StoreExitCode, Scheduler, Start, Reap, TimeOut, Retry, Skip
    <3>2. QED BY <2>1, <3>1 DEF LogNext
  <2>2. QED BY <2>1 DEF logVars
<1>8. QED BY <1>2, <1>3, <1>4, <1>5, <1>6, <1>7 DEF Follow

\* exec.log --follow sends no line twice and none before an earlier one, although
\* it reads the file with two readers (handlers.rs 5005 to 5051).
THEOREM FollowersReadInOrder == LogSpec => []LinesInOrder
<1>2. LogInit => FollowInv
  <2>1. (CHOOSE u \in Task : TRUE) \in Task
        BY AgentLogAssumption
  <2>2. QED BY <2>1 DEF LogInit, FollowInv, LinesInOrder, Off
<1>3. FollowInv => LinesInOrder
      BY DEF FollowInv
<1>4. QED BY LogInitType, <1>2, <1>3, LogNextType, NextFollow, PTL DEF LogSpec

-----------------------------------------------------------------------------
(***************************************************************************)
(* What the steps do to the invariants of runs, output, credit and stack.  *)
(***************************************************************************)

Going == {"live", "exited", "waited", "stored"}

\* An agent prints a line of its kind.
LEMMA PrintEffect ==
    ASSUME LogTypeOK, NEW r \in Run, AgentCommits(r) \/ AgentConcludes(r)
    PROVE  /\ agent[r].at = "live" /\ agent[r].task \in Task
           /\ \E line \in LogLine :
                 /\ line.kind = KindFor(agent[r].task)
                 /\ AgentCommits(r) => line.at = head'
                 /\ said'[r] = Append(said[r], line)
                 /\ agent'[r].pipe = Append(agent[r].pipe, line)
           /\ agent'[r].at = agent[r].at /\ agent'[r].task = agent[r].task
           /\ agent'[r].kept = agent[r].kept
           /\ \A q \in Run : q # r => said'[q] = said[q] /\ agent'[q] = agent[q]
           /\ UNCHANGED <<status, hash, credited, skipped, file, late>>
<1> USE DEF items
<1>1. agent[r] \in AgentRow /\ agent[r].task \in Task
      BY DEF LogTypeOK, AgentRow
<1>2. PICK line \in LogLine : /\ line.kind = KindFor(agent[r].task) /\ Prints(r, line)
                              /\ AgentCommits(r) => line.at = head'
  <2>1. CASE AgentCommits(r)
        BY <2>1, CommitEffect DEF KindFor
  <2>2. CASE AgentConcludes(r)
    <3>1. ~AgentCommits(r)
          BY <2>2 DEF AgentCommits, AgentConcludes
    <3>2. QED BY <2>2, <3>1, ConcludeEffect DEF KindFor
  <2>3. QED BY <2>1, <2>2
<1>3. /\ said'[r] = Append(said[r], line)
      /\ agent'[r] = [agent[r] EXCEPT !.pipe = Append(agent[r].pipe, line)]
      /\ \A q \in Run : q # r => said'[q] = said[q] /\ agent'[q] = agent[q]
      BY <1>2, PrintsEffect
<1>4. Append(agent[r].pipe, line) \in Seq(LogLine)
      BY <1>1, <1>2 DEF AgentRow
<1>5. /\ agent'[r].pipe = Append(agent[r].pipe, line)
      /\ agent'[r].at = agent[r].at /\ agent'[r].task = agent[r].task
      /\ agent'[r].kept = agent[r].kept
      BY <1>1, <1>3, <1>4, RowPipe
<1>6. /\ agent[r].at = "live" /\ UNCHANGED <<status, hash, credited, skipped, file, late>>
      BY DEF AgentCommits, AgentConcludes
<1>7. QED BY <1>1, <1>2, <1>3, <1>5, <1>6

\* An agent exits, is waited for, or its exit code is stored.
LEMMA MoveEffect ==
    ASSUME LogTypeOK, RunsInv, NEW r \in Run,
           AgentExits(r) \/ WaitForChild(r) \/ StoreExitCode(r)
    PROVE  /\ agent[r].at \in Going /\ agent'[r].at \in Going
           /\ agent'[r].task = agent[r].task /\ agent'[r].pipe = agent[r].pipe
           /\ agent'[r].kept = agent[r].kept
           /\ agent'[r].at \in {"waited", "stored"} /\ agent'[r].kept => agent'[r].pipe = <<>>
           /\ agent'[r].at = "stored" => agent'[r].kept
           /\ \A q \in Run : q # r => agent'[q] = agent[q]
           /\ UNCHANGED <<status, hash, credited, skipped, head, file, said, late>>
<1> USE DEF items, output, Going
<1>1. CASE AgentExits(r)
      BY <1>1, ExitEffect
<1>2. CASE WaitForChild(r)
  <2>1. /\ agent'[r].at = "waited" /\ agent'[r].task = agent[r].task
        /\ agent'[r].pipe = agent[r].pipe /\ agent'[r].kept = agent[r].kept
        /\ \A q \in Run : q # r => agent'[q] = agent[q]
        BY <1>2, AtEffect DEF WaitForChild
  <2>2. agent[r].at = "exited" /\ (agent[r].kept => agent[r].pipe = <<>>)
        /\ UNCHANGED <<items, head, output>>
        BY <1>2 DEF WaitForChild, Drained
  <2>3. QED BY <2>1, <2>2
<1>3. CASE StoreExitCode(r)
  <2>1. /\ agent'[r].at = "stored" /\ agent'[r].task = agent[r].task
        /\ agent'[r].pipe = agent[r].pipe /\ agent'[r].kept = agent[r].kept
        /\ \A q \in Run : q # r => agent'[q] = agent[q]
        BY <1>3, AtEffect DEF StoreExitCode
  <2>2. agent[r].at = "waited" /\ agent[r].kept /\ UNCHANGED <<items, head, output>>
        BY <1>3 DEF StoreExitCode
  <2>3. agent[r].pipe = <<>>
        BY <2>2 DEF RunsInv
  <2>4. QED BY <2>1, <2>2, <2>3
<1>4. QED BY <1>1, <1>2, <1>3

\* A line is copied; whoever printed it goes on as before.
LEMMA CopiedEffect ==
    ASSUME LogTypeOK, NEW r \in Run, CopyLine(r)
    PROVE  /\ agent[r].pipe \in Seq(LogLine) /\ agent[r].pipe # <<>>
           /\ agent[r].at # "free"
           /\ agent'[r].pipe = Tail(agent[r].pipe)
           /\ agent'[r].at = agent[r].at /\ agent'[r].task = agent[r].task
           /\ agent'[r].kept = agent[r].kept
           /\ UNCHANGED <<status, hash, credited, skipped, head, said>>
           /\ late \subseteq late'
           /\ agent[r].at = "ended" => agent[r].task \in late'
<1> USE DEF items
<1>1. agent[r] \in AgentRow /\ agent[r].pipe # <<>> /\ agent[r].at # "free"
      BY CopyEffect DEF LogTypeOK
<1>2. agent[r].pipe \in Seq(LogLine)
      BY <1>1 DEF AgentRow
<1>3. Tail(agent[r].pipe) \in Seq(LogLine)
      BY <1>1, <1>2, Read
<1>4. agent'[r] = [agent[r] EXCEPT !.pipe = Tail(agent[r].pipe)]
      BY CopyEffect
<1>5. /\ agent'[r].pipe = Tail(agent[r].pipe)
      /\ agent'[r].at = agent[r].at /\ agent'[r].task = agent[r].task
      /\ agent'[r].kept = agent[r].kept
      BY <1>1, <1>3, <1>4, RowPipe
<1>6. /\ UNCHANGED <<items, head, said>>
      /\ late' = IF agent[r].at = "ended" THEN late \cup {agent[r].task} ELSE late
      BY CopyEffect
<1>7. late \subseteq late' /\ (agent[r].at = "ended" => agent[r].task \in late')
      BY <1>6
<1>8. QED BY <1>1, <1>2, <1>5, <1>6, <1>7

\* A task begins, or one is skipped.
LEMMA BeginEffect ==
    ASSUME LogTypeOK, NEW t \in Task, Start(t) \/ Retry(t) \/ Skip(t)
    PROVE  /\ Running = {}
           /\ UNCHANGED <<hash, credited, file, said, late>>
           /\ \A u \in Task : /\ status[u] = "done" => status'[u] = "done"
                              /\ status'[u] = "done" => status[u] = "done" \/ u \in skipped'
           /\ skipped \subseteq skipped'
           /\ \/ agent' = agent
              \/ \E n \in Run :
                    /\ agent[n].at = "free" /\ agent'[n].task \in Task
                    /\ agent'[n].at = "live" /\ agent'[n].pipe = <<>>
                    /\ \A r \in Run : r # n => agent'[r] = agent[r]
                    /\ status'[agent'[n].task] = "in_progress"
<1> USE DEF items, output
<1>1. CASE Start(t)
  <2>1. PICK n \in Run :
           /\ agent[n].at = "free" /\ agent'[n].task = t
           /\ agent'[n].at = "live" /\ agent'[n].pipe = <<>>
           /\ \A r \in Run : r # n => agent'[r] = agent[r]
    <3>1. /\ \E r \in Run : agent[r].at = "free"
          /\ agent' = [agent EXCEPT ![NewRun] = NewRow(t, TRUE)]
          BY <1>1 DEF Start, Spawn
    <3>2. QED BY <3>1, SpawnEffect
  <2>2. /\ Running = {} /\ UNCHANGED <<hash, credited, skipped, output>>
        /\ status[t] = "pending" /\ status'[t] = "in_progress"
        /\ \A u \in Task : u # t => status'[u] = status[u]
        BY <1>1 DEF Start, LogTypeOK
  <2>3. QED BY <2>1, <2>2
<1>2. CASE Retry(t)
  <2>1. /\ Running = {} /\ UNCHANGED <<hash, credited, skipped, output>> /\ status[t] = "failed"
        BY <1>2 DEF Retry
  <2>2. CASE UNCHANGED <<status, agent>>
        BY <2>1, <2>2
  <2>3. CASE status' = [status EXCEPT ![t] = "in_progress"] /\ Spawn(t)
    <3>1. PICK n \in Run :
             /\ agent[n].at = "free" /\ agent'[n].task = t
             /\ agent'[n].at = "live" /\ agent'[n].pipe = <<>>
             /\ \A r \in Run : r # n => agent'[r] = agent[r]
          BY <2>3, SpawnEffect DEF Spawn
    <3>2. status'[t] = "in_progress" /\ \A u \in Task : u # t => status'[u] = status[u]
          BY <2>3 DEF LogTypeOK
    <3>3. QED BY <2>1, <3>1, <3>2
  <2>4. QED BY <1>2, <2>2, <2>3 DEF Retry
<1>3. CASE Skip(t)
  <2>1. /\ Running = {} /\ UNCHANGED <<hash, credited, output>> /\ status[t] = "failed"
        /\ skipped' = skipped \cup {t}
        BY <1>3 DEF Skip
  <2>2. \A u \in Task : /\ status[u] = "done" => AfterSkip(t)[u] = "done"
                        /\ AfterSkip(t)[u] = "done" => status[u] = "done" \/ u = t
        BY DEF AfterSkip
  <2>3. CASE status' = AfterSkip(t) /\ UNCHANGED agent
        BY <2>1, <2>2, <2>3
  <2>4. ASSUME NEW m \in Task, AfterSkip(t)[m] = "pending",
               status' = [AfterSkip(t) EXCEPT ![m] = "in_progress"],
               \E r \in Run : agent[r].at = "free",
               agent' = [agent EXCEPT ![NewRun] = NewRow(m, FALSE)]
        PROVE  /\ \A u \in Task : /\ status[u] = "done" => status'[u] = "done"
                                  /\ status'[u] = "done" => status[u] = "done" \/ u = t
               /\ \E n \in Run :
                     /\ agent[n].at = "free" /\ agent'[n].task \in Task
                     /\ agent'[n].at = "live" /\ agent'[n].pipe = <<>>
                     /\ \A r \in Run : r # n => agent'[r] = agent[r]
                     /\ status'[agent'[n].task] = "in_progress"
    <3>1. DOMAIN AfterSkip(t) = Task
          BY DEF AfterSkip
    <3>2. status'[m] = "in_progress" /\ \A u \in Task : u # m => status'[u] = AfterSkip(t)[u]
          BY <2>4, <3>1 DEF AfterSkip
    <3>3. PICK n \in Run :
             /\ agent[n].at = "free" /\ agent'[n].task = m
             /\ agent'[n].at = "live" /\ agent'[n].pipe = <<>>
             /\ \A r \in Run : r # n => agent'[r] = agent[r]
      <4>1. FALSE \in BOOLEAN
            OBVIOUS
      <4>2. /\ \E r \in Run : agent[r].at = "free"
            /\ agent' = [agent EXCEPT ![NewRun] = NewRow(m, FALSE)]
            BY <2>4
      <4>3. \E n \in Run :
               /\ agent[n].at = "free" /\ agent' \in [Run -> AgentRow]
               /\ agent'[n].task = m /\ agent'[n].at = "live" /\ agent'[n].pipe = <<>>
               /\ \A r \in Run : r # n => agent'[r] = agent[r]
            BY <4>1, <4>2, SpawnEffect
      <4>4. QED BY <4>3
    <3>4. \A u \in Task : /\ status[u] = "done" => status'[u] = "done"
                          /\ status'[u] = "done" => status[u] = "done" \/ u = t
          BY <2>2, <2>4, <3>2
    <3>5. status'[agent'[n].task] = "in_progress"
          BY <3>2, <3>3
    <3>6. QED BY <3>3, <3>4, <3>5
  <2>5. \/ status' = AfterSkip(t) /\ UNCHANGED agent
        \/ \E m \in Task :
              /\ AfterSkip(t)[m] = "pending"
              /\ status' = [AfterSkip(t) EXCEPT ![m] = "in_progress"]
              /\ \E r \in Run : agent[r].at = "free"
              /\ agent' = [agent EXCEPT ![NewRun] = NewRow(m, FALSE)]
        BY <1>3 DEF Skip
  <2>6. QED BY <2>1, <2>3, <2>4, <2>5
<1>4. QED BY <1>1, <1>2, <1>3

\* A run ends and its task with it.
LEMMA EndEffect ==
    ASSUME LogTypeOK, NEW r \in Run, Reap(r) \/ TimeOut(r)
    PROVE  /\ agent[r].at \in Going /\ agent[r].task \in Task
           /\ agent'[r].at = "ended" /\ agent'[r].task = agent[r].task
           /\ agent'[r].pipe = agent[r].pipe
           /\ \A q \in Run : q # r => agent'[q] = agent[q]
           /\ UNCHANGED <<skipped, head, file, said, late>>
           /\ \A u \in Task : u # agent[r].task =>
                 status'[u] = status[u] /\ credited'[u] = credited[u] /\ hash'[u] = hash[u]
           /\ \/ /\ Succeeded(r) /\ status'[agent[r].task] = "done"
                 /\ agent[r].task \in Impl =>
                       hash'[agent[r].task] = Found("commit", agent[r].task).at
                 /\ credited'[agent[r].task] = r
              \/ /\ status'[agent[r].task] = "failed"
                 /\ UNCHANGED <<hash, credited>>
<1> USE DEF output
<1>1. agent[r].at \in Going
      BY ReapEffect DEF Going
<1>2. agent[r] \in AgentRow /\ agent[r].task \in Task
      BY DEF LogTypeOK, AgentRow
<1>3. agent' = [agent EXCEPT ![r].at = "ended"] /\ UNCHANGED <<skipped, head, output>>
      BY ReapEffect
<1>4. /\ agent'[r].at = "ended" /\ agent'[r].task = agent[r].task
      /\ agent'[r].pipe = agent[r].pipe
      /\ \A q \in Run : q # r => agent'[q] = agent[q]
      BY <1>3, AtEffect
<1>5. CASE /\ Reap(r) /\ Succeeded(r)
           /\ status' = [status EXCEPT ![agent[r].task] = "done"]
           /\ hash' = IF agent[r].task \in Impl
                      THEN [hash EXCEPT ![agent[r].task] = Found("commit", agent[r].task).at]
                      ELSE hash
           /\ credited' = [credited EXCEPT ![agent[r].task] = r]
  <2>1. /\ status'[agent[r].task] = "done" /\ credited'[agent[r].task] = r
        /\ \A u \in Task : u # agent[r].task =>
              status'[u] = status[u] /\ credited'[u] = credited[u]
        BY <1>2, <1>5 DEF LogTypeOK
  <2>2. /\ agent[r].task \in Impl =>
              hash'[agent[r].task] = Found("commit", agent[r].task).at
        /\ \A u \in Task : u # agent[r].task => hash'[u] = hash[u]
        BY <1>2, <1>5 DEF LogTypeOK
  <2>3. QED BY <1>1, <1>2, <1>3, <1>4, <1>5, <2>1, <2>2
<1>6. CASE /\ status' = [status EXCEPT ![agent[r].task] = "failed"]
           /\ UNCHANGED <<hash, credited>>
  <2>1. /\ status'[agent[r].task] = "failed"
        /\ \A u \in Task : u # agent[r].task => status'[u] = status[u]
        BY <1>2, <1>6 DEF LogTypeOK
  <2>2. QED BY <1>1, <1>2, <1>3, <1>4, <1>6, <2>1
<1>7. QED BY <1>5, <1>6, ReapEffect

\* All steps are of these kinds.
LEMMA LogSteps ==
    ASSUME LogTypeOK, [LogNext]_logVars
    PROVE  \/ UNCHANGED <<status, hash, credited, skipped, head, file, agent, said, late>>
           \/ \E r \in Run : \/ AgentCommits(r) \/ AgentConcludes(r)
                             \/ AgentExits(r) \/ WaitForChild(r) \/ StoreExitCode(r)
                             \/ CopyLine(r) \/ Reap(r) \/ TimeOut(r)
           \/ \E t \in Task : Start(t) \/ Retry(t) \/ Skip(t)
BY FollowEffect
   DEF LogNext, logVars, items, agents, AgentStep, Background, Scheduler

-----------------------------------------------------------------------------
(***************************************************************************)
(* RunsInv and OutputInv: whose lines are at the end.                      *)
(***************************************************************************)

\* The runs that go on are known by their rows.
LEMMA RunningIs ==
    /\ Running = {r \in Run : agent[r].at \in Going}
    /\ Running' = {r \in Run : agent'[r].at \in Going}
BY DEF Running, Going

\* Every step keeps it.
LEMMA NextRuns ==
    ASSUME LogTypeOK, RunsInv, [LogNext]_logVars
    PROVE  RunsInv'
<1> USE DEF Going
<1>1. CASE UNCHANGED <<status, hash, credited, skipped, head, file, agent, said, late>>
      BY <1>1 DEF RunsInv, Running, KindFor
<1>2. ASSUME NEW r \in Run, AgentCommits(r) \/ AgentConcludes(r)
      PROVE  RunsInv'
  <2>1. PICK line \in LogLine :
           /\ line.kind = KindFor(agent[r].task)
           /\ said'[r] = Append(said[r], line)
        BY <1>2, PrintEffect
  <2>2. /\ agent[r].at = "live" /\ agent'[r].at = agent[r].at
        /\ agent'[r].task = agent[r].task /\ status' = status
        /\ \A q \in Run : q # r => said'[q] = said[q] /\ agent'[q] = agent[q]
        BY <1>2, PrintEffect
  <2>3. \A i \in DOMAIN said'[r] : said'[r][i].kind = KindFor(agent[r].task)
    <3>1. said[r] \in Seq(LogLine) /\ Len(said[r]) \in Nat
          BY DEF LogTypeOK
    <3>2. /\ DOMAIN said'[r] = 1..(Len(said[r]) + 1) /\ DOMAIN said[r] = 1..Len(said[r])
          /\ \A i \in 1..Len(said[r]) : said'[r][i] = said[r][i]
          /\ said'[r][Len(said[r]) + 1] = line
          BY <2>1, <3>1
    <3>3. \A i \in 1..Len(said[r]) : said[r][i].kind = KindFor(agent[r].task)
          BY <3>2 DEF RunsInv
    <3>4. QED BY <2>1, <3>1, <3>2, <3>3
  <2>4. Running' = Running /\ \A q \in Run : agent'[q].task = agent[q].task
        BY <2>2, RunningIs
  <2>5. \A q, p \in Running' : q = p
        BY <2>4 DEF RunsInv
  <2>6. \A q \in Running' : status'[agent'[q].task] = "in_progress"
        BY <2>2, <2>4 DEF RunsInv, Running
  <2>7. \A q \in Run : /\ agent'[q].at = "free" => said'[q] = <<>> /\ agent'[q].pipe = <<>>
                       /\ agent'[q].at \in {"waited", "stored"} /\ agent'[q].kept
                             => agent'[q].pipe = <<>>
                       /\ agent'[q].at = "stored" => agent'[q].kept
        BY <2>2 DEF RunsInv
  <2>8. \A q \in Run : \A i \in DOMAIN said'[q] : said'[q][i].kind = KindFor(agent'[q].task)
        BY <2>2, <2>3, <2>4 DEF RunsInv
  <2>9. QED BY <2>5, <2>6, <2>7, <2>8 DEF RunsInv, KindFor
<1>3. ASSUME NEW r \in Run, AgentExits(r) \/ WaitForChild(r) \/ StoreExitCode(r)
      PROVE  RunsInv'
  <2>1. /\ agent[r].at \in Going /\ agent'[r].at \in Going
        /\ agent'[r].task = agent[r].task
        /\ agent'[r].at \in {"waited", "stored"} /\ agent'[r].kept => agent'[r].pipe = <<>>
        /\ agent'[r].at = "stored" => agent'[r].kept
        /\ \A q \in Run : q # r => agent'[q] = agent[q]
        /\ status' = status /\ said' = said
        BY <1>3, MoveEffect
  <2>2. Running' = Running /\ \A q \in Run : agent'[q].task = agent[q].task
        BY <2>1, RunningIs
  <2>3. \A q, p \in Running' : q = p
        BY <2>2 DEF RunsInv
  <2>4. \A q \in Running' : status'[agent'[q].task] = "in_progress"
        BY <2>1, <2>2 DEF RunsInv, Running
  <2>5. \A q \in Run : /\ agent'[q].at = "free" => said'[q] = <<>> /\ agent'[q].pipe = <<>>
                       /\ agent'[q].at \in {"waited", "stored"} /\ agent'[q].kept
                             => agent'[q].pipe = <<>>
                       /\ agent'[q].at = "stored" => agent'[q].kept
        BY <2>1 DEF RunsInv
  <2>6. \A q \in Run : \A i \in DOMAIN said'[q] : said'[q][i].kind = KindFor(agent'[q].task)
        BY <2>1, <2>2 DEF RunsInv
  <2>7. QED BY <2>3, <2>4, <2>5, <2>6 DEF RunsInv, KindFor
<1>4. ASSUME NEW r \in Run, CopyLine(r)
      PROVE  RunsInv'
  <2>1. /\ agent[r].pipe # <<>> /\ agent[r].at # "free"
        /\ agent'[r].at = agent[r].at /\ agent'[r].task = agent[r].task
        /\ agent'[r].kept = agent[r].kept
        /\ status' = status /\ said' = said
        BY <1>4, CopiedEffect
  <2>2. \A q \in Run : q # r => agent'[q] = agent[q]
        BY <1>4, CopyEffect
  <2>3. Running' = Running /\ \A q \in Run : agent'[q].task = agent[q].task
        BY <2>1, <2>2, RunningIs
  <2>4. \A q, p \in Running' : q = p
        BY <2>3 DEF RunsInv
  <2>5. \A q \in Running' : status'[agent'[q].task] = "in_progress"
        BY <2>1, <2>3 DEF RunsInv, Running
  <2>6. \A q \in Run : /\ agent'[q].at = "free" => said'[q] = <<>> /\ agent'[q].pipe = <<>>
                       /\ agent'[q].at \in {"waited", "stored"} /\ agent'[q].kept
                             => agent'[q].pipe = <<>>
                       /\ agent'[q].at = "stored" => agent'[q].kept
        BY <2>1, <2>2 DEF RunsInv
  <2>7. \A q \in Run : \A i \in DOMAIN said'[q] : said'[q][i].kind = KindFor(agent'[q].task)
        BY <2>1, <2>3 DEF RunsInv
  <2>8. QED BY <2>4, <2>5, <2>6, <2>7 DEF RunsInv, KindFor
<1>5. ASSUME NEW r \in Run, Reap(r) \/ TimeOut(r)
      PROVE  RunsInv'
  <2>1. /\ agent[r].at \in Going /\ agent'[r].at = "ended" /\ agent'[r].task = agent[r].task
        /\ \A q \in Run : q # r => agent'[q] = agent[q]
        /\ said' = said
        BY <1>5, EndEffect
  <2>2. Running = {r}
        BY <2>1, RunningIs DEF RunsInv
  <2>3. Running' = {}
        BY <2>1, <2>2, RunningIs
  <2>4. \A q \in Run : /\ agent'[q].at = "free" => said'[q] = <<>> /\ agent'[q].pipe = <<>>
                       /\ agent'[q].at \in {"waited", "stored"} /\ agent'[q].kept
                             => agent'[q].pipe = <<>>
                       /\ agent'[q].at = "stored" => agent'[q].kept
        BY <2>1 DEF RunsInv
  <2>5. \A q \in Run : \A i \in DOMAIN said'[q] : said'[q][i].kind = KindFor(agent'[q].task)
        BY <2>1 DEF RunsInv
  <2>6. QED BY <2>3, <2>4, <2>5 DEF RunsInv, KindFor
<1>6. ASSUME NEW t \in Task, Start(t) \/ Retry(t) \/ Skip(t)
      PROVE  RunsInv'
  <2>1. Running = {} /\ said' = said
        BY <1>6, BeginEffect
  <2>2. CASE agent' = agent
        BY <2>1, <2>2 DEF RunsInv, Running, KindFor
  <2>3. CASE \E n \in Run :
                /\ agent[n].at = "free" /\ agent'[n].task \in Task
                /\ agent'[n].at = "live" /\ agent'[n].pipe = <<>>
                /\ \A r \in Run : r # n => agent'[r] = agent[r]
                /\ status'[agent'[n].task] = "in_progress"
    <3>1. PICK n \in Run :
                /\ agent[n].at = "free" /\ agent'[n].task \in Task
                /\ agent'[n].at = "live" /\ agent'[n].pipe = <<>>
                /\ \A r \in Run : r # n => agent'[r] = agent[r]
                /\ status'[agent'[n].task] = "in_progress"
          BY <2>3
    <3>2. Running' = {n}
          BY <2>1, <3>1, RunningIs
    <3>3. said[n] = <<>> /\ DOMAIN said'[n] = {}
          BY <2>1, <3>1 DEF RunsInv
    <3>4. \A q \in Run : /\ agent'[q].at = "free" => said'[q] = <<>> /\ agent'[q].pipe = <<>>
                         /\ agent'[q].at \in {"waited", "stored"} /\ agent'[q].kept
                               => agent'[q].pipe = <<>>
                         /\ agent'[q].at = "stored" => agent'[q].kept
          BY <2>1, <3>1 DEF RunsInv
    <3>5. \A q \in Run : \A i \in DOMAIN said'[q] : said'[q][i].kind = KindFor(agent'[q].task)
          BY <2>1, <3>1, <3>3 DEF RunsInv
    <3>6. QED BY <3>1, <3>2, <3>4, <3>5 DEF RunsInv, KindFor
  <2>4. QED BY <1>6, <2>2, <2>3, BeginEffect
<1>7. QED BY <1>1, <1>2, <1>3, <1>4, <1>5, <1>6, LogSteps

\* Every step keeps what is last.
LEMMA NextOutput ==
    ASSUME LogTypeOK, RunsInv, OutputInv, [LogNext]_logVars
    PROVE  OutputInv'
<1> USE DEF Going
<1>1. CASE UNCHANGED <<status, hash, credited, skipped, head, file, agent, said, late>>
      BY <1>1 DEF OutputInv, Running
<1>2. ASSUME NEW r \in Run, AgentCommits(r) \/ AgentConcludes(r)
      PROVE  OutputInv'
  <2>1. PICK line \in LogLine :
           /\ said'[r] = Append(said[r], line)
           /\ agent'[r].pipe = Append(agent[r].pipe, line)
        BY <1>2, PrintEffect
  <2>2. agent[r].at = "live" /\ agent'[r].at = "live"
        /\ \A q \in Run : q # r => agent'[q] = agent[q]
        BY <1>2, PrintEffect
  <2>3. Running' = {r}
        BY <2>2, RunningIs DEF RunsInv
  <2>4. said[r] \in Seq(LogLine) /\ agent[r].pipe \in Seq(LogLine)
        BY DEF LogTypeOK, AgentRow
  <2>5. /\ said'[r] # <<>> /\ agent'[r].pipe # <<>>
        /\ Last(said'[r]) = line /\ Last(agent'[r].pipe) = line
    <3>1. \A q \in Seq(LogLine) : Append(q, line) # <<>> /\ Last(Append(q, line)) = line
          BY Written, LastLine
    <3>2. QED BY <2>1, <2>4, <3>1
  <2>6. QED BY <2>3, <2>5 DEF OutputInv
<1>3. ASSUME NEW r \in Run, AgentExits(r) \/ WaitForChild(r) \/ StoreExitCode(r)
      PROVE  OutputInv'
  <2>1. /\ agent[r].at \in Going /\ agent'[r].at \in Going
        /\ agent'[r].task = agent[r].task /\ agent'[r].pipe = agent[r].pipe
        /\ \A q \in Run : q # r => agent'[q] = agent[q]
        /\ UNCHANGED <<file, said, late>>
        BY <1>3, MoveEffect
  <2>2. Running = {r} /\ Running' = {r}
        BY <2>1, RunningIs DEF RunsInv
  <2>3. QED BY <2>1, <2>2 DEF OutputInv
<1>4. ASSUME NEW r \in Run, CopyLine(r)
      PROVE  OutputInv'
  <2>1. /\ agent[r].pipe \in Seq(LogLine) /\ agent[r].pipe # <<>> /\ agent[r].at # "free"
        /\ agent'[r].pipe = Tail(agent[r].pipe)
        /\ agent'[r].at = agent[r].at /\ agent'[r].task = agent[r].task
        /\ said' = said /\ late \subseteq late'
        /\ agent[r].at = "ended" => agent[r].task \in late'
        BY <1>4, CopiedEffect
  <2>2. /\ \A q \in Run : q # r => agent'[q] = agent[q]
        /\ agent[r].task \in Task
        /\ file'[agent[r].task] = Append(file[agent[r].task], Head(agent[r].pipe))
        /\ \A t \in Task : t # agent[r].task => file'[t] = file[t]
        BY <1>4, CopyEffect
  <2>3. CASE agent[r].at = "ended"
    <3>1. Running' = Running /\ r \notin Running
          BY <2>1, <2>2, <2>3, RunningIs
    <3>2. ASSUME NEW q \in Running', agent'[q].task \notin late'
          PROVE  /\ q \in Running /\ agent'[q] = agent[q] /\ agent[q].task \notin late
                 /\ file'[agent[q].task] = file[agent[q].task]
      <4>1. q \in Running /\ q \in Run /\ q # r /\ agent'[q] = agent[q]
            BY <2>2, <3>1 DEF Running
      <4>2. agent[q].task \in Task
            BY <4>1 DEF LogTypeOK, AgentRow
      <4>3. QED BY <2>1, <2>2, <2>3, <3>2, <4>1, <4>2
    <3>3. QED BY <2>1, <3>2 DEF OutputInv
  <2>4. CASE agent[r].at # "ended"
    <3>1. agent[r].at \in Going
      <4>1. agent[r] \in AgentRow
            BY DEF LogTypeOK
      <4>2. QED BY <2>1, <2>4, <4>1 DEF AgentRow
    <3>2. Running = {r} /\ Running' = {r}
          BY <2>1, <2>2, <3>1, RunningIs DEF RunsInv
    <3>3. ASSUME agent[r].task \notin late'
          PROVE  /\ agent'[r].pipe # <<>> => said[r] # <<>> /\ Last(agent'[r].pipe) = Last(said[r])
                 /\ agent'[r].pipe = <<>> /\ said[r] # <<>> =>
                       /\ file'[agent[r].task] # <<>>
                       /\ Last(file'[agent[r].task]) = Last(said[r])
      <4>1. said[r] # <<>> /\ Last(agent[r].pipe) = Last(said[r])
            BY <2>1, <3>2, <3>3 DEF OutputInv
      <4>2. /\ Head(agent[r].pipe) \in LogLine /\ file[agent[r].task] \in Seq(LogLine)
            BY <2>1, <2>2, Read DEF LogTypeOK
      <4>3. /\ file'[agent[r].task] # <<>>
            /\ Last(file'[agent[r].task]) = Head(agent[r].pipe)
            BY <2>2, <4>2, Written, LastLine
      <4>4. /\ agent'[r].pipe # <<>> => Last(agent'[r].pipe) = Last(agent[r].pipe)
            /\ agent'[r].pipe = <<>> => Last(agent[r].pipe) = Head(agent[r].pipe)
            BY <2>1, <4>2, LastLine
      <4>5. QED BY <4>1, <4>3, <4>4
    <3>4. QED BY <2>1, <3>2, <3>3 DEF OutputInv
  <2>5. QED BY <2>3, <2>4
<1>5. ASSUME NEW r \in Run, Reap(r) \/ TimeOut(r)
      PROVE  OutputInv'
  <2>1. /\ agent[r].at \in Going /\ agent'[r].at = "ended"
        /\ \A q \in Run : q # r => agent'[q] = agent[q]
        BY <1>5, EndEffect
  <2>2. Running = {r}
        BY <2>1, RunningIs DEF RunsInv
  <2>3. Running' = {}
        BY <2>1, <2>2, RunningIs
  <2>4. QED BY <2>3 DEF OutputInv
<1>6. ASSUME NEW t \in Task, Start(t) \/ Retry(t) \/ Skip(t)
      PROVE  OutputInv'
  <2>1. Running = {} /\ said' = said
        BY <1>6, BeginEffect
  <2>2. CASE agent' = agent
        BY <2>1, <2>2 DEF OutputInv, Running
  <2>3. CASE \E n \in Run :
                /\ agent[n].at = "free" /\ agent'[n].task \in Task
                /\ agent'[n].at = "live" /\ agent'[n].pipe = <<>>
                /\ \A r \in Run : r # n => agent'[r] = agent[r]
                /\ status'[agent'[n].task] = "in_progress"
    <3>1. PICK n \in Run :
                /\ agent[n].at = "free"
                /\ agent'[n].at = "live" /\ agent'[n].pipe = <<>>
                /\ \A r \in Run : r # n => agent'[r] = agent[r]
          BY <2>3
    <3>2. Running' = {n}
          BY <2>1, <3>1, RunningIs
    <3>3. said'[n] = <<>>
          BY <2>1, <3>1 DEF RunsInv
    <3>4. QED BY <3>1, <3>2, <3>3 DEF OutputInv
  <2>4. QED BY <1>6, <2>2, <2>3, BeginEffect
<1>7. QED BY <1>1, <1>2, <1>3, <1>4, <1>5, <1>6, LogSteps

-----------------------------------------------------------------------------
(***************************************************************************)
(* CreditInv: a verdict rests on what the agent printed last.              *)
(***************************************************************************)

\* What an agent that succeeds is judged by.
LEMMA JudgedByLast ==
    ASSUME LogTypeOK, RunsInv, OutputInv, NEW r \in Run, Succeeded(r),
           agent[r].task \notin late, said[r] # <<>>
    PROVE  LET t == agent[r].task IN
           /\ Last(said[r]).good
           /\ Found(KindFor(t), t) = Last(said[r])
           /\ Len(said[r]) \in DOMAIN said[r] /\ Last(said[r]) \in LogLine
<1> DEFINE t == agent[r].task
<1>1. /\ agent[r].at = "stored" /\ t \in Task
      /\ Found(KindFor(t), t).good
      BY DEF Succeeded, LogTypeOK, AgentRow
<1>2. agent[r].pipe = <<>> /\ r \in Running
      BY <1>1 DEF RunsInv, Running
<1>3. file[t] # <<>> /\ Last(file[t]) = Last(said[r])
      BY <1>2 DEF OutputInv
<1>4. said[r] \in Seq(LogLine) /\ Len(said[r]) \in DOMAIN said[r]
  <2>1. said[r] \in Seq(LogLine)
        BY DEF LogTypeOK
  <2>2. QED BY <2>1
<1>5. Last(said[r]) \in LogLine /\ Last(said[r]).kind = KindFor(t)
  <2>1. Last(said[r]).kind = KindFor(t)
        BY <1>4 DEF RunsInv, Last
  <2>2. Last(said[r]) \in LogLine
        BY <1>4 DEF Last
  <2>3. QED BY <2>1, <2>2
<1>6. Found(KindFor(t), t) = Last(file[t])
      BY <1>1, <1>3, <1>5, FoundLast
<1>7. QED BY <1>1, <1>3, <1>4, <1>5, <1>6

\* What a task is done by stays.
LEMMA CreditStays ==
    ASSUME LogTypeOK, RunsInv, CreditInv, [LogNext]_logVars
    PROVE  /\ skipped \subseteq skipped' /\ late \subseteq late'
           /\ \A t \in Task : credited[t] # 0 =>
                 /\ credited'[t] = credited[t] /\ credited[t] \in Run
                 /\ status'[t] = "done" /\ hash'[t] = hash[t]
                 /\ agent'[credited[t]].at = "ended"
                 /\ said'[credited[t]] = said[credited[t]]
<1> USE DEF Going
<1> DEFINE Kept(t) == /\ credited'[t] = credited[t]
                      /\ status'[t] = "done" /\ hash'[t] = hash[t]
                      /\ agent'[credited[t]].at = "ended"
                      /\ said'[credited[t]] = said[credited[t]]
<1>0. \A t \in Task : credited[t] # 0 =>
         credited[t] \in Run /\ status[t] = "done" /\ agent[credited[t]].at = "ended"
  <2>1. \A t \in Task : credited[t] \in 0..MaxRuns
        BY DEF LogTypeOK
  <2>2. QED BY <2>1, AgentLogAssumption DEF CreditInv, Run
<1>1. CASE UNCHANGED <<status, hash, credited, skipped, head, file, agent, said, late>>
      BY <1>0, <1>1
<1>2. ASSUME NEW r \in Run, AgentCommits(r) \/ AgentConcludes(r)
      PROVE  /\ skipped' = skipped /\ late' = late
             /\ \A t \in Task : credited[t] # 0 => Kept(t)
  <2>1. /\ agent[r].at = "live"
        /\ \A q \in Run : q # r => said'[q] = said[q] /\ agent'[q] = agent[q]
        /\ UNCHANGED <<status, hash, credited, skipped, late>>
        BY <1>2, PrintEffect
  <2>2. QED BY <1>0, <2>1
<1>3. ASSUME NEW r \in Run, AgentExits(r) \/ WaitForChild(r) \/ StoreExitCode(r)
      PROVE  /\ skipped' = skipped /\ late' = late
             /\ \A t \in Task : credited[t] # 0 => Kept(t)
  <2>1. /\ agent[r].at \in Going
        /\ \A q \in Run : q # r => agent'[q] = agent[q]
        /\ UNCHANGED <<status, hash, credited, skipped, said, late>>
        BY <1>3, MoveEffect
  <2>2. QED BY <1>0, <2>1
<1>4. ASSUME NEW r \in Run, CopyLine(r)
      PROVE  /\ skipped' = skipped /\ late \subseteq late'
             /\ \A t \in Task : credited[t] # 0 => Kept(t)
  <2>1. /\ agent'[r].at = agent[r].at
        /\ UNCHANGED <<status, hash, credited, skipped, said>>
        /\ late \subseteq late'
        BY <1>4, CopiedEffect
  <2>2. \A q \in Run : q # r => agent'[q] = agent[q]
        BY <1>4, CopyEffect
  <2>3. QED BY <1>0, <2>1, <2>2
<1>5. ASSUME NEW r \in Run, Reap(r) \/ TimeOut(r)
      PROVE  /\ skipped' = skipped /\ late' = late
             /\ \A t \in Task : credited[t] # 0 => Kept(t)
  <2>1. /\ agent[r].at \in Going
        /\ \A q \in Run : q # r => agent'[q] = agent[q]
        /\ UNCHANGED <<skipped, said, late>>
        /\ \A u \in Task : u # agent[r].task =>
              status'[u] = status[u] /\ credited'[u] = credited[u] /\ hash'[u] = hash[u]
        BY <1>5, EndEffect
  <2>2. r \in Running
        BY <2>1, RunningIs
  <2>3. status[agent[r].task] = "in_progress"
        BY <2>2 DEF RunsInv
  <2>4. QED BY <1>0, <2>1, <2>3
<1>6. ASSUME NEW t \in Task, Start(t) \/ Retry(t) \/ Skip(t)
      PROVE  /\ skipped \subseteq skipped' /\ late' = late
             /\ \A u \in Task : credited[u] # 0 => Kept(u)
  <2>1. /\ UNCHANGED <<hash, credited, said, late>> /\ skipped \subseteq skipped'
        /\ \A u \in Task : status[u] = "done" => status'[u] = "done"
        BY <1>6, BeginEffect
  <2>2. \A q \in Run : agent[q].at = "ended" => agent'[q].at = "ended"
    <3>1. CASE agent' = agent
          BY <3>1
    <3>2. CASE \E n \in Run : agent[n].at = "free" /\ \A r \in Run : r # n => agent'[r] = agent[r]
          BY <3>2
    <3>3. QED BY <1>6, <3>1, <3>2, BeginEffect
  <2>3. QED BY <1>0, <2>1, <2>2
<1>7. QED BY <1>0, <1>1, <1>2, <1>3, <1>4, <1>5, <1>6, LogSteps

\* Who is done, and by whom.
LEMMA CreditGrows ==
    ASSUME LogTypeOK, RunsInv, CreditInv, [LogNext]_logVars, NEW t \in Task,
           credited'[t] # 0 \/ (status'[t] = "done" /\ t \notin skipped')
    PROVE  \/ credited[t] # 0
           \/ \E r \in Run : /\ agent[r].task = t /\ Succeeded(r) /\ agent[r].at \in Going
                             /\ credited'[t] = r /\ status'[t] = "done"
                             /\ agent'[r].at = "ended"
                             /\ said' = said /\ late' = late
                             /\ t \in Impl => hash'[t] = Found("commit", t).at
<1>0. status[t] = "done" /\ t \notin skipped => credited[t] # 0
      BY DEF CreditInv
<1>1. CASE UNCHANGED <<status, hash, credited, skipped, head, file, agent, said, late>>
      BY <1>0, <1>1
<1>2. ASSUME NEW r \in Run, \/ AgentCommits(r) \/ AgentConcludes(r)
                            \/ AgentExits(r) \/ WaitForChild(r) \/ StoreExitCode(r)
                            \/ CopyLine(r)
      PROVE  UNCHANGED <<status, credited, skipped>>
      BY <1>2, PrintEffect, MoveEffect, CopiedEffect
<1>3. ASSUME NEW r \in Run, Reap(r) \/ TimeOut(r)
      PROVE  \/ credited[t] # 0
             \/ /\ agent[r].task = t /\ Succeeded(r) /\ agent[r].at \in Going
                /\ credited'[t] = r /\ status'[t] = "done"
                /\ agent'[r].at = "ended"
                /\ said' = said /\ late' = late
                /\ t \in Impl => hash'[t] = Found("commit", t).at
  <2>1. /\ agent[r].at \in Going /\ agent'[r].at = "ended"
        /\ UNCHANGED <<skipped, said, late>>
        /\ \A u \in Task : u # agent[r].task =>
              status'[u] = status[u] /\ credited'[u] = credited[u]
        /\ \/ /\ Succeeded(r) /\ status'[agent[r].task] = "done"
              /\ agent[r].task \in Impl =>
                    hash'[agent[r].task] = Found("commit", agent[r].task).at
              /\ credited'[agent[r].task] = r
           \/ /\ status'[agent[r].task] = "failed"
              /\ UNCHANGED <<hash, credited>>
        BY <1>3, EndEffect
  <2>2. CASE agent[r].task # t
        BY <1>0, <2>1, <2>2
  <2>3. CASE agent[r].task = t
        BY <1>0, <2>1, <2>3
  <2>4. QED BY <2>2, <2>3
<1>4. ASSUME NEW u \in Task, Start(u) \/ Retry(u) \/ Skip(u)
      PROVE  credited[t] # 0
  <2>1. /\ credited' = credited /\ skipped \subseteq skipped'
        /\ status'[t] = "done" => status[t] = "done" \/ t \in skipped'
        BY <1>4, BeginEffect
  <2>2. QED BY <1>0, <2>1
<1>5. CASE UNCHANGED <<status, credited, skipped>>
      BY <1>0, <1>5
<1>6. QED BY <1>1, <1>2, <1>3, <1>4, <1>5, LogSteps

\* Every step keeps it.
LEMMA NextCredit ==
    ASSUME LogTypeOK, RunsInv, OutputInv, CreditInv, [LogNext]_logVars
    PROVE  CreditInv'
<1>1. ASSUME NEW t \in Task, credited'[t] # 0
      PROVE  status'[t] = "done" /\ agent'[credited'[t]].at = "ended"
      BY <1>1, CreditStays, CreditGrows
<1>2. ASSUME NEW t \in Task, status'[t] = "done", t \notin skipped'
      PROVE  credited'[t] # 0
  <2>1. CASE credited[t] # 0
        BY <2>1, CreditStays
  <2>2. ASSUME NEW r \in Run, credited'[t] = r
        PROVE  credited'[t] # 0
        BY <2>2 DEF Run
  <2>3. QED BY <1>2, <2>1, <2>2, CreditGrows
<1>3. ASSUME NEW t \in Task, status'[t] = "done", t \notin skipped' \cup late',
             credited'[t] # 0, said'[credited'[t]] # <<>>
      PROVE  /\ Last(said'[credited'[t]]).good
             /\ t \in Impl => hash'[t] = Last(said'[credited'[t]]).at
  <2>1. t \notin skipped /\ t \notin late
        BY <1>3, CreditStays
  <2>2. CASE credited[t] # 0
    <3>1. /\ credited'[t] = credited[t] /\ hash'[t] = hash[t]
          /\ said'[credited[t]] = said[credited[t]]
          BY <2>2, CreditStays
    <3>2. /\ status[t] = "done" /\ VerdictByOwnOutput
          BY <2>2 DEF CreditInv
    <3>3. /\ Last(said[credited[t]]).good
          /\ t \in Impl => hash[t] = Last(said[credited[t]]).at
          BY <1>3, <2>1, <2>2, <3>1, <3>2 DEF VerdictByOwnOutput
    <3>4. QED BY <3>1, <3>3
  <2>3. ASSUME NEW r \in Run, agent[r].task = t, Succeeded(r), credited'[t] = r,
               said' = said, t \in Impl => hash'[t] = Found("commit", t).at
        PROVE  /\ Last(said'[credited'[t]]).good
               /\ t \in Impl => hash'[t] = Last(said'[credited'[t]]).at
    <3>1. Last(said[r]).good /\ Found(KindFor(t), t) = Last(said[r])
          BY <1>3, <2>1, <2>3, JudgedByLast
    <3>2. QED BY <2>3, <3>1 DEF KindFor
  <2>4. QED BY <1>3, <2>2, <2>3, CreditGrows
<1>4. VerdictByOwnOutput'
  <2>1. SUFFICES ASSUME NEW t \in Task, status'[t] = "done", t \notin skipped' \cup late',
                        (IF credited'[t] = 0 THEN <<>> ELSE said'[credited'[t]]) # <<>>
                 PROVE  LET own == IF credited'[t] = 0 THEN <<>> ELSE said'[credited'[t]]
                        IN  Last(own).good /\ (t \in Impl => hash'[t] = Last(own).at)
        BY DEF VerdictByOwnOutput
  <2>2. credited'[t] # 0
        BY <2>1
  <2>3. QED BY <1>3, <2>1, <2>2
<1>5. QED BY <1>1, <1>2, <1>4 DEF CreditInv

\* A task is done by what the agent credited with it printed last, although the
\* file has the lines of earlier attempts too (scheduler_loop.rs 137 to 197).
THEOREM VerdictsAreOwn == LogSpec => []VerdictByOwnOutput
<1>1. LogInit => RunsInv /\ OutputInv /\ CreditInv
      BY DEF LogInit, RunsInv, OutputInv, CreditInv, VerdictByOwnOutput, Running, FreeRow
<1>2. CreditInv => VerdictByOwnOutput
      BY DEF CreditInv
<1>3. QED BY <1>1, <1>2, LogInitType, LogNextType, NextRuns, NextOutput, NextCredit,
             PTL DEF LogSpec

-----------------------------------------------------------------------------
(***************************************************************************)
(* StackInv: commits on top of commits.                                    *)
(***************************************************************************)

\* Hashes and the commits that are printed are commits.
LEMMA Commits ==
    ASSUME LogTypeOK
    PROVE  /\ head \in Commit
           /\ \A t \in Impl : t \in Task /\ hash[t] \in Commit
           /\ \A r \in Run : \A i \in DOMAIN said[r] : said[r][i].at \in Commit
<1>1. head \in Commit /\ \A t \in Impl : t \in Task /\ hash[t] \in Commit
      BY AgentLogAssumption DEF LogTypeOK
<1>2. ASSUME NEW r \in Run, NEW i \in DOMAIN said[r]
      PROVE  said[r][i].at \in Commit
  <2>1. said[r] \in Seq(LogLine)
        BY DEF LogTypeOK
  <2>2. said[r][i] \in LogLine
        BY <1>2, <2>1
  <2>3. QED BY <2>2 DEF LogLine
<1>3. QED BY <1>1, <1>2

\* Work that is not its own stays so.
LEMMA OwnBefore ==
    ASSUME LogTypeOK, RunsInv, CreditInv, [LogNext]_logVars, OwnWork'
    PROVE  OwnWork
<1>1. skipped \cup late = {}
      BY CreditStays DEF OwnWork
<1>2. ASSUME NEW t \in Task, Stale(t)
      PROVE  FALSE
  <2>1. credited[t] # 0 /\ said[credited[t]] = <<>>
        BY <1>2 DEF Stale
  <2>2. credited'[t] = credited[t] /\ said'[credited[t]] = said[credited[t]]
        BY <2>1, CreditStays
  <2>3. ~(credited'[t] # 0 /\ said'[credited'[t]] = <<>>)
        BY DEF OwnWork, Stale
  <2>4. QED BY <2>1, <2>2, <2>3
<1>3. QED BY <1>1, <1>2 DEF OwnWork

\* The commits of an agent are put on top.
LEMMA StackCommits ==
    ASSUME LogTypeOK, RunsInv, OneByOne, Stacked, OnTop, NEW r \in Run, AgentCommits(r)
    PROVE  OneByOne' /\ Stacked' /\ OnTop'
<1>1. /\ head \in Commit /\ head' \in Commit
      /\ IsPrefix(head, head') /\ IsPrefix(head', head')
      BY CommitEffect, Commits
<1>2. PICK line \in LogLine : /\ said'[r] = Append(said[r], line)
                              /\ line.at = head'
      BY PrintEffect
<1>3. /\ agent[r].at = "live" /\ agent'[r].at = "live" /\ agent'[r].task = agent[r].task
      /\ \A q \in Run : q # r => agent'[q] = agent[q]
      /\ status' = status /\ hash' = hash
      BY PrintEffect
<1>4. Running = {r} /\ Running' = {r}
      BY <1>3, RunningIs DEF RunsInv, Going
<1>5. \A t \in Impl : status[t] = "done" => IsPrefix(hash[t], head')
      BY <1>1, Commits, PrefixOfPrefix DEF Stacked
<1>6. OneByOne'
      BY <1>3 DEF OneByOne
<1>7. Stacked'
      BY <1>3, <1>5 DEF Stacked
<1>8. ASSUME agent[r].task \in Impl, NEW i \in DOMAIN said'[r]
      PROVE  /\ IsPrefix(said'[r][i].at, head')
             /\ \A t \in Impl : status[t] = "done" => IsPrefix(hash[t], said'[r][i].at)
  <2>1. said[r] \in Seq(LogLine)
        BY DEF LogTypeOK
  <2>2. /\ DOMAIN said'[r] = 1..(Len(said[r]) + 1) /\ DOMAIN said[r] = 1..Len(said[r])
        /\ Len(said[r]) \in Nat
        /\ \A k \in 1..Len(said[r]) : said'[r][k] = said[r][k]
        /\ said'[r][Len(said[r]) + 1] = line
        BY <1>2, <2>1
  <2>3. CASE i = Len(said[r]) + 1
        BY <1>1, <1>2, <1>5, <2>2, <2>3
  <2>4. CASE i \in DOMAIN said[r]
    <3>1. said'[r][i] = said[r][i] /\ said[r][i].at \in Commit
          BY <2>2, <2>4, Commits
    <3>2. /\ IsPrefix(said[r][i].at, head)
          /\ \A t \in Impl : status[t] = "done" => IsPrefix(hash[t], said[r][i].at)
          BY <1>4, <1>8, <2>4 DEF OnTop
    <3>3. IsPrefix(said[r][i].at, head')
          BY <1>1, <3>1, <3>2, PrefixOfPrefix
    <3>4. QED BY <3>1, <3>2, <3>3
  <2>5. QED BY <1>8, <2>2, <2>3, <2>4
<1>9. OnTop'
      BY <1>3, <1>4, <1>8 DEF OnTop
<1>10. QED BY <1>6, <1>7, <1>9

\* A task that ends was the last one begun.
LEMMA StackEnds ==
    ASSUME LogTypeOK, RunsInv, OutputInv, OwnWork, OneByOne, Stacked, OnTop,
           NEW r \in Run, Reap(r) \/ TimeOut(r), ~Stale(agent[r].task)'
    PROVE  OneByOne' /\ Stacked' /\ OnTop'
<1> DEFINE e == agent[r].task
<1>1. /\ agent[r].at \in Going /\ e \in Task /\ agent'[r].at = "ended"
      /\ \A q \in Run : q # r => agent'[q] = agent[q]
      /\ head' = head /\ said' = said
      /\ \A u \in Task : u # e => status'[u] = status[u] /\ hash'[u] = hash[u]
      BY EndEffect
<1>2. Running = {r} /\ Running' = {}
      BY <1>1, RunningIs DEF RunsInv, Going
<1>3. status[e] = "in_progress"
      BY <1>2 DEF RunsInv
<1>4. \/ /\ Succeeded(r) /\ status'[e] = "done" /\ credited'[e] = r
         /\ e \in Impl => hash'[e] = Found("commit", e).at
      \/ status'[e] = "failed" /\ hash' = hash
      BY EndEffect
<1>5. Task \subseteq Nat /\ Impl \subseteq Task
      BY AgentLogAssumption
<1> HIDE DEF e
<1>6. \A u \in Task : e < u => status[u] = "pending"
      BY <1>1, <1>3 DEF OneByOne
<1>7. OneByOne'
  <2>1. \A t \in Task : status'[t] # "cancelled"
        BY <1>1, <1>4 DEF OneByOne
  <2>2. ASSUME NEW t \in Task, NEW u \in Task, t < u, status'[u] # "pending"
        PROVE  status'[t] = "done"
    <3>1. t \in Nat /\ u \in Nat /\ t # u
          BY <1>5, <2>2
    <3>2. status[u] # "pending"
          BY <1>1, <1>3, <2>2
    <3>3. status[t] = "done"
          BY <2>2, <3>2 DEF OneByOne
    <3>4. QED BY <1>1, <1>3, <3>3
  <2>3. QED BY <2>1, <2>2 DEF OneByOne
<1>8. Stacked'
  <2>1. CASE status'[e] = "failed" /\ hash' = hash
    <3>1. \A t \in Impl : status'[t] = "done" => status[t] = "done"
          BY <1>1, <1>5, <2>1
    <3>2. QED BY <1>1, <2>1, <3>1 DEF Stacked
  <2>2. ASSUME Succeeded(r), status'[e] = "done", credited'[e] = r,
               e \in Impl => hash'[e] = Found("commit", e).at
        PROVE  Stacked'
    <3>1. said[r] # <<>>
      <4>0. agent'[r].task = agent[r].task
            BY EndEffect
      <4>1. ~(credited'[e] # 0 /\ said'[credited'[e]] = <<>>)
            BY <4>0 DEF Stale, e
      <4>2. QED BY <1>1, <2>2, <4>1 DEF Run
    <3>2. ASSUME e \in Impl
          PROVE  /\ IsPrefix(hash'[e], head)
                 /\ \A t \in Impl : status[t] = "done" => IsPrefix(hash[t], hash'[e])
      <4>1. e \notin late
            BY DEF OwnWork
      <4>2. Found(KindFor(e), e) = Last(said[r]) /\ Len(said[r]) \in DOMAIN said[r]
            BY <2>2, <3>1, <4>1, JudgedByLast DEF e
      <4>3. hash'[e] = said[r][Len(said[r])].at
            BY <2>2, <3>2, <4>2 DEF KindFor, Last
      <4>4. QED BY <1>2, <3>2, <4>2, <4>3 DEF OnTop, e
    <3>3. ASSUME NEW t \in Impl, status'[t] = "done"
          PROVE  IsPrefix(hash'[t], head')
      <4>1. CASE t = e
            BY <1>1, <3>2, <3>3, <4>1
      <4>2. CASE t # e
            BY <1>1, <1>5, <3>3, <4>2 DEF Stacked
      <4>3. QED BY <4>1, <4>2
    <3>4. ASSUME NEW t \in Impl, NEW u \in Impl, status'[t] = "done", status'[u] = "done", t < u
          PROVE  IsPrefix(hash'[t], hash'[u])
      <4>0. t \in Task /\ u \in Task /\ t # u
            BY <1>5, <3>4
      <4>1. CASE t = e
            BY <1>1, <1>6, <3>4, <4>0, <4>1
      <4>2. CASE t # e /\ u = e
        <5>1. status[t] = "done" /\ hash'[t] = hash[t]
              BY <1>1, <3>4, <4>0, <4>2
        <5>2. QED BY <3>2, <3>4, <4>2, <5>1
      <4>3. CASE t # e /\ u # e
        <5>1. /\ status[t] = "done" /\ hash'[t] = hash[t]
              /\ status[u] = "done" /\ hash'[u] = hash[u]
              BY <1>1, <3>4, <4>0, <4>3
        <5>2. QED BY <3>4, <5>1 DEF Stacked
      <4>4. QED BY <4>1, <4>2, <4>3
    <3>5. QED BY <3>3, <3>4 DEF Stacked
  <2>3. QED BY <1>4, <2>1, <2>2
<1>9. OnTop'
      BY <1>2 DEF OnTop
<1>10. QED BY <1>7, <1>8, <1>9

\* An agent that begins has committed nothing.
LEMMA BeginsBelow ==
    ASSUME LogTypeOK, RunsInv, NEW t \in Task, Start(t) \/ Retry(t) \/ Skip(t)
    PROVE  OnTop'
<1>1. Running = {} /\ said' = said
      BY BeginEffect
<1>2. CASE agent' = agent
      BY <1>1, <1>2, RunningIs DEF OnTop
<1>3. ASSUME NEW n \in Run, agent[n].at = "free", \A r \in Run : r # n => agent'[r] = agent[r]
      PROVE  OnTop'
  <2>1. Running' \subseteq {n}
        BY <1>1, <1>3, RunningIs
  <2>2. DOMAIN said'[n] = {}
    <3>1. said[n] = <<>>
          BY <1>3 DEF RunsInv
    <3>2. QED BY <1>1, <3>1
  <2>3. QED BY <2>1, <2>2 DEF OnTop
<1>4. QED BY <1>2, <1>3, BeginEffect

\* A task begins when those before it are done.
LEMMA StackStarts ==
    ASSUME LogTypeOK, RunsInv, OneByOne, Stacked, NEW t \in Task, Start(t)
    PROVE  OneByOne' /\ Stacked'
<1>1. /\ status[t] = "pending" /\ status'[t] = "in_progress"
      /\ \A u \in Task : u # t => status'[u] = status[u]
      /\ \A u \in Task : u < t => status[u] \in {"done", "cancelled"}
      /\ hash' = hash /\ head' = head
      BY DEF Start, LogTypeOK
<1>2. Task \subseteq Nat /\ Impl \subseteq Task
      BY AgentLogAssumption
<1>3. OneByOne'
  <2>1. \A u \in Task : status'[u] # "cancelled"
        BY <1>1 DEF OneByOne
  <2>2. ASSUME NEW v \in Task, NEW u \in Task, v < u, status'[u] # "pending"
        PROVE  status'[v] = "done"
    <3>1. CASE u = t
      <4>1. v # t
            BY <1>2, <2>2, <3>1
      <4>2. QED BY <1>1, <2>2, <3>1, <4>1 DEF OneByOne
    <3>2. CASE u # t
      <4>1. status[v] = "done"
            BY <1>1, <2>2, <3>2 DEF OneByOne
      <4>2. QED BY <1>1, <4>1
    <3>3. QED BY <3>1, <3>2
  <2>3. QED BY <2>1, <2>2 DEF OneByOne
<1>4. \A u \in Impl : status'[u] = "done" => status[u] = "done"
      BY <1>1, <1>2
<1>5. Stacked'
      BY <1>1, <1>4 DEF Stacked
<1>6. QED BY <1>3, <1>5

\* The worktree is reset to the commit of the last done task.
LEMMA StackRetries ==
    ASSUME LogTypeOK, OneByOne, Stacked, NEW t \in Task, Retry(t)
    PROVE  OneByOne' /\ Stacked'
<1>1. /\ status[t] = "failed" /\ hash' = hash
      /\ head' = IF t \in Impl THEN ResetTo(t) ELSE head
      /\ \A u \in Task : u # t => status'[u] = status[u]
      /\ status'[t] \in {"failed", "in_progress"}
  <2>1. status' = status \/ status' = [status EXCEPT ![t] = "in_progress"]
        BY DEF Retry
  <2>2. /\ \A u \in Task : u # t => status'[u] = status[u]
        /\ status'[t] \in {status[t], "in_progress"}
        BY <2>1 DEF LogTypeOK
  <2>3. QED BY <2>2 DEF Retry
<1>2. Task \subseteq Nat /\ Impl \subseteq Task
      BY AgentLogAssumption
<1>3. \A u \in Task : status'[u] = "done" <=> status[u] = "done"
      BY <1>1
<1>4. OneByOne'
  <2>1. \A u \in Task : status'[u] # "cancelled" /\ (status'[u] # "pending" => status[u] # "pending")
        BY <1>1 DEF OneByOne
  <2>2. QED BY <1>3, <2>1 DEF OneByOne
<1>5. \A u \in Impl : status[u] = "done" => IsPrefix(hash[u], head')
  <2>1. CASE t \notin Impl
        BY <1>1, <2>1 DEF Stacked
  <2>2. ASSUME t \in Impl, NEW u \in Impl, status[u] = "done"
        PROVE  IsPrefix(hash[u], head')
    <3>1. u \in DoneBefore(t)
      <4>1. u \in Nat /\ t \in Nat /\ u # t /\ u \in Task
            BY <1>1, <1>2, <2>2
      <4>2. ~(t < u)
            BY <1>1, <2>2, <4>1 DEF OneByOne
      <4>3. QED BY <2>2, <4>1, <4>2 DEF DoneBefore
    <3>2. LatestBefore(t) \in DoneBefore(t) /\ u <= LatestBefore(t)
          BY <3>1, LatestIs
    <3> DEFINE l == LatestBefore(t)
    <3>3. head' = hash[l]
          BY <1>1, <2>2, <3>1 DEF ResetTo
    <3>4. l \in Impl /\ status[l] = "done" /\ u <= l
          BY <3>2 DEF DoneBefore
    <3> HIDE DEF l
    <3>5. CASE u = l
          BY <2>2, <3>3, <3>5, Commits, PrefixIs DEF Commit
    <3>6. CASE u < l
          BY <2>2, <3>3, <3>4, <3>6 DEF Stacked
    <3>7. QED BY <1>2, <3>4, <3>5, <3>6
  <2>3. QED BY <2>1, <2>2
<1>6. Stacked'
      BY <1>1, <1>2, <1>3, <1>5 DEF Stacked
<1>7. QED BY <1>4, <1>6

\* Every step keeps the stack.
LEMMA NextStack ==
    ASSUME LogTypeOK, RunsInv, OutputInv, CreditInv, StackInv, [LogNext]_logVars
    PROVE  StackInv'
<1>1. SUFFICES ASSUME OwnWork' PROVE OneByOne' /\ Stacked' /\ OnTop'
      BY DEF StackInv
<1>2. OwnWork /\ OneByOne /\ Stacked /\ OnTop
      BY <1>1, OwnBefore DEF StackInv
<1>3. ASSUME UNCHANGED <<status, hash, head, said>>, Running' = Running,
             \A r \in Running : agent'[r].task = agent[r].task
      PROVE  OneByOne' /\ Stacked' /\ OnTop'
  <2>1. OneByOne' /\ Stacked'
        BY <1>2, <1>3 DEF OneByOne, Stacked
  <2>2. OnTop'
        BY <1>2, <1>3 DEF OnTop
  <2>3. QED BY <2>1, <2>2
<1>4. CASE UNCHANGED <<status, hash, credited, skipped, head, file, agent, said, late>>
      BY <1>3, <1>4, RunningIs
<1>5. ASSUME NEW r \in Run, AgentCommits(r)
      PROVE  OneByOne' /\ Stacked' /\ OnTop'
      BY <1>2, <1>5, StackCommits
<1>6. ASSUME NEW r \in Run, AgentConcludes(r)
      PROVE  OneByOne' /\ Stacked' /\ OnTop'
  <2>1. /\ agent[r].task \notin Impl /\ head' = head
        BY <1>6, ConcludeEffect
  <2>2. /\ agent[r].at = "live" /\ agent'[r].at = "live" /\ agent'[r].task = agent[r].task
        /\ \A q \in Run : q # r => agent'[q] = agent[q]
        /\ status' = status /\ hash' = hash
        BY <1>6, PrintEffect
  <2>3. Running' = {r}
        BY <2>2, RunningIs DEF RunsInv, Going
  <2>4. OneByOne' /\ Stacked'
        BY <1>2, <2>1, <2>2 DEF OneByOne, Stacked
  <2>5. OnTop'
        BY <2>1, <2>2, <2>3 DEF OnTop
  <2>6. QED BY <2>4, <2>5
<1>7. ASSUME NEW r \in Run, AgentExits(r) \/ WaitForChild(r) \/ StoreExitCode(r)
      PROVE  OneByOne' /\ Stacked' /\ OnTop'
  <2>1. /\ agent[r].at \in Going /\ agent'[r].at \in Going /\ agent'[r].task = agent[r].task
        /\ \A q \in Run : q # r => agent'[q] = agent[q]
        /\ UNCHANGED <<status, hash, head, said>>
        BY <1>7, MoveEffect
  <2>2. Running' = Running /\ \A q \in Run : agent'[q].task = agent[q].task
        BY <2>1, RunningIs
  <2>3. QED BY <1>3, <2>1, <2>2, RunningIs
<1>8. ASSUME NEW r \in Run, CopyLine(r)
      PROVE  OneByOne' /\ Stacked' /\ OnTop'
  <2>1. /\ agent'[r].at = agent[r].at /\ agent'[r].task = agent[r].task
        /\ UNCHANGED <<status, hash, head, said>>
        BY <1>8, CopiedEffect
  <2>2. \A q \in Run : q # r => agent'[q] = agent[q]
        BY <1>8, CopyEffect
  <2>3. Running' = Running /\ \A q \in Run : agent'[q].task = agent[q].task
        BY <2>1, <2>2, RunningIs
  <2>4. QED BY <1>3, <2>1, <2>3, RunningIs
<1>9. ASSUME NEW r \in Run, Reap(r) \/ TimeOut(r)
      PROVE  OneByOne' /\ Stacked' /\ OnTop'
  <2>1. agent[r].task \in Task
        BY <1>9, EndEffect
  <2>2. ~Stale(agent[r].task)'
    <3>1. agent'[r].task = agent[r].task
          BY <1>9, EndEffect
    <3>2. \A t \in Task : ~(credited'[t] # 0 /\ said'[credited'[t]] = <<>>)
          BY <1>1 DEF OwnWork, Stale
    <3>3. QED BY <2>1, <3>1, <3>2 DEF Stale
  <2>3. QED BY <1>2, <1>9, <2>2, StackEnds
<1>10. ASSUME NEW t \in Task, Start(t) \/ Retry(t)
       PROVE  OneByOne' /\ Stacked' /\ OnTop'
  <2>1. OnTop'
        BY <1>10, BeginsBelow
  <2>2. OneByOne' /\ Stacked'
        BY <1>2, <1>10, StackStarts, StackRetries
  <2>3. QED BY <2>1, <2>2
<1>11. ASSUME NEW t \in Task, Skip(t)
       PROVE  FALSE
  <2>1. skipped' = skipped \cup {t}
        BY <1>11 DEF Skip
  <2>2. QED BY <1>1, <2>1 DEF OwnWork
<1>12. QED BY <1>4, <1>5, <1>6, <1>7, <1>8, <1>9, <1>10, <1>11, LogSteps

\* The commit of a task that is done is HEAD of the worktree or below it, whatever
\* is retried behind it, as long as every task is done by output of its own
\* (handle_exec_retry, handlers.rs 3249 to 3282).
THEOREM CommittedWorkIsKept == LogSpec => []DoneWorkIsKept
<1>1. LogInit => RunsInv /\ OutputInv /\ CreditInv
      BY DEF LogInit, RunsInv, OutputInv, CreditInv, VerdictByOwnOutput, Running, FreeRow
<1>2. LogInit => StackInv
      BY AgentLogAssumption
         DEF LogInit, StackInv, OneByOne, Stacked, OnTop, Running, FreeRow
<1>3. StackInv => DoneWorkIsKept
      BY DEF StackInv, Stacked, DoneWorkIsKept
<1>4. QED BY <1>1, <1>2, <1>3, LogInitType, LogNextType, NextRuns, NextOutput, NextCredit,
             NextStack, PTL DEF LogSpec
=============================================================================

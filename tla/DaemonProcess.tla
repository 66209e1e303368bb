--------------------------- MODULE DaemonProcess ---------------------------
(***************************************************************************)
(* The processes of nflow and the three files by which they find each      *)
(* other: the PID file, the socket and the lock of the auto-start. Clients *)
(* look for a daemon, start one and connect; they ask for its status and   *)
(* stop it. A daemon writes its PID, cleans up, binds the socket, starts   *)
(* agents and shuts down. Every process can be interrupted between any two *)
(* calls that touch a file.                                                *)
(*                                                                         *)
(* What is said over the socket is module Connection, what the scheduler   *)
(* and crash recovery do to the rows is module Execution.                  *)
(***************************************************************************)
EXTENDS Naturals, FiniteSets

CONSTANTS
    Daemons,    \* process ids that daemons can have
    Clients,    \* processes of the command line or the terminal interface
    Agents,     \* agent processes
    Ops,        \* what clients do: "ensure", "status", "stop", "foreground"
    Faults,     \* what goes wrong: "kill", "slow", "torn", "unread"
    MaxTrouble, \* faults, signals that kill and foreground starts (bound)
    NoOne       \* no file, no process

ASSUME DaemonProcessAssumption ==
    /\ Ops \subseteq {"ensure", "status", "stop", "foreground"}
    /\ Faults \subseteq {"kill", "slow", "torn", "unread"}
    /\ MaxTrouble \in Nat
    /\ NoOne \notin Daemons \cup Clients \cup {"empty"}
    /\ "empty" \notin Daemons

VARIABLES
    pidFile,    \* the PID in the file, "empty" while it is written, or NoOne
    socket,     \* the daemon that bound the socket file, or NoOne
    lock,       \* the client that holds the lock file, or NoOne
    phase,      \* what each daemon does; "none" without the process
    attached,   \* daemons that run in the foreground, with signal handlers
    flagged,    \* daemons whose shutdown flag is set
    spawned,    \* agents a daemon has started and not yet entered in the database
    collected,  \* the agents a daemon that shuts down waits for
    running,    \* the agents that run
    recorded,   \* those of them the database has as running
    missed,     \* those of them their daemon did not collect (only for the properties)
    client,     \* what each client does
    trouble,    \* faults, signals that kill and foreground starts so far
    orderly     \* every daemon that ended, ended by a graceful shutdown

agentVars == <<running, recorded, missed>>
daemonVars == <<phase, attached, flagged, spawned, collected, agentVars, orderly>>
fileVars == <<pidFile, socket>>
vars == <<fileVars, lock, daemonVars, client, trouble>>

Starting == {"starting", "created", "written", "checking", "cleaning", "unlinking",
             "binding"}
Stopping == {"draining", "terminating", "closing", "erasing"}

TypeOK ==
    /\ pidFile \in Daemons \cup {"empty", NoOne}
    /\ socket \in Daemons \cup {NoOne}
    /\ lock \in Clients \cup {NoOne}
    /\ phase \in [Daemons -> {"none", "serving"} \cup Starting \cup Stopping]
    /\ attached \subseteq Daemons
    /\ flagged \subseteq attached
    /\ spawned \in [Daemons -> SUBSET Agents]
    /\ collected \in [Daemons -> SUBSET Agents]
    /\ running \subseteq Agents
    /\ recorded \subseteq Agents
    /\ missed \subseteq Agents
    /\ client \in [Clients -> {"idle", "locking", "waiting", "found", "failed",
                               "removing"}]
    /\ trouble \in 0..MaxTrouble
    /\ orderly \in BOOLEAN

Init ==
    /\ pidFile = NoOne /\ socket = NoOne /\ lock = NoOne
    /\ phase = [d \in Daemons |-> "none"]
    /\ attached = {} /\ flagged = {}
    /\ spawned = [d \in Daemons |-> {}]
    /\ collected = [d \in Daemons |-> {}]
    /\ running = {} /\ recorded = {} /\ missed = {}
    /\ client = [c \in Clients |-> "idle"]
    /\ trouble = 0 /\ orderly = TRUE

Trouble == trouble < MaxTrouble /\ trouble' = trouble + 1

Alive(d) == phase[d] # "none"

\* A process id no file names any more can be given to a new daemon.
Free(d) == ~Alive(d) /\ pidFile # d /\ socket # d

-----------------------------------------------------------------------------
(* The daemon *)

Goes(d, from, to) == phase[d] = from /\ phase' = [phase EXCEPT ![d] = to]

Born(d, mode) ==
    /\ Free(d)
    /\ phase' = [phase EXCEPT ![d] = "starting"]
    /\ attached' = IF mode = "foreground" THEN attached \cup {d} ELSE attached
    /\ UNCHANGED <<flagged, spawned, collected, agentVars, orderly>>

\* write_pid_file: the file is created, or truncated, before it is written.
CreatePidFile(d) ==
    /\ Goes(d, "starting", "created")
    /\ pidFile' = "empty"
    /\ UNCHANGED socket

WritePid(d) ==
    /\ Goes(d, "created", "written")
    /\ pidFile' = d
    /\ UNCHANGED socket

\* remove_stale_socket: whatever socket there is.
RemoveStaleSocket(d) ==
    /\ Goes(d, "written", "checking")
    /\ socket' = NoOne
    /\ UNCHANGED pidFile

StaleFor(d) ==
    \/ pidFile = "empty"
    \/ pidFile \in Daemons \ {d} /\ ~Alive(pidFile)

\* cleanup_stale_pid_file reads the file and, later, removes it.
CheckPidFile(d) ==
    /\ Goes(d, "checking", IF StaleFor(d) THEN "cleaning" ELSE "unlinking")
    /\ UNCHANGED fileVars

CleanPidFile(d) ==
    /\ Goes(d, "cleaning", "unlinking")
    /\ pidFile' = NoOne
    /\ UNCHANGED socket

\* bind_socket removes the file that exists and binds; where another daemon
\* binds in between, it fails and the daemon exits.
Unlink(d) ==
    /\ Goes(d, "unlinking", "binding")
    /\ socket' = NoOne
    /\ UNCHANGED pidFile

Startup(d) ==
    \/ CreatePidFile(d) \/ WritePid(d)
    \/ RemoveStaleSocket(d) \/ CheckPidFile(d) \/ CleanPidFile(d) \/ Unlink(d)
    \/ /\ socket = NoOne
       /\ Goes(d, "binding", "serving")
       /\ socket' = d
       /\ UNCHANGED pidFile

\* What a process knew is gone with it.
Forget(d) ==
    /\ flagged' = flagged \ {d}
    /\ attached' = attached \ {d}
    /\ spawned' = [spawned EXCEPT ![d] = {}]
    /\ collected' = [collected EXCEPT ![d] = {}]

BindFails(d) ==
    /\ socket # NoOne
    /\ Goes(d, "binding", "none")
    /\ Forget(d)
    /\ orderly' = FALSE
    /\ UNCHANGED <<fileVars, lock, agentVars, client, trouble>>

\* A tick starts agents, and so do exec.retry, exec.skip and exec.continue. A tick
\* only comes while the daemon serves, but a handler runs on a thread of its own
\* and does not ask for the flag: accept_loop and the connections go on while the
\* main task is in graceful_shutdown. Process ids are not used again at once.
StartAgent(d) ==
    /\ phase[d] \in {"serving"} \cup Stopping
    /\ \E a \in Agents \ (running \cup UNION {collected[e] : e \in Daemons}) :
           /\ running' = running \cup {a}
           /\ spawned' = [spawned EXCEPT ![d] = @ \cup {a}]
           /\ missed' = IF phase[d] = "serving" THEN missed ELSE missed \cup {a}
    /\ UNCHANGED <<fileVars, lock, phase, attached, flagged, collected, recorded,
                   client, trouble, orderly>>

\* The row of the run is inserted after the process was spawned.
RecordAgent(d) ==
    /\ \E a \in spawned[d] :
           /\ spawned' = [spawned EXCEPT ![d] = @ \ {a}]
           /\ recorded' = recorded \cup {a}
    /\ UNCHANGED <<fileVars, lock, phase, attached, flagged, collected, running,
                   missed, client, trouble, orderly>>

\* The agents of A are gone.
Gone(A) ==
    /\ running' = running \ A
    /\ recorded' = recorded \ A
    /\ missed' = missed \ A

\* What becomes of a row without a process does not matter to a shutdown.
AgentEnds(a) ==
    /\ a \in running
    /\ Gone({a})
    /\ spawned' = [d \in Daemons |-> spawned[d] \ {a}]
    /\ UNCHANGED <<fileVars, lock, phase, attached, flagged, collected, client,
                   trouble, orderly>>

\* collect_running_agent_pids: every run the database has as running.
Collected == recorded

\* The loop ends where the flag is set; the accept loop goes on. A database that
\* cannot be read counts as one without agents.
BeginShutdown(d) ==
    /\ d \in flagged
    /\ Goes(d, "serving", "draining")
    /\ \E A \in {Collected} \cup {{} : f \in Faults \cap {"unread"}} :
           /\ collected' = [collected EXCEPT ![d] = A]
           /\ missed' = missed \cup spawned[d] \cup (Collected \ A)
    /\ UNCHANGED <<fileVars, flagged, attached, spawned, running, recorded>>

\* Mutant of Drain: who does not end in time is left.
DrainOnly(d) ==
    /\ Goes(d, "draining", "closing")
    /\ UNCHANGED <<fileVars, flagged, attached, spawned, collected, agentVars>>

\* wait_for_agents: until all are gone, or for 60 seconds.
Drain(d) ==
    /\ Goes(d, "draining", IF collected[d] \cap running = {}
                           THEN "closing" ELSE "terminating")
    /\ UNCHANGED <<fileVars, flagged, attached, spawned, collected, agentVars>>

\* Agents that are still there after SIGTERM and 10 seconds get SIGKILL.
KillSurvivors(d) ==
    /\ Goes(d, "terminating", "closing")
    /\ Gone(collected[d])
    /\ UNCHANGED <<fileVars, flagged, attached, spawned, collected>>

\* remove_socket_file and remove_pid_file, whosever they are.
CloseSocket(d) ==
    /\ Goes(d, "closing", "erasing")
    /\ socket' = NoOne
    /\ UNCHANGED <<pidFile, flagged, attached, spawned, collected, agentVars>>

ErasePid(d) ==
    /\ Goes(d, "erasing", "none")
    /\ Forget(d)
    /\ pidFile' = NoOne
    /\ UNCHANGED <<socket, agentVars>>

Shutdown(d) ==
    /\ \/ BeginShutdown(d) \/ Drain(d) \/ KillSurvivors(d)
       \/ CloseSocket(d) \/ ErasePid(d)
    /\ UNCHANGED <<lock, client, trouble, orderly>>

\* "torn" is an end between the creation of the PID file and the writing.
Dies(d) ==
    /\ phase[d] = "created" => "torn" \in Faults
    /\ phase' = [phase EXCEPT ![d] = "none"]
    /\ Forget(d)
    /\ orderly' = FALSE
    /\ UNCHANGED <<fileVars, agentVars>>

\* A crash, or an error of the database while the daemon starts.
Crash(d) ==
    /\ "kill" \in Faults /\ Trouble
    /\ Alive(d)
    /\ Dies(d)
    /\ UNCHANGED <<lock, client>>

\* Signal handlers are installed in the foreground, after the PID is written.
Handles(d) == d \in attached /\ phase[d] \notin {"starting", "created", "written"}

\* SIGTERM or, from the keyboard, SIGINT.
Signalled(d) ==
    IF Handles(d)
    THEN /\ flagged' = flagged \cup {d}
         /\ UNCHANGED <<fileVars, phase, attached, spawned, collected, agentVars,
                        orderly>>
    ELSE Dies(d)

Interrupt(d) ==
    /\ "stop" \in Ops
    /\ IF Handles(d) THEN UNCHANGED trouble ELSE Trouble
    /\ d \in attached /\ Alive(d)
    /\ Signalled(d)
    /\ UNCHANGED <<lock, client>>

DaemonStep(d) ==
    \/ Startup(d) /\ UNCHANGED <<lock, attached, flagged, spawned, collected,
                                 agentVars, orderly, client, trouble>>
    \/ BindFails(d)
    \/ Shutdown(d)

-----------------------------------------------------------------------------
(* The clients *)

Turns(c, from, to) == client[c] = from /\ client' = [client EXCEPT ![c] = to]

\* is_daemon_running: the process the file names exists.
IsDaemonRunning == pidFile \in Daemons /\ Alive(pidFile)

\* A client begins, or begins again, with ensure_daemon. An empty PID file is an
\* error.
Ensure(c) ==
    /\ "ensure" \in Ops
    /\ client[c] \in {"idle", "failed"}
    /\ Turns(c, client[c], IF pidFile = "empty" THEN "failed"
                           ELSE IF IsDaemonRunning THEN "found" ELSE "locking")
    /\ UNCHANGED <<fileVars, lock, daemonVars, trouble>>

\* Mutant of StartedByAnother: the client that has the lock does not look again.
StartedByAnotherNot == FALSE

\* Another client may have started the daemon before this one had the lock.
StartedByAnother == IsDaemonRunning

\* The lock is had, the file looked at again, and the daemon spawned, which fails
\* where no process can be started. What others do between these calls they
\* could as well do before the first or after the last.
StartDaemon(c) ==
    /\ lock = NoOne
    /\ IF pidFile # "empty" /\ ~StartedByAnother /\ \E d \in Daemons : Free(d)
       THEN /\ Turns(c, "locking", "waiting")
            /\ Born(CHOOSE d \in Daemons : Free(d), "background")
            /\ lock' = c
       ELSE /\ Turns(c, "locking", IF pidFile # "empty" /\ StartedByAnother
                                   THEN "found" ELSE "failed")
            /\ UNCHANGED <<lock, daemonVars>>
    /\ UNCHANGED <<fileVars, trouble>>

\* The lock is not had in 5 seconds: the client waits for the socket.
LockTimeout(c) ==
    /\ "slow" \in Faults /\ Trouble
    /\ lock # NoOne
    /\ Turns(c, "locking", "waiting")
    /\ UNCHANGED <<fileVars, lock, daemonVars>>

\* Mutant of Unlocks: a client that waited keeps the lock.
UnlocksNot(c) == lock' = lock

Unlocks(c) == lock' = IF lock = c THEN NoOne ELSE lock

\* wait_for_socket asks whether the file exists.
SocketAppears(c) ==
    /\ socket # NoOne
    /\ Turns(c, "waiting", "found")
    /\ Unlocks(c)
    /\ UNCHANGED <<fileVars, daemonVars, trouble>>

\* Five seconds pass: a daemon is slow, or none is about to bind.
SocketTimeout(c) ==
    /\ IF \E d \in Daemons : phase[d] \in Starting
       THEN "slow" \in Faults /\ Trouble
       ELSE socket = NoOne /\ UNCHANGED trouble
    /\ Turns(c, "waiting", "failed")
    /\ Unlocks(c)
    /\ UNCHANGED <<fileVars, daemonVars>>

\* A daemon listens where its accept loop runs, also while it shuts down.
Listens(d) == d \in Daemons /\ phase[d] \in {"serving"} \cup Stopping

\* A client that is connected has its answers and ends.
Connect(c) ==
    /\ Turns(c, "found", IF Listens(socket) THEN "idle" ELSE "failed")
    /\ UNCHANGED <<fileVars, lock, daemonVars, trouble>>

\* daemon_status and daemon_stop: a file that names no process is removed.
FindStale(c) ==
    /\ Ops \cap {"status", "stop"} # {}
    /\ pidFile \in Daemons /\ ~Alive(pidFile)
    /\ Turns(c, "idle", "removing")
    /\ UNCHANGED <<fileVars, lock, daemonVars, trouble>>

RemoveStale(c) ==
    /\ Turns(c, "removing", "idle")
    /\ pidFile' = NoOne
    /\ UNCHANGED <<socket, lock, daemonVars, trouble>>

Stop(c) ==
    /\ "stop" \in Ops
    /\ client[c] = "idle"
    /\ IsDaemonRunning
    /\ IF Handles(pidFile) THEN UNCHANGED trouble ELSE Trouble
    /\ Signalled(pidFile)
    /\ UNCHANGED <<lock, client>>

\* daemon start --foreground: the client becomes the daemon. Nothing is asked.
StartForeground ==
    /\ "foreground" \in Ops /\ Trouble
    /\ \E d \in Daemons : Free(d)
    /\ Born(CHOOSE d \in Daemons : Free(d), "foreground")
    /\ UNCHANGED <<fileVars, lock, client>>

ClientStep(c) ==
    \/ SocketAppears(c) \/ Connect(c) \/ RemoveStale(c)

-----------------------------------------------------------------------------
Next ==
    \/ \E d \in Daemons : DaemonStep(d) \/ StartAgent(d) \/ RecordAgent(d)
                            \/ Crash(d) \/ Interrupt(d)
    \/ \E a \in Agents : AgentEnds(a)
    \/ \E c \in Clients : \/ Ensure(c) \/ StartDaemon(c) \/ ClientStep(c)
                          \/ LockTimeout(c) \/ SocketTimeout(c)
                          \/ FindStale(c) \/ Stop(c)
    \/ StartForeground

Spec == Init /\ [][Next]_vars

Persists(c) ==
    \/ StartDaemon(c) \/ ClientStep(c) \/ SocketTimeout(c)
    \/ client[c] = "failed" /\ Ensure(c)

\* Processes run: a client that polls the lock gets it when it is free again and
\* again, and one that failed tries anew.
FairSpec ==
    /\ Spec
    /\ WF_vars(\E d \in Daemons : DaemonStep(d))
    /\ \A c \in Clients : SF_vars(Persists(c))

-----------------------------------------------------------------------------
(* Properties *)

Live == {d \in Daemons : Alive(d)}

\* However many clients find no daemon at the same time, one is started, as long
\* as nothing else happens.
OneDaemon == trouble = 0 => Cardinality(Live) <= 1

\* When the last daemon has ended and none was killed, no file names a process that
\* is gone, and an agent that works on is one its daemon could not collect: it was
\* started by a handler during the shutdown, or the database did not name it.
NothingIsLeft ==
    orderly /\ Live = {} => pidFile = NoOne /\ socket = NoOne /\ running \subseteq missed

\* A client that finds no daemon, waits in vain or is refused is served at last if
\* nothing more goes wrong, unless there are more daemons than the model has.
\* Clients are alike; this is about one of them.
Served ==
    LET c == CHOOSE c \in Clients : TRUE
    IN  client[c] # "idle" ~> client[c] = "idle" \/ ~\E d \in Daemons : Free(d)

\* docs/daemon.md:51: clients that come at the same time do not start two
\* daemons. After a crash they do: the socket file of the dead daemon is taken
\* for that of the new one, and the lock is released too soon.
NoTwoDaemons == Cardinality(Live) <= 1

\* docs/daemon.md:262-268, shutdown.rs:153-162: the shutdown waits for the agents
\* that run and ends any remaining. It does not reject new commands, and an agent
\* that one of them starts outlives the daemon.
AgentsAreEnded == orderly /\ Live = {} => running = {}

\* docs/daemon.md:35: after `daemon stop` the files are removed. In the
\* background no handler is installed, and SIGTERM ends the daemon at once.
StopCleansUp == Live = {} => socket = NoOne /\ running = {}

-----------------------------------------------------------------------------
(* Inductive strengthenings of the invariants above *)

\* As long as daemons end by a graceful shutdown, who has a file lives, and an agent
\* is missed, or a daemon that serves is about to record it, or it is recorded and
\* some daemon will collect it or has done so and waits for its end.
Minds(d, a) ==
    \/ phase[d] = "serving" /\ a \in spawned[d] \cup recorded
    \/ phase[d] \in {"draining", "terminating"} /\ a \in collected[d] \cap recorded

OrderInv ==
    orderly =>
        /\ pidFile \in Daemons => Alive(pidFile)
        /\ pidFile = "empty" => \E d \in Daemons : phase[d] = "created"
        /\ socket # NoOne => phase[socket] \in {"serving", "draining", "terminating",
                                                "closing"}
        /\ \A a \in running : a \in missed \/ \E d \in Daemons : Minds(d, a)

\* As long as nothing goes wrong, the lock is held until the daemon that starts
\* is known by both files, and nobody ends it.
StartInv ==
    trouble = 0 =>
        /\ orderly /\ attached = {}
        /\ \A c \in Clients : client[c] # "removing"
        /\ \A d, e \in Daemons : Alive(d) /\ Alive(e) => d = e
        /\ \A d \in Daemons :
              /\ phase[d] \notin Stopping \cup {"cleaning"}
              /\ phase[d] \in Starting => lock # NoOne /\ socket = NoOne
              /\ phase[d] \in {"written", "checking", "unlinking", "binding", "serving"}
                     => pidFile = d
=============================================================================

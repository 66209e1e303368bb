---------------------------- MODULE DaemonProofs ----------------------------
(***************************************************************************)
(* OneDaemon and NothingIsLeft, for any number of processes and however    *)
(* often things go wrong.                                                  *)
(*                                                                         *)
(* The first rests on StartInv: the lock of the auto-start is held until   *)
(* both files name the new daemon, so that whoever has the lock next finds *)
(* it.  The second rests on OrderInv: a daemon that shuts down erases      *)
(* whatever it may have left behind before it is gone, and waits for the   *)
(* agents of the daemons that have gone before, those that it missed       *)
(* apart.                                                                  *)
(***************************************************************************)
EXTENDS DaemonProcess, FiniteSetTheorems, TLAPS

Phase == {"none", "serving"} \cup Starting \cup Stopping

\* One daemon goes on.
LEMMA GoesEffect ==
    ASSUME TypeOK, NEW d \in Daemons, NEW from, NEW to, Goes(d, from, to)
    PROVE  /\ phase[d] = from /\ phase'[d] = to
           /\ \A e \in Daemons : e # d => phase'[e] = phase[e]
           /\ to \in Phase => phase' \in [Daemons -> Phase]
BY DEF Goes, TypeOK, Phase

\* What a daemon leaves of itself when it ends.
LEMMA ForgetEffect ==
    ASSUME TypeOK, NEW d \in Daemons, Forget(d)
    PROVE  /\ flagged' \subseteq flagged /\ attached' \subseteq attached
           /\ flagged' \subseteq attached'
           /\ spawned' \in [Daemons -> SUBSET Agents]
           /\ collected' \in [Daemons -> SUBSET Agents]
           /\ \A e \in Daemons :
                 e # d => spawned'[e] = spawned[e] /\ collected'[e] = collected[e]
BY DEF Forget, TypeOK

\* A step of trouble is counted.
LEMMA TroubleCounts ==
    ASSUME TypeOK, Trouble
    PROVE  trouble' \in 0..MaxTrouble /\ trouble' # 0
BY DaemonProcessAssumption DEF TypeOK, Trouble

\* A new daemon begins.
LEMMA BornEffect ==
    ASSUME TypeOK, NEW mode, \E d \in Daemons : Free(d),
           Born(CHOOSE d \in Daemons : Free(d), mode)
    PROVE  \E d \in Daemons :
              /\ phase[d] = "none" /\ pidFile # d /\ socket # d
              /\ phase' = [phase EXCEPT ![d] = "starting"]
              /\ attached' = IF mode = "foreground" THEN attached \cup {d} ELSE attached
              /\ UNCHANGED <<flagged, spawned, collected, agentVars, orderly>>
BY DEF Born, Free, Alive

\* What a signal does.
LEMMA SignalEffect ==
    ASSUME TypeOK, NEW d \in Daemons, Signalled(d)
    PROVE  /\ UNCHANGED <<fileVars, agentVars>>
           /\ \/ /\ Handles(d)
                 /\ flagged' = flagged \cup {d}
                 /\ UNCHANGED <<phase, attached, spawned, collected, orderly>>
              \/ ~Handles(d) /\ Dies(d)
BY DEF Signalled, Dies, Handles

-----------------------------------------------------------------------------
(***************************************************************************)
(* Types.                                                                  *)
(***************************************************************************)

\* Every step keeps the types.
LEMMA NextType ==
    ASSUME TypeOK, [Next]_vars
    PROVE  TypeOK'
<1> USE DEF fileVars, agentVars, daemonVars
<1>1. CASE UNCHANGED vars
      BY <1>1 DEF vars, TypeOK
<1>2. ASSUME NEW d \in Daemons, Startup(d), UNCHANGED <<lock, attached, flagged, spawned,
                                              collected, agentVars, orderly, client, trouble>>
      PROVE  TypeOK'
  <2>1. phase' \in [Daemons -> Phase]
        BY <1>2, GoesEffect
           DEF Startup, CreatePidFile, WritePid, RemoveStaleSocket, CheckPidFile,
               CleanPidFile, Unlink, Phase, Starting
  <2>2. /\ pidFile' \in {pidFile, d, "empty", NoOne}
        /\ socket' \in {socket, d, NoOne}
        BY <1>2 DEF Startup, CreatePidFile, WritePid, RemoveStaleSocket, CheckPidFile,
                    CleanPidFile, Unlink
  <2>3. QED BY <1>2, <2>1, <2>2 DEF TypeOK, Phase
<1>3. ASSUME NEW d \in Daemons, BindFails(d)
      PROVE  TypeOK'
  <2>1. phase' \in [Daemons -> Phase]
        BY <1>3, GoesEffect DEF BindFails, Phase
  <2>2. Forget(d) /\ UNCHANGED <<pidFile, socket, lock, agentVars, client, trouble>>
        /\ orderly' = FALSE
        BY <1>3 DEF BindFails
  <2>3. QED BY <2>1, <2>2, ForgetEffect DEF TypeOK, Phase
<1>4. ASSUME NEW d \in Daemons, Shutdown(d)
      PROVE  TypeOK'
  <2>1. UNCHANGED <<lock, client, trouble, orderly>>
        BY <1>4 DEF Shutdown
  <2>2. phase' \in [Daemons -> Phase]
        BY <1>4, GoesEffect
           DEF Shutdown, BeginShutdown, Drain, KillSurvivors, CloseSocket, ErasePid,
               Phase, Stopping
  <2>3. /\ pidFile' \in {pidFile, NoOne} /\ socket' \in {socket, NoOne}
        /\ running' \subseteq running /\ recorded' \subseteq recorded
        BY <1>4 DEF Shutdown, BeginShutdown, Drain, KillSurvivors, CloseSocket, ErasePid,
                    Forget, Gone
  <2>4. /\ spawned' \in [Daemons -> SUBSET Agents] /\ missed' \subseteq Agents
        /\ collected' \in [Daemons -> SUBSET Agents]
        /\ flagged' \subseteq attached' /\ attached' \subseteq attached
    <3>1. CASE ErasePid(d)
          BY <3>1, ForgetEffect DEF ErasePid, TypeOK
    <3>2. CASE BeginShutdown(d)
          BY <3>2 DEF BeginShutdown, Collected, TypeOK
    <3>3. CASE Drain(d) \/ KillSurvivors(d) \/ CloseSocket(d)
          BY <3>3 DEF Drain, KillSurvivors, CloseSocket, Gone, TypeOK
    <3>4. QED BY <1>4, <3>1, <3>2, <3>3 DEF Shutdown
  <2>5. QED BY <2>1, <2>2, <2>3, <2>4 DEF TypeOK, Phase
<1>5. ASSUME NEW d \in Daemons, Dies(d), UNCHANGED <<lock, client>>,
             trouble' \in 0..MaxTrouble
      PROVE  TypeOK'
  <2>1. phase' \in [Daemons -> Phase]
        BY <1>5 DEF Dies, TypeOK, Phase
  <2>2. Forget(d) /\ UNCHANGED <<pidFile, socket, agentVars>> /\ orderly' = FALSE
        BY <1>5 DEF Dies
  <2>3. QED BY <1>5, <2>1, <2>2, ForgetEffect DEF TypeOK, Phase
<1>6. ASSUME NEW d \in Daemons, Crash(d)
      PROVE  TypeOK'
      BY <1>5, <1>6, TroubleCounts DEF Crash
<1>7. ASSUME NEW d \in Daemons, Signalled(d), UNCHANGED <<lock, client>>,
             trouble' \in 0..MaxTrouble
      PROVE  TypeOK'
  <2>1. CASE ~Handles(d) /\ Dies(d)
        BY <1>5, <1>7, <2>1
  <2>2. CASE Handles(d) /\ flagged' = flagged \cup {d}
             /\ UNCHANGED <<phase, attached, spawned, collected, orderly>>
    <3>1. UNCHANGED <<pidFile, socket, agentVars>>
          BY <1>7, SignalEffect
    <3>2. QED BY <1>7, <2>2, <3>1 DEF TypeOK, Handles
  <2>3. QED BY <1>7, <2>1, <2>2, SignalEffect
<1>8. ASSUME NEW d \in Daemons, Interrupt(d)
      PROVE  TypeOK'
  <2>1. trouble' \in 0..MaxTrouble
        BY <1>8, TroubleCounts DEF Interrupt, TypeOK
  <2>2. QED BY <1>7, <1>8, <2>1 DEF Interrupt
<1>9. ASSUME NEW c \in Clients, Stop(c)
      PROVE  TypeOK'
  <2>1. trouble' \in 0..MaxTrouble /\ pidFile \in Daemons
        BY <1>9, TroubleCounts DEF Stop, IsDaemonRunning, TypeOK
  <2>2. QED BY <1>7, <1>9, <2>1 DEF Stop
<1>10. ASSUME NEW mode, \E d \in Daemons : Free(d),
              Born(CHOOSE d \in Daemons : Free(d), mode),
              UNCHANGED fileVars, trouble' \in 0..MaxTrouble,
              lock' \in Clients \cup {NoOne},
              client' \in [Clients -> {"idle", "locking", "waiting", "found", "failed",
                                       "removing"}]
       PROVE  TypeOK'
  <2>1. PICK d \in Daemons :
              /\ phase' = [phase EXCEPT ![d] = "starting"]
              /\ attached' = IF mode = "foreground" THEN attached \cup {d} ELSE attached
              /\ UNCHANGED <<flagged, spawned, collected, agentVars, orderly>>
        BY <1>10, BornEffect
  <2>2. phase' \in [Daemons -> Phase]
        BY <2>1 DEF TypeOK, Phase, Starting
  <2>3. QED BY <1>10, <2>1, <2>2 DEF TypeOK, Phase
<1>11. CASE StartForeground
       BY <1>10, <1>11, TroubleCounts DEF StartForeground, TypeOK
<1>12. ASSUME NEW c \in Clients, StartDaemon(c)
       PROVE  TypeOK'
  <2>1. client' \in [Clients -> {"idle", "locking", "waiting", "found", "failed", "removing"}]
        BY <1>12 DEF StartDaemon, Turns, TypeOK
  <2>2. UNCHANGED <<fileVars, trouble>> /\ trouble' \in 0..MaxTrouble
        BY <1>12 DEF StartDaemon, TypeOK
  <2>3. CASE /\ \E d \in Daemons : Free(d)
             /\ Born(CHOOSE d \in Daemons : Free(d), "background")
             /\ lock' = c
        BY <1>10, <2>1, <2>2, <2>3
  <2>4. CASE UNCHANGED <<lock, daemonVars>>
        BY <2>1, <2>2, <2>4 DEF TypeOK
  <2>5. QED BY <1>12, <2>3, <2>4 DEF StartDaemon
<1>13. ASSUME NEW c \in Clients,
              Ensure(c) \/ ClientStep(c) \/ LockTimeout(c) \/ SocketTimeout(c) \/ FindStale(c)
       PROVE  TypeOK'
  <2>1. client' \in [Clients -> {"idle", "locking", "waiting", "found", "failed", "removing"}]
        BY <1>13 DEF Ensure, ClientStep, SocketAppears, Connect, RemoveStale, LockTimeout,
                     SocketTimeout, FindStale, Turns, TypeOK
  <2>2. trouble' \in 0..MaxTrouble
        BY <1>13, TroubleCounts
           DEF Ensure, ClientStep, SocketAppears, Connect, RemoveStale, LockTimeout,
               SocketTimeout, FindStale, TypeOK
  <2>3. /\ pidFile' \in {pidFile, NoOne} /\ lock' \in {lock, NoOne}
        /\ UNCHANGED <<socket, daemonVars>>
        BY <1>13 DEF Ensure, ClientStep, SocketAppears, Connect, RemoveStale, LockTimeout,
                     SocketTimeout, FindStale, Unlocks
  <2>4. QED BY <2>1, <2>2, <2>3 DEF TypeOK
<1>14. ASSUME NEW d \in Daemons, StartAgent(d)
       PROVE  TypeOK'
       BY <1>14 DEF StartAgent, TypeOK
<1>15. ASSUME NEW a \in Agents, AgentEnds(a)
       PROVE  TypeOK'
       BY <1>15 DEF AgentEnds, Gone, TypeOK
<1>16. ASSUME NEW d \in Daemons, RecordAgent(d)
       PROVE  TypeOK'
       BY <1>16 DEF RecordAgent, TypeOK
<1>17. QED BY <1>1, <1>2, <1>3, <1>4, <1>6, <1>8, <1>9, <1>11, <1>12, <1>13, <1>14, <1>15,
              <1>16
           DEF Next, DaemonStep

\* The variables of the model keep their types.
THEOREM TypeCorrect == Spec => []TypeOK
<1>1. Init => TypeOK
      BY DaemonProcessAssumption DEF Init, TypeOK
<1>2. QED BY <1>1, NextType, PTL DEF Spec
-----------------------------------------------------------------------------
(***************************************************************************)
(* OrderInv: what a daemon that ends has taken back.                       *)
(***************************************************************************)

\* A daemon that does not end goes on with its agents.
LEMMA OrderGoesOn ==
    ASSUME TypeOK, OrderInv, orderly, NEW d \in Daemons, phase'[d] # "none",
           \A e \in Daemons : e # d => phase'[e] = phase[e],
           pidFile' \in {pidFile, d, NoOne} \/ (pidFile' = "empty" /\ phase'[d] = "created"),
           pidFile' = "empty" /\ phase[d] = "created" => phase'[d] = "created",
           socket' \in {socket, d, NoOne},
           socket' = d => phase'[d] \in {"serving", "draining", "terminating", "closing"},
           running' \subseteq running,
           \A a \in running' : /\ a \in recorded => a \in recorded'
                               /\ a \in missed => a \in missed'
                               /\ Minds(d, a) => a \in missed' \/ Minds(d, a)',
           \A e \in Daemons :
              e # d => spawned'[e] = spawned[e] /\ collected'[e] = collected[e]
    PROVE  OrderInv'
<1>1. \A e \in Daemons : Alive(e) => Alive(e)'
      BY DEF Alive
<1>2. pidFile' \in Daemons => phase'[pidFile'] # "none"
      BY <1>1, DaemonProcessAssumption DEF OrderInv, Alive
<1>3. pidFile' = "empty" => \E e \in Daemons : phase'[e] = "created"
      BY DaemonProcessAssumption DEF OrderInv
<1>4. socket' # NoOne => phase'[socket'] \in {"serving", "draining", "terminating", "closing"}
      BY DEF OrderInv, TypeOK
<1>5. \A a \in running' : a \in missed' \/ \E e \in Daemons : Minds(e, a)'
  <2>1. SUFFICES ASSUME NEW a \in running', a \notin missed'
                 PROVE  \E e \in Daemons : Minds(e, a)'
        OBVIOUS
  <2>2. PICK e \in Daemons : Minds(e, a)
        BY <2>1 DEF OrderInv
  <2>3. CASE e # d
        BY <2>1, <2>2, <2>3 DEF Minds
  <2>4. CASE e = d
        BY <2>1, <2>2, <2>4
  <2>5. QED BY <2>3, <2>4
<1>6. QED BY <1>2, <1>3, <1>4, <1>5 DEF OrderInv, Alive

\* Nothing happens to the daemons.
LEMMA OrderUnchanged ==
    ASSUME OrderInv, UNCHANGED <<phase, spawned, collected, orderly, agentVars>>,
           pidFile' \in {pidFile, NoOne}, socket' = socket
    PROVE  OrderInv'
BY DaemonProcessAssumption DEF OrderInv, Minds, Alive, agentVars

\* Every step keeps it.
LEMMA NextOrder ==
    ASSUME TypeOK, OrderInv, [Next]_vars
    PROVE  OrderInv'
<1> USE DEF fileVars, agentVars, daemonVars
<1>1. CASE ~orderly'
      BY <1>1 DEF OrderInv
<1>2. CASE UNCHANGED <<phase, spawned, collected, orderly, pidFile, socket, agentVars>>
      BY <1>2, OrderUnchanged
<1>3. CASE ~orderly
  <2>1. orderly' = orderly \/ orderly' = FALSE
    <3>1. \A d \in Daemons : Signalled(d) => orderly' = orderly \/ orderly' = FALSE
          BY DEF Signalled, Dies
    <3>2. (\E d \in Daemons : DaemonStep(d) \/ StartAgent(d) \/ RecordAgent(d) \/ Crash(d))
             => orderly' = orderly \/ orderly' = FALSE
          BY DEF DaemonStep, StartAgent, RecordAgent, Crash, BindFails, Shutdown, Dies
    <3>3. (\E d \in Daemons : Interrupt(d)) => orderly' = orderly \/ orderly' = FALSE
          BY <3>1 DEF Interrupt
    <3>4. (\E c \in Clients : Stop(c)) => orderly' = orderly \/ orderly' = FALSE
          BY <3>1 DEF Stop, IsDaemonRunning
    <3>5. StartForeground \/ (\E c \in Clients : StartDaemon(c)) => orderly' = orderly
          BY DEF StartForeground, StartDaemon, Born
    <3>6. (\E c \in Clients : \/ Ensure(c) \/ ClientStep(c) \/ LockTimeout(c)
                              \/ SocketTimeout(c) \/ FindStale(c)) => orderly' = orderly
          BY DEF Ensure, ClientStep, SocketAppears, Connect, RemoveStale, LockTimeout,
                 SocketTimeout, FindStale
    <3>7. (\E a \in Agents : AgentEnds(a)) \/ UNCHANGED vars => orderly' = orderly
          BY DEF AgentEnds, vars
    <3>8. QED BY <3>2, <3>3, <3>4, <3>5, <3>6, <3>7 DEF Next
  <2>2. QED BY <1>1, <1>3, <2>1, Zenon
<1>4. ASSUME orderly, NEW d \in Daemons, Startup(d),
             UNCHANGED <<attached, flagged, spawned, collected, agentVars, orderly>>
      PROVE  OrderInv'
  <2> USE DEF Minds
  <2>1. CASE CreatePidFile(d)
    <3>1. /\ phase[d] = "starting" /\ phase'[d] = "created"
          /\ \A e \in Daemons : e # d => phase'[e] = phase[e]
          BY <2>1, GoesEffect DEF CreatePidFile
    <3>2. pidFile' = "empty" /\ socket' = socket
          BY <2>1 DEF CreatePidFile
    <3>3. socket' # d
          BY <1>4, <3>1, <3>2, DaemonProcessAssumption DEF OrderInv
    <3>4. QED BY <1>4, <3>1, <3>2, <3>3, OrderGoesOn
  <2>2. CASE WritePid(d)
    <3>1. /\ phase[d] = "created" /\ phase'[d] = "written"
          /\ \A e \in Daemons : e # d => phase'[e] = phase[e]
          BY <2>2, GoesEffect DEF WritePid
    <3>2. pidFile' = d /\ socket' = socket
          BY <2>2 DEF WritePid
    <3>3. socket' # d /\ pidFile' # "empty"
          BY <1>4, <3>1, <3>2, DaemonProcessAssumption DEF OrderInv
    <3>4. QED BY <1>4, <3>1, <3>2, <3>3, OrderGoesOn
  <2>3. CASE RemoveStaleSocket(d) \/ Unlink(d)
    <3>1. /\ phase[d] \in {"written", "unlinking"} /\ phase'[d] \in {"checking", "binding"}
          /\ \A e \in Daemons : e # d => phase'[e] = phase[e]
          BY <2>3, GoesEffect DEF RemoveStaleSocket, Unlink
    <3>2. pidFile' = pidFile /\ socket' = NoOne
          BY <2>3 DEF RemoveStaleSocket, Unlink
    <3>3. socket' # d
          BY <3>2, DaemonProcessAssumption
    <3>4. QED BY <1>4, <3>1, <3>2, <3>3, OrderGoesOn
  <2>4. CASE CheckPidFile(d) \/ CleanPidFile(d)
    <3>1. /\ phase[d] \in {"checking", "cleaning"} /\ phase'[d] \in {"cleaning", "unlinking"}
          /\ \A e \in Daemons : e # d => phase'[e] = phase[e]
          BY <2>4, GoesEffect DEF CheckPidFile, CleanPidFile
    <3>2. pidFile' \in {pidFile, NoOne} /\ socket' = socket
          BY <2>4 DEF CheckPidFile, CleanPidFile
    <3>3. socket' # d
          BY <1>4, <3>1, <3>2, DaemonProcessAssumption DEF OrderInv
    <3>4. QED BY <1>4, <3>1, <3>2, <3>3, OrderGoesOn
  <2>5. CASE Goes(d, "binding", "serving") /\ socket' = d /\ pidFile' = pidFile
    <3>1. /\ phase[d] = "binding" /\ phase'[d] = "serving"
          /\ \A e \in Daemons : e # d => phase'[e] = phase[e]
          BY <2>5, GoesEffect
    <3>2. QED BY <1>4, <2>5, <3>1, OrderGoesOn
  <2>6. QED BY <1>4, <2>1, <2>2, <2>3, <2>4, <2>5 DEF Startup
<1>5. ASSUME orderly, NEW d \in Daemons, Shutdown(d)
      PROVE  OrderInv'
  <2>0. orderly' = orderly
        BY <1>5 DEF Shutdown
  <2>1. CASE BeginShutdown(d)
    <3>1. /\ phase[d] = "serving" /\ phase'[d] = "draining"
          /\ \A e \in Daemons : e # d => phase'[e] = phase[e]
          BY <2>1, GoesEffect DEF BeginShutdown
    <3>2. PICK A : /\ collected' = [collected EXCEPT ![d] = A]
                   /\ missed' = missed \cup spawned[d] \cup (recorded \ A)
          BY <2>1 DEF BeginShutdown, Collected
    <3>3. /\ collected'[d] = A
          /\ \A e \in Daemons : e # d => collected'[e] = collected[e]
          /\ UNCHANGED <<pidFile, socket, spawned, running, recorded>>
          BY <2>1, <3>2 DEF BeginShutdown, TypeOK
    <3>4. ASSUME NEW a \in running'
          PROVE  /\ a \in missed => a \in missed'
                 /\ Minds(d, a) => a \in missed' \/ Minds(d, a)'
          BY <3>1, <3>2, <3>3 DEF Minds
    <3>5. QED BY <1>5, <2>0, <3>1, <3>3, <3>4, OrderGoesOn
  <2>2. CASE Drain(d)
    <3>1. /\ phase[d] = "draining"
          /\ \A e \in Daemons : e # d => phase'[e] = phase[e]
          /\ \/ phase'[d] = "terminating"
             \/ phase'[d] = "closing" /\ collected[d] \cap running = {}
          BY <2>2, GoesEffect DEF Drain
    <3>2. UNCHANGED <<pidFile, socket, spawned, collected, running, recorded, missed>>
          BY <2>2 DEF Drain
    <3>3. ASSUME NEW a \in running' PROVE Minds(d, a) => Minds(d, a)'
          BY <3>1, <3>2 DEF Minds
    <3>4. QED BY <1>5, <2>0, <3>1, <3>2, <3>3, OrderGoesOn
  <2>3. CASE KillSurvivors(d)
    <3>1. /\ phase[d] = "terminating" /\ phase'[d] = "closing"
          /\ \A e \in Daemons : e # d => phase'[e] = phase[e]
          BY <2>3, GoesEffect DEF KillSurvivors
    <3>2. /\ UNCHANGED <<pidFile, socket, spawned, collected>>
          /\ running' = running \ collected[d] /\ recorded' = recorded \ collected[d]
          /\ missed' = missed \ collected[d]
          BY <2>3 DEF KillSurvivors, Gone
    <3>3. ASSUME NEW a \in running'
          PROVE  /\ a \in recorded => a \in recorded'
                 /\ a \in missed => a \in missed'
                 /\ ~Minds(d, a)
          BY <3>1, <3>2 DEF Minds
    <3>4. QED BY <1>5, <2>0, <3>1, <3>2, <3>3, OrderGoesOn
  <2>4. CASE CloseSocket(d)
    <3>1. /\ phase[d] = "closing" /\ phase'[d] = "erasing"
          /\ \A e \in Daemons : e # d => phase'[e] = phase[e]
          BY <2>4, GoesEffect DEF CloseSocket
    <3>2. /\ UNCHANGED <<pidFile, spawned, collected, running, recorded, missed>>
          /\ socket' = NoOne /\ socket' # d
          BY <2>4, DaemonProcessAssumption DEF CloseSocket
    <3>3. \A a \in running' : ~Minds(d, a)
          BY <3>1 DEF Minds
    <3>4. QED BY <1>5, <2>0, <3>1, <3>2, <3>3, OrderGoesOn
  <2>5. CASE ErasePid(d)
    <3>1. /\ phase[d] = "erasing"
          /\ \A e \in Daemons : e # d => phase'[e] = phase[e]
          BY <2>5, GoesEffect DEF ErasePid
    <3>2. /\ \A e \in Daemons :
                e # d => spawned'[e] = spawned[e] /\ collected'[e] = collected[e]
          /\ pidFile' = NoOne /\ UNCHANGED <<socket, running, recorded, missed>>
          BY <2>5, ForgetEffect DEF ErasePid
    <3>3. socket # d
          BY <1>5, <3>1, DaemonProcessAssumption DEF OrderInv
    <3>4. socket' # NoOne => phase'[socket'] \in {"serving", "draining", "terminating",
                                                  "closing"}
          BY <1>5, <3>1, <3>2, <3>3 DEF OrderInv, TypeOK
    <3>5. \A a \in running' : a \in missed' \/ \E e \in Daemons : Minds(e, a)'
      <4>1. SUFFICES ASSUME NEW a \in running, a \notin missed
                     PROVE  \E e \in Daemons : Minds(e, a)'
            BY <3>2
      <4>2. PICK e \in Daemons : Minds(e, a)
            BY <1>5, <4>1 DEF OrderInv
      <4>3. e # d
            BY <3>1, <4>2 DEF Minds
      <4>4. QED BY <3>1, <3>2, <4>2, <4>3 DEF Minds
    <3>6. pidFile' \notin Daemons /\ pidFile' # "empty"
          BY <3>2, DaemonProcessAssumption
    <3>7. QED BY <3>4, <3>5, <3>6 DEF OrderInv
  <2>6. QED BY <1>5, <2>1, <2>2, <2>3, <2>4, <2>5 DEF Shutdown
<1>6. ASSUME NEW d \in Daemons, Signalled(d)
      PROVE  OrderInv'
  <2>1. CASE Dies(d)
        BY <1>1, <2>1 DEF Dies
  <2>2. QED BY <1>2, <1>6, <2>1, SignalEffect
<1>7. ASSUME orderly, NEW mode, \E d \in Daemons : Free(d),
             Born(CHOOSE d \in Daemons : Free(d), mode), UNCHANGED fileVars
      PROVE  OrderInv'
  <2>1. PICK d \in Daemons :
              /\ phase[d] = "none" /\ pidFile # d /\ socket # d
              /\ phase' = [phase EXCEPT ![d] = "starting"]
              /\ UNCHANGED <<flagged, spawned, collected, agentVars, orderly>>
        BY <1>7, BornEffect
  <2>2. phase'[d] = "starting" /\ \A e \in Daemons : e # d => phase'[e] = phase[e]
        BY <2>1 DEF TypeOK
  <2>3. socket' # d /\ pidFile' = pidFile /\ socket' = socket
        BY <1>7, <2>1
  <2>4. \A a \in running' : ~Minds(d, a)
        BY <2>1 DEF Minds
  <2>5. QED BY <1>7, <2>1, <2>2, <2>3, <2>4, OrderGoesOn
<1>8. ASSUME orderly, NEW c \in Clients, StartDaemon(c)
      PROVE  OrderInv'
      BY <1>2, <1>7, <1>8 DEF StartDaemon
<1>9. ASSUME orderly, NEW d \in Daemons, StartAgent(d)
      PROVE  OrderInv'
  <2>1. PICK b : /\ running' = running \cup {b}
                 /\ spawned' = [spawned EXCEPT ![d] = @ \cup {b}]
                 /\ missed' = IF phase[d] = "serving" THEN missed ELSE missed \cup {b}
        BY <1>9 DEF StartAgent
  <2>2. UNCHANGED <<pidFile, socket, phase, collected, recorded, orderly>>
        BY <1>9 DEF StartAgent
  <2>3. \A e \in Daemons : spawned[e] \subseteq spawned'[e] /\ b \in spawned'[d]
        BY <2>1 DEF TypeOK
  <2>4. ASSUME NEW a \in running', a \notin missed'
        PROVE  \E e \in Daemons : Minds(e, a)'
    <3>1. CASE a = b
          BY <2>1, <2>2, <2>3, <2>4, <3>1 DEF Minds
    <3>2. CASE a # b
      <4>1. a \in running /\ a \notin missed
            BY <2>1, <2>4, <3>2
      <4>2. PICK e \in Daemons : Minds(e, a)
            BY <1>9, <4>1 DEF OrderInv
      <4>3. QED BY <2>2, <2>3, <4>2 DEF Minds
    <3>3. QED BY <3>1, <3>2
  <2>5. QED BY <2>2, <2>4 DEF OrderInv, Alive
<1>10. ASSUME orderly, NEW a \in Agents, AgentEnds(a)
       PROVE  OrderInv'
  <2>1. /\ running' = running \ {a} /\ recorded' = recorded \ {a}
        /\ missed' = missed \ {a}
        /\ UNCHANGED <<phase, collected, orderly, pidFile, socket>>
        BY <1>10 DEF AgentEnds, Gone
  <2>2. \A d \in Daemons : spawned'[d] = spawned[d] \ {a}
        BY <1>10 DEF AgentEnds
  <2>3. ASSUME NEW b \in running', b \notin missed'
        PROVE  \E d \in Daemons : Minds(d, b)'
    <3>1. b # a /\ b \in running /\ b \notin missed
          BY <2>1, <2>3
    <3>2. PICK d \in Daemons : Minds(d, b)
          BY <1>10, <3>1 DEF OrderInv
    <3>3. QED BY <2>1, <2>2, <3>1, <3>2 DEF Minds
  <2>4. QED BY <2>1, <2>3 DEF OrderInv, Alive
<1>11. ASSUME orderly, NEW d \in Daemons, RecordAgent(d)
       PROVE  OrderInv'
  <2>1. PICK b : /\ spawned' = [spawned EXCEPT ![d] = @ \ {b}]
                 /\ recorded' = recorded \cup {b}
        BY <1>11 DEF RecordAgent
  <2>2. UNCHANGED <<pidFile, socket, phase, collected, running, missed, orderly>>
        BY <1>11 DEF RecordAgent
  <2>3. \A e \in Daemons : spawned[e] \subseteq spawned'[e] \cup recorded'
        BY <2>1 DEF TypeOK
  <2>4. ASSUME NEW a \in running', a \notin missed'
        PROVE  \E e \in Daemons : Minds(e, a)'
    <3>1. PICK e \in Daemons : Minds(e, a)
          BY <1>11, <2>2, <2>4 DEF OrderInv
    <3>2. QED BY <2>1, <2>2, <2>3, <3>1 DEF Minds
  <2>5. QED BY <2>2, <2>4 DEF OrderInv, Alive
<1>12. ASSUME NEW c \in Clients,
              Ensure(c) \/ ClientStep(c) \/ LockTimeout(c) \/ SocketTimeout(c) \/ FindStale(c)
       PROVE  OrderInv'
  <2>1. pidFile' \in {pidFile, NoOne} /\ UNCHANGED <<socket, daemonVars>>
        BY <1>12 DEF Ensure, ClientStep, SocketAppears, Connect, RemoveStale, LockTimeout,
                     SocketTimeout, FindStale
  <2>2. QED BY <2>1, OrderUnchanged
<1>13. ASSUME NEW d \in Daemons, BindFails(d) \/ Crash(d)
       PROVE  OrderInv'
       BY <1>1, <1>13 DEF BindFails, Crash, Dies
<1>14. QED BY <1>2, <1>3, <1>4, <1>5, <1>6, <1>7, <1>8, <1>9, <1>10, <1>11, <1>12, <1>13
           DEF Next, DaemonStep, Interrupt, Stop, IsDaemonRunning, StartForeground, vars

\* When the last daemon has ended and none was killed, no file names a process that
\* is gone, and an agent that works on is one that was started during the shutdown
\* or that the database did not name, however many daemons there were (shutdown.rs,
\* main.rs).
THEOREM ShutdownLeavesNothing == Spec => []NothingIsLeft
<1>1. Init => TypeOK /\ OrderInv
      BY DaemonProcessAssumption DEF Init, TypeOK, OrderInv
<1>2. TypeOK /\ OrderInv => NothingIsLeft
      BY DEF TypeOK, OrderInv, Minds, NothingIsLeft, Live, Alive
<1>3. QED BY <1>1, <1>2, NextType, NextOrder, PTL DEF Spec
-----------------------------------------------------------------------------
(***************************************************************************)
(* StartInv: as long as nothing goes wrong.                                *)
(***************************************************************************)

\* The daemon that is alone goes on, and what it goes on with is in order.
LEMMA StartGoesOn ==
    ASSUME TypeOK, StartInv, trouble = 0, NEW d \in Daemons,
           \A e \in Daemons : e # d => phase'[e] = "none",
           UNCHANGED <<attached, orderly, client>>,
           phase'[d] \in (Starting \ {"cleaning"}) \cup {"serving"},
           phase'[d] \in Starting => lock' # NoOne /\ socket' = NoOne,
           phase'[d] \in {"written", "checking", "unlinking", "binding", "serving"}
              => pidFile' = d
    PROVE  StartInv'
<1>1. \A e, f \in Daemons : phase'[e] # "none" /\ phase'[f] # "none" => e = f
      OBVIOUS
<1>2. \A e \in Daemons :
         /\ phase'[e] \notin Stopping \cup {"cleaning"}
         /\ phase'[e] \in Starting => lock' # NoOne /\ socket' = NoOne
         /\ phase'[e] \in {"written", "checking", "unlinking", "binding", "serving"}
              => pidFile' = e
      BY DEF Starting, Stopping
<1>3. orderly' /\ attached' = {} /\ \A c \in Clients : client'[c] # "removing"
      BY DEF StartInv
<1>4. QED BY <1>1, <1>2, <1>3 DEF StartInv, Alive

\* Nothing happens to the daemons and the files; a lock is released where no
\* daemon is on its way.
LEMMA StartUnchanged ==
    ASSUME TypeOK, StartInv, trouble = 0,
           UNCHANGED <<pidFile, socket, phase, attached, orderly>>,
           lock' = lock \/ ~\E d \in Daemons : phase[d] \in Starting,
           \A c \in Clients : client'[c] # "removing"
    PROVE  StartInv'
BY DEF StartInv, Alive

\* Every step keeps it.
LEMMA NextStart ==
    ASSUME TypeOK, OrderInv, StartInv, [Next]_vars
    PROVE  StartInv'
<1> USE DEF fileVars, agentVars, daemonVars
<1>1. CASE trouble' # 0
      BY <1>1 DEF StartInv
<1>2. CASE Trouble
      BY <1>1, <1>2, TroubleCounts
<1>3. CASE UNCHANGED vars
      BY <1>3 DEF vars, StartInv, Alive
<1>4. CASE trouble' = trouble /\ trouble # 0
      BY <1>1, <1>4
<1>5. ASSUME trouble = 0, NEW d \in Daemons, Startup(d),
             UNCHANGED <<lock, attached, orderly, client>>
      PROVE  StartInv'
  <2>1. /\ phase[d] \in Starting /\ phase[d] # "cleaning"
        /\ \A e \in Daemons : e # d => phase[e] = "none"
        /\ lock # NoOne /\ socket = NoOne
        /\ phase[d] \in {"written", "checking", "unlinking", "binding"} => pidFile = d
    <3>1. phase[d] \in Starting
          BY <1>5 DEF Startup, CreatePidFile, WritePid, RemoveStaleSocket, CheckPidFile,
                      CleanPidFile, Unlink, Goes, Starting
    <3>2. QED BY <1>5, <3>1 DEF StartInv, Alive, Starting
  <2>2. lock' # NoOne
        BY <1>5, <2>1
  <2>3. CASE CreatePidFile(d)
    <3>1. phase'[d] = "created" /\ \A e \in Daemons : e # d => phase'[e] = "none"
          BY <2>1, <2>3, GoesEffect DEF CreatePidFile
    <3>2. socket' = NoOne
          BY <2>1, <2>3 DEF CreatePidFile
    <3>3. QED BY <1>5, <2>2, <3>1, <3>2, StartGoesOn DEF Starting
  <2>4. CASE WritePid(d)
    <3>1. phase'[d] = "written" /\ \A e \in Daemons : e # d => phase'[e] = "none"
          BY <2>1, <2>4, GoesEffect DEF WritePid
    <3>2. socket' = NoOne /\ pidFile' = d
          BY <2>1, <2>4 DEF WritePid
    <3>3. QED BY <1>5, <2>2, <3>1, <3>2, StartGoesOn DEF Starting
  <2>5. CASE RemoveStaleSocket(d)
    <3>1. /\ phase[d] = "written" /\ phase'[d] = "checking"
          /\ \A e \in Daemons : e # d => phase'[e] = "none"
          BY <2>1, <2>5, GoesEffect DEF RemoveStaleSocket
    <3>2. socket' = NoOne /\ pidFile' = d
          BY <2>1, <2>5, <3>1 DEF RemoveStaleSocket
    <3>3. QED BY <1>5, <2>2, <3>1, <3>2, StartGoesOn DEF Starting
  <2>6. CASE CheckPidFile(d)
    <3>1. phase[d] = "checking"
          BY <2>6 DEF CheckPidFile, Goes
    <3>2. pidFile = d
          BY <2>1, <3>1
    <3>3. ~StaleFor(d)
          BY <3>2, DaemonProcessAssumption DEF StaleFor
    <3>4. Goes(d, "checking", "unlinking")
          BY <2>6, <3>3 DEF CheckPidFile
    <3>5. phase'[d] = "unlinking" /\ \A e \in Daemons : e # d => phase'[e] = "none"
          BY <2>1, <3>4, GoesEffect
    <3>6. socket' = NoOne /\ pidFile' = d
          BY <2>1, <2>6, <3>2 DEF CheckPidFile
    <3>7. QED BY <1>5, <2>2, <3>5, <3>6, StartGoesOn DEF Starting
  <2>7. CASE CleanPidFile(d)
        BY <2>1, <2>7 DEF CleanPidFile, Goes
  <2>8. CASE Unlink(d)
    <3>1. /\ phase[d] = "unlinking" /\ phase'[d] = "binding"
          /\ \A e \in Daemons : e # d => phase'[e] = "none"
          BY <2>1, <2>8, GoesEffect DEF Unlink
    <3>2. socket' = NoOne /\ pidFile' = d
          BY <2>1, <2>8, <3>1 DEF Unlink
    <3>3. QED BY <1>5, <2>2, <3>1, <3>2, StartGoesOn DEF Starting
  <2>9. CASE Goes(d, "binding", "serving") /\ pidFile' = pidFile
    <3>1. /\ phase[d] = "binding" /\ phase'[d] = "serving"
          /\ \A e \in Daemons : e # d => phase'[e] = "none"
          BY <2>1, <2>9, GoesEffect
    <3>2. pidFile' = d
          BY <2>1, <2>9, <3>1
    <3>3. QED BY <1>5, <3>1, <3>2, StartGoesOn DEF Starting
  <2>10. QED BY <1>5, <2>3, <2>4, <2>5, <2>6, <2>7, <2>8, <2>9 DEF Startup
<1>6. ASSUME trouble = 0, NEW d \in Daemons, BindFails(d) \/ Shutdown(d) \/ Interrupt(d)
      PROVE  FALSE
  <2>1. /\ phase[d] \notin Stopping /\ attached = {} /\ flagged = {}
        /\ phase[d] = "binding" => socket = NoOne
        BY <1>6 DEF StartInv, TypeOK, Starting
  <2>2. ~BindFails(d)
        BY <2>1 DEF BindFails, Goes
  <2>3. ~Shutdown(d)
        BY <2>1 DEF Shutdown, BeginShutdown, Drain, KillSurvivors, CloseSocket, ErasePid,
                    Goes, Stopping
  <2>4. ~Interrupt(d)
        BY <2>1 DEF Interrupt
  <2>5. QED BY <1>6, <2>2, <2>3, <2>4
<1>7. ASSUME trouble = 0, NEW c \in Clients, Stop(c)
      PROVE  Trouble
      BY <1>7 DEF StartInv, Stop, Handles
<1>8. ASSUME trouble = 0, NEW c \in Clients, StartDaemon(c)
      PROVE  StartInv'
  <2>1. \A e \in Clients : client'[e] # "removing"
        BY <1>8 DEF StartDaemon, Turns, StartInv, TypeOK
  <2>2. CASE UNCHANGED <<lock, daemonVars>>
        BY <1>8, <2>1, <2>2, StartUnchanged DEF StartDaemon
  <2>3. CASE /\ ~IsDaemonRunning /\ \E d \in Daemons : Free(d)
             /\ Born(CHOOSE d \in Daemons : Free(d), "background")
             /\ lock' = c
    <3>1. \A e \in Daemons : phase[e] = "none"
      <4>1. lock = NoOne
            BY <1>8 DEF StartDaemon
      <4>2. ASSUME NEW e \in Daemons, phase[e] # "none"
            PROVE  phase[e] = "serving"
            BY <1>8, <4>1, <4>2 DEF StartInv, TypeOK
      <4>3. ASSUME NEW e \in Daemons, phase[e] = "serving"
            PROVE  IsDaemonRunning
            BY <1>8, <4>3 DEF StartInv, IsDaemonRunning, Alive
      <4>4. QED BY <2>3, <4>2, <4>3
    <3>2. socket = NoOne
          BY <1>8, <3>1 DEF StartInv, OrderInv, TypeOK
    <3>3. PICK d \in Daemons :
                /\ phase' = [phase EXCEPT ![d] = "starting"]
                /\ attached' = attached
                /\ UNCHANGED <<flagged, spawned, collected, agentVars, orderly>>
          BY <2>3, BornEffect
    <3>4. phase'[d] = "starting" /\ \A e \in Daemons : e # d => phase'[e] = "none"
          BY <3>1, <3>3 DEF TypeOK
    <3>5. socket' = NoOne /\ lock' # NoOne
          BY <1>8, <2>3, <3>2, DaemonProcessAssumption DEF StartDaemon
    <3>6. \A e, f \in Daemons : phase'[e] # "none" /\ phase'[f] # "none" => e = f
          BY <3>4
    <3>7. \A e \in Daemons :
             /\ phase'[e] \notin Stopping \cup {"cleaning"}
             /\ phase'[e] \in Starting => lock' # NoOne /\ socket' = NoOne
             /\ phase'[e] \notin {"written", "checking", "unlinking", "binding", "serving"}
          BY <3>4, <3>5 DEF Starting, Stopping
    <3>8. orderly' /\ attached' = {}
          BY <1>8, <3>3 DEF StartInv
    <3>9. QED BY <2>1, <3>6, <3>7, <3>8 DEF StartInv, Alive
  <2>4. QED BY <1>8, <2>2, <2>3 DEF StartDaemon, StartedByAnother
<1>9. ASSUME trouble = 0, NEW c \in Clients,
             Ensure(c) \/ ClientStep(c) \/ SocketTimeout(c) \/ FindStale(c), ~Trouble
      PROVE  StartInv'
  <2>1. /\ \A e \in Clients : client[e] # "removing"
        /\ socket # NoOne => ~\E d \in Daemons : phase[d] \in Starting
        /\ ~(pidFile \in Daemons /\ ~Alive(pidFile))
        BY <1>9 DEF StartInv, OrderInv
  <2>2. ~RemoveStale(c) /\ ~FindStale(c)
        BY <2>1 DEF RemoveStale, FindStale, Turns
  <2>3. Ensure(c) \/ SocketAppears(c) \/ Connect(c) \/ SocketTimeout(c)
        BY <1>9, <2>2 DEF ClientStep
  <2>4. \A e \in Clients : client'[e] # "removing"
        BY <2>1, <2>3 DEF Ensure, SocketAppears, Connect, SocketTimeout, Turns, TypeOK
  <2>5. lock' = lock \/ ~\E d \in Daemons : phase[d] \in Starting
        BY <1>9, <2>1, <2>3 DEF Ensure, SocketAppears, Connect, SocketTimeout
  <2>6. UNCHANGED <<pidFile, socket, phase, attached, orderly>>
        BY <2>3 DEF Ensure, SocketAppears, Connect, SocketTimeout
  <2>7. QED BY <1>9, <2>4, <2>5, <2>6, StartUnchanged
<1>10. ASSUME trouble = 0, UNCHANGED <<pidFile, socket, phase, attached, orderly, lock, client>>
       PROVE  StartInv'
       BY <1>10, StartUnchanged DEF StartInv
<1>11. CASE trouble # 0
  <2>1. trouble' # 0
    <3>1. (\E d \in Daemons : DaemonStep(d) \/ StartAgent(d) \/ RecordAgent(d))
             => trouble' = trouble
          BY DEF DaemonStep, StartAgent, RecordAgent, BindFails, Shutdown
    <3>2. (\E d \in Daemons : Crash(d) \/ Interrupt(d)) => trouble' = trouble \/ Trouble
          BY DEF Crash, Interrupt
    <3>3. (\E c \in Clients : Stop(c)) \/ StartForeground => trouble' = trouble \/ Trouble
          BY DEF Stop, StartForeground
    <3>4. (\E c \in Clients : \/ Ensure(c) \/ StartDaemon(c) \/ ClientStep(c) \/ LockTimeout(c)
                              \/ SocketTimeout(c) \/ FindStale(c))
             => trouble' = trouble \/ Trouble
          BY DEF Ensure, StartDaemon, ClientStep, SocketAppears, Connect, RemoveStale,
                 LockTimeout, SocketTimeout, FindStale
    <3>5. (\E a \in Agents : AgentEnds(a)) \/ UNCHANGED vars => trouble' = trouble
          BY DEF AgentEnds, vars
    <3>6. QED BY <1>11, <3>1, <3>2, <3>3, <3>4, <3>5, TroubleCounts DEF Next
  <2>2. QED BY <1>1, <2>1
<1>12. CASE trouble = 0 /\ ~Trouble
  <2>1. \A d \in Daemons : DaemonStep(d) => StartInv'
        BY <1>5, <1>6, <1>12 DEF DaemonStep
  <2>2. \A d \in Daemons : StartAgent(d) \/ RecordAgent(d) => StartInv'
        BY <1>10, <1>12 DEF StartAgent, RecordAgent
  <2>3. \A a \in Agents : AgentEnds(a) => StartInv'
        BY <1>10, <1>12 DEF AgentEnds
  <2>4. \A d \in Daemons : ~Crash(d) /\ ~Interrupt(d)
        BY <1>6, <1>12 DEF Crash
  <2>5. ~StartForeground /\ \A c \in Clients : ~Stop(c) /\ ~LockTimeout(c)
        BY <1>7, <1>12 DEF StartForeground, LockTimeout
  <2>6. QED BY <1>3, <1>8, <1>9, <1>12, <2>1, <2>2, <2>3, <2>4, <2>5 DEF Next
<1>13. QED BY <1>2, <1>11, <1>12

\* However many clients find no daemon at the same time, one is started, as long
\* as nothing else happens (auto_start.rs).
THEOREM OneDaemonStarts == Spec => []OneDaemon
<1>1. Init => TypeOK /\ OrderInv /\ StartInv
      BY DaemonProcessAssumption
         DEF Init, TypeOK, OrderInv, StartInv, Starting, Stopping, Alive
<1>2. TypeOK /\ StartInv => OneDaemon
  <2>1. SUFFICES ASSUME TypeOK, StartInv, trouble = 0
                 PROVE  Cardinality(Live) <= 1
        BY DEF OneDaemon
  <2>2. CASE Live = {}
        BY <2>2, FS_EmptySet
  <2>3. CASE Live # {}
    <3>1. PICK d \in Live : TRUE
          BY <2>3
    <3>2. Live = {d}
          BY <2>1, <3>1 DEF Live, StartInv
    <3>3. QED BY <3>2, FS_Singleton
  <2>4. QED BY <2>2, <2>3
<1>3. QED BY <1>1, <1>2, NextType, NextOrder, NextStart, PTL DEF Spec
=============================================================================

---------------------------- MODULE StoryProofs -----------------------------
(***************************************************************************)
(* TasksInOrder, OneAgentPerStory, DoneMeansFinished, DeliveredIsDone and  *)
(* AgentsHaveWorktree, for every value of the constants, under             *)
(* CommandsTakeTurns.                                                      *)
(*                                                                         *)
(* All rest on what the steps of a tick and of a command leave true of     *)
(* what they have read and decided: the tasks of a story are worked off in *)
(* their order (SequenceInv, as long as nobody stops a story), and what is *)
(* reaped has not been delivered (DeliveryInv).                            *)
(***************************************************************************)
EXTENDS ExecutionProofs

(***************************************************************************)
(* The order of tasks.                                                     *)
(***************************************************************************)

\* The statuses ts of the tasks are those of stories worked off in order.
InSequence(ts) ==
    \A t, u \in Task :
        /\ u.story = t.story /\ SortOrder(u) < SortOrder(t)
        /\ ts[t] # "pending"
        => ts[u] \in Finished

\* In the statuses ts nobody works for story s and no task of it has failed.
Rests(ts, s) == \A t \in TasksOf(s) : ts[t] \in {"pending"} \cup Finished

\* Places are numbers.
LEMMA SortOrderType ==
    ASSUME NEW t \in Task
    PROVE  SortOrder(t) \in Nat
<1>1. t.pair \in Nat
      BY PairAssumption DEF Task
<1>2. QED BY <1>1 DEF SortOrder

\* No two tasks of a story have the same place.
LEMMA SortOrderTotal ==
    ASSUME NEW t \in Task, NEW u \in Task, u.story = t.story
    PROVE  \/ SortOrder(u) < SortOrder(t)
           \/ SortOrder(t) < SortOrder(u)
           \/ u = t
<1>1. t.pair \in Nat /\ u.pair \in Nat
      BY PairAssumption DEF Task
<1>2. t.kind \in {"impl", "verify"} /\ u.kind \in {"impl", "verify"}
      BY DEF Task, Kind
<1>3. t.pair = u.pair /\ t.kind = u.kind => u = t
      BY DEF Task
<1>4. QED BY <1>1, <1>2, <1>3 DEF SortOrder

\* Nothing comes between a task and its verify task.
LEMMA VerifyComesNext ==
    ASSUME NEW t \in Task, NEW u \in Task, u.story = t.story,
           t.kind = "impl", SortOrder(u) < SortOrder(PairedVerify(t))
    PROVE  u = t \/ SortOrder(u) < SortOrder(t)
<1>1. t.pair \in Nat /\ u.pair \in Nat
      BY PairAssumption DEF Task
<1>2. u.kind \in {"impl", "verify"}
      BY DEF Task, Kind
<1>3. PairedVerify(t).pair = t.pair /\ PairedVerify(t).kind = "verify"
      BY DEF PairedVerify, Task
<1>4. SortOrder(PairedVerify(t)) = SortOrder(t) + 1 /\ SortOrder(t) \in Nat
      BY <1>1, <1>3 DEF SortOrder
<1>5. QED BY <1>4, SortOrderType, SortOrderTotal

\* A task that waits, works or failed may change its status when its turn has
\* come.
LEMMA ChangeKeepsSequence ==
    ASSUME NEW ts, NEW us, InSequence(ts), NEW n \in Task,
           ts[n] \notin Finished,
           \A u \in Task : u # n => us[u] = ts[u],
           \/ ts[n] # "pending"
           \/ \A u \in Task : u.story = n.story /\ SortOrder(u) < SortOrder(n)
                                 => ts[u] \in Finished
    PROVE  InSequence(us)
BY SortOrderTotal DEF InSequence

\* A story has at most one task that works or failed.
LEMMA OneActiveTask ==
    ASSUME NEW ts, InSequence(ts), NEW t \in Task, NEW u \in Task,
           u.story = t.story,
           ts[t] \notin {"pending"} \cup Finished,
           ts[u] \notin {"pending"} \cup Finished
    PROVE  u = t
BY SortOrderTotal DEF InSequence

\* When a story rests, it is the turn of its first pending task.
LEMMA NextPendingIsDue ==
    ASSUME NEW ts, InSequence(ts), NEW s \in Story, Rests(ts, s),
           NEW n \in NextPending(ts, s)
    PROVE  /\ n \in Task /\ n.story = s /\ ts[n] = "pending"
           /\ \A u \in Task : u.story = n.story /\ SortOrder(u) < SortOrder(n)
                                 => ts[u] \in Finished
<1>1. /\ n \in TasksOf(s) /\ ts[n] = "pending"
      /\ \A u \in TasksOf(s) : ts[u] = "pending" =>
                                  SortOrder(n) <= SortOrder(u)
      BY DEF NextPending, FirstWith
<1>2. QED BY <1>1, SortOrderType DEF Rests, TasksOf

\* Skipping the failed task of a story leaves the story at rest.
LEMMA SkippedKeepsSequence ==
    ASSUME NEW ts \in [Task -> TaskStatus], InSequence(ts), NEW t \in Task,
           ts[t] = "failed"
    PROVE  /\ InSequence(Skipped(ts, t))
           /\ Rests(Skipped(ts, t), t.story)
           /\ \A u \in Task :
                 \/ Skipped(ts, t)[u] = ts[u]
                 \/ /\ u.story = t.story
                    /\ <<ts[u], Skipped(ts, t)[u]>> \in
                          {<<"pending", "cancelled">>, <<"failed", "done">>}
<1> DEFINE v == PairedVerify(t)
           us == Skipped(ts, t)
           done == [ts EXCEPT ![t] = "done"]
<1>1. v \in Task /\ v.story = t.story
      BY PairedVerifyType
<1>2. /\ \A u \in Task : u # t /\ u # v => us[u] = ts[u]
      /\ us[t] = "done"
      /\ v # t => us[v] = IF ts[v] = "pending" THEN "cancelled"
                          ELSE IF ts[v] = "failed" THEN "done" ELSE ts[v]
      BY <1>1 DEF Skipped
<1>3. \A u \in TasksOf(t.story) :
         u # t => ts[u] \in {"pending"} \cup Finished
      BY OneActiveTask DEF TasksOf, Finished
<1>4. Rests(us, t.story)
      BY <1>1, <1>2, <1>3 DEF Rests, TasksOf, Finished
<1>5. InSequence(done)
      BY ChangeKeepsSequence DEF Finished
<1>6. InSequence(us)
  <2>1. CASE v = t
        BY <1>2, <2>1, ChangeKeepsSequence DEF Finished
  <2>2. CASE v # t
    <3>1. t.kind = "impl"
          BY <2>2 DEF PairedVerify, Task, Kind
    <3>2. \A u \in Task : u.story = v.story /\ SortOrder(u) < SortOrder(v)
                             => done[u] \in Finished
      <4>1. SUFFICES ASSUME NEW u \in Task, u.story = v.story,
                            SortOrder(u) < SortOrder(v)
                     PROVE  done[u] \in Finished
            OBVIOUS
      <4>2. u = t \/ SortOrder(u) < SortOrder(t)
            BY <1>1, <3>1, <4>1, VerifyComesNext
      <4>3. QED BY <1>1, <4>1, <4>2 DEF InSequence, Finished
    <3>3. CASE ts[v] \in Finished
          BY <1>1, <1>2, <1>5, <2>2, <3>3 DEF InSequence, Finished
    <3>4. CASE ts[v] \notin Finished
      <4>1. done[v] \notin Finished /\ \A u \in Task : u # v => us[u] = done[u]
            BY <1>1, <1>2, <2>2, <3>4
      <4> HIDE DEF us, done, v
      <4>2. QED BY <1>1, <1>5, <3>2, <4>1, ChangeKeepsSequence
    <3>5. QED BY <3>3, <3>4
  <2>3. QED BY <2>1, <2>2
<1>7. ASSUME NEW u \in Task, us[u] # ts[u]
      PROVE  /\ u.story = t.story
             /\ <<ts[u], us[u]>> \in
                   {<<"pending", "cancelled">>, <<"failed", "done">>}
      BY <1>1, <1>2, <1>7
<1>8. QED BY <1>4, <1>6, <1>7
-----------------------------------------------------------------------------
(***************************************************************************)
(* SequenceInv: the steps of the scheduler loop.                           *)
(***************************************************************************)

\* The invariant only looks at this state, and at pc to see that only the last
\* part of a tick has a plan.
LEMMA SequenceUnchanged ==
    ASSUME SequenceInv,
           UNCHANGED <<storyStatus, taskStatus, verdict, progress, plan, call>>,
           UNCHANGED pc \/ plan = NoPlan
    PROVE  SequenceInv'
BY DEF SequenceInv, PlanIsUpToDate, CallIsUpToDate, TasksInSequence,
       StatusFitsTasks, VerdictFitsTasks, AllFinished, TasksOf, Idle

\* While the scheduler works, a command in progress is a retry or a skip of a
\* failed task, and nothing but that can be in progress.
LEMMA CallInTick ==
    ASSUME TypeOK, CommandIsAlone, NEW c \in Client, ~Idle(c), pc # "idle"
    PROVE  /\ Overlap /\ pc # "down"
           /\ call[c].op \in {"retry", "skip"}
           /\ call[c].task \in Task /\ taskStatus[call[c].task] = "failed"
           /\ call[c].story = call[c].task.story
BY DEF CommandIsAlone, Idle, TypeOK, Call

\* A run that is closed takes its task, which was the active task of its story,
\* out of progress.
LEMMA VerdictKeepsSequence ==
    ASSUME TypeOK, SequenceInv, NEW r, NEW t \in Task, NEW ok \in BOOLEAN,
           taskStatus[t] = "in_progress",
           taskStatus'[t] = IF ok THEN "done" ELSE "failed",
           \A u \in Task : u # t => taskStatus'[u] = taskStatus[u],
           verdict' = {[by |-> r, task |-> t, ok |-> ok]},
           UNCHANGED <<storyStatus, pc, progress, plan, call>>
    PROVE  SequenceInv'
<1>1. PlanIsUpToDate' /\ CallIsUpToDate'
      BY DEF SequenceInv, PlanIsUpToDate, CallIsUpToDate, Idle
<1>2. TasksInSequence'
  <2>1. InSequence(taskStatus)
        BY DEF SequenceInv, TasksInSequence, InSequence
  <2>2. InSequence(taskStatus')
        BY <2>1, ChangeKeepsSequence DEF Finished
  <2>3. QED BY <2>2 DEF TasksInSequence, InSequence
<1>3. StatusFitsTasks'
      BY DEF SequenceInv, StatusFitsTasks
<1>4. VerdictFitsTasks'
  <2>1. \A u \in TasksOf(t.story) :
           u # t => taskStatus'[u] \in {"pending"} \cup Finished
    <3>1. InSequence(taskStatus)
          BY DEF SequenceInv, TasksInSequence, InSequence
    <3>2. QED BY <3>1, OneActiveTask DEF TasksOf, Finished
  <2>2. storyStatus[t.story] # "failed" \/ Overlap
        BY DEF SequenceInv, StatusFitsTasks
  <2>3. \A p \in progress : p.kind = "complete" =>
           AllFinished(taskStatus, p.task.story)'
        BY DEF SequenceInv, VerdictFitsTasks, AllFinished, TasksOf, Finished
  <2>4. ASSUME NEW v \in verdict'
        PROVE  /\ taskStatus'[v.task] \notin {"pending", "cancelled"}
               /\ ~Overlap => storyStatus[v.task.story] # "failed"
               /\ \A u \in TasksOf(v.task.story) :
                     /\ v.ok => taskStatus'[u] # "failed"
                     /\ taskStatus'[u] # "in_progress"
    <3>1. v.task = t /\ v.ok = ok
          OBVIOUS
    <3>2. t \in TasksOf(t.story)
          BY DEF TasksOf
    <3>3. QED BY <2>1, <2>2, <3>1, <3>2 DEF Finished
  <2>5. QED BY <2>3, <2>4 DEF VerdictFitsTasks, TasksOf
<1>5. QED BY <1>1, <1>2, <1>3, <1>4 DEF SequenceInv

\* The story moves on when it rests, or is done when nothing is left to do.
LEMMA AdvanceKeepsSequence ==
    ASSUME TypeOK, OwnershipInv, SequenceInv, AdvanceStory
    PROVE  SequenceInv'
<1> USE DEF agents
<1>1. PICK v \in verdict :
         /\ v.ok
         /\ \/ \E n \in NextTask(taskStatus, v.task) :
                  /\ taskStatus' = [taskStatus EXCEPT ![n] = "in_progress"]
                  /\ progress' = progress \cup
                        {[by |-> v.by, kind |-> "start", task |-> n]}
                  /\ UNCHANGED storyStatus
            \/ /\ AllFinished(taskStatus, v.task.story)
               /\ storyStatus' = [storyStatus EXCEPT ![v.task.story] = "done"]
               /\ progress' = progress \cup
                     {[by |-> v.by, kind |-> "complete", task |-> v.task]}
               /\ UNCHANGED taskStatus
            \/ UNCHANGED <<taskStatus, storyStatus, progress>>
      BY DEF AdvanceStory
<1> DEFINE s == v.task.story
<1>2. v.task \in Task /\ s \in Story
      BY DEF TypeOK, Verdict, Task
<1>3. /\ taskStatus[v.task] = "done"
      /\ Rests(taskStatus, s)
      /\ Overlap \/ storyStatus[s] # "failed"
  <2>1. v.task \in TasksOf(s)
        BY <1>2 DEF TasksOf
  <2>2. /\ taskStatus[v.task] \notin {"pending", "cancelled"}
        /\ ~Overlap => storyStatus[s] # "failed"
        /\ \A t \in TasksOf(s) : taskStatus[t] \notin {"failed", "in_progress"}
        BY <1>1 DEF SequenceInv, VerdictFitsTasks
  <2>3. QED BY <2>1, <2>2 DEF Rests, TasksOf, TypeOK, TaskStatus, Finished
<1>4. verdict' = {} /\ UNCHANGED <<pc, plan, call>>
      BY DEF AdvanceStory
<1>5. pc \notin {"idle", "down", "execute"}
      BY <1>1 DEF OwnershipInv, TickIsUpToDate
<1>6. PlanIsUpToDate'
      BY <1>4, <1>5 DEF SequenceInv, PlanIsUpToDate, NoPlan
<1>7. CallIsUpToDate'
  <2>1. ASSUME NEW c \in Client, ~Idle(c)
        PROVE  /\ Overlap /\ call[c].op \in {"retry", "skip"}
               /\ call[c].story # s
    <3>1. /\ Overlap /\ call[c].op \in {"retry", "skip"}
          /\ call[c].task \in Task /\ taskStatus[call[c].task] = "failed"
          /\ call[c].story = call[c].task.story
          BY <1>5, <2>1, CallInTick DEF OwnershipInv
    <3>2. QED BY <1>3, <3>1 DEF Rests, TasksOf, Finished
  <2>2. \A u \in Story : u # s => storyStatus'[u] = storyStatus[u]
        BY <1>1, <1>2 DEF TypeOK
  <2>3. \A c \in Client : call[c].story \in Story
        BY DEF TypeOK, Call
  <2>4. QED BY <1>4, <2>1, <2>2, <2>3 DEF SequenceInv, CallIsUpToDate, Idle
<1>8. ASSUME NEW n \in NextTask(taskStatus, v.task),
             taskStatus' = [taskStatus EXCEPT ![n] = "in_progress"],
             progress' = progress \cup
                {[by |-> v.by, kind |-> "start", task |-> n]},
             UNCHANGED storyStatus
      PROVE  TasksInSequence' /\ StatusFitsTasks' /\ VerdictFitsTasks'
  <2>1. InSequence(taskStatus)
        BY DEF SequenceInv, TasksInSequence, InSequence
  <2>2. /\ n \in Task /\ n.story = s /\ taskStatus[n] = "pending"
        /\ \A u \in Task : u.story = n.story /\ SortOrder(u) < SortOrder(n)
                              => taskStatus[u] \in Finished
    <3>1. CASE /\ v.task.kind = "impl" /\ n = PairedVerify(v.task)
               /\ taskStatus[n] = "pending"
      <4>1. n \in Task /\ n.story = s
            BY <1>2, <3>1, PairedVerifyType
      <4>2. ASSUME NEW u \in Task, u.story = n.story,
                   SortOrder(u) < SortOrder(n)
            PROVE  taskStatus[u] \in Finished
        <5>1. u = v.task \/ SortOrder(u) < SortOrder(v.task)
              BY <1>2, <3>1, <4>1, <4>2, VerifyComesNext
        <5>2. QED BY <1>2, <1>3, <2>1, <4>1, <4>2, <5>1
                  DEF InSequence, Finished
      <4>3. QED BY <3>1, <4>1, <4>2
    <3>2. CASE n \in NextPending(taskStatus, s)
          BY <1>2, <1>3, <2>1, <3>2, NextPendingIsDue
    <3>3. QED BY <1>8, <3>1, <3>2 DEF NextTask
  <2>3. \A u \in Task : u # n => taskStatus'[u] = taskStatus[u]
        BY <1>8 DEF TypeOK
  <2>4. TasksInSequence'
    <3>1. InSequence(taskStatus')
          BY <2>1, <2>2, <2>3, ChangeKeepsSequence DEF Finished
    <3>2. QED BY <3>1 DEF TasksInSequence, InSequence
  <2>5. StatusFitsTasks'
    <3>1. storyStatus[s] \notin {"pending", "ready", "cancelled"}
          BY <1>2, <1>3 DEF SequenceInv, StatusFitsTasks
    <3>2. QED BY <1>3, <1>8, <2>2, <2>3, <3>1
              DEF SequenceInv, StatusFitsTasks
  <2>6. VerdictFitsTasks'
        BY <1>4, <1>8, <2>2, <2>3
        DEF SequenceInv, VerdictFitsTasks, AllFinished, TasksOf, Finished
  <2>7. QED BY <2>4, <2>5, <2>6
<1>9. ASSUME AllFinished(taskStatus, s), UNCHANGED taskStatus,
             storyStatus' = [storyStatus EXCEPT ![s] = "done"],
             progress' = progress \cup
                {[by |-> v.by, kind |-> "complete", task |-> v.task]}
      PROVE  TasksInSequence' /\ StatusFitsTasks' /\ VerdictFitsTasks'
  <2>1. \A u \in Story : storyStatus'[u] = IF u = s THEN "done"
                                           ELSE storyStatus[u]
        BY <1>2, <1>9 DEF TypeOK
  <2>2. \A t \in Task : t.story \in Story
        BY DEF Task
  <2>3. TasksInSequence' /\ StatusFitsTasks'
        BY <1>9, <2>1, <2>2
        DEF SequenceInv, TasksInSequence, StatusFitsTasks
  <2>4. VerdictFitsTasks'
        BY <1>4, <1>9 DEF SequenceInv, VerdictFitsTasks, AllFinished, TasksOf
  <2>5. QED BY <2>3, <2>4
<1>10. ASSUME UNCHANGED <<taskStatus, storyStatus, progress>>
       PROVE  TasksInSequence' /\ StatusFitsTasks' /\ VerdictFitsTasks'
       BY <1>4, <1>10 DEF SequenceInv, TasksInSequence, StatusFitsTasks,
          VerdictFitsTasks, AllFinished, TasksOf
<1>11. QED BY <1>1, <1>6, <1>7, <1>8, <1>9, <1>10 DEF SequenceInv

\* Tasks in progress may fail, as long as no verdict is pending.
LEMMA InterruptionKeepsSequence ==
    ASSUME TypeOK, SequenceInv, verdict' = {}, progress' \subseteq progress,
           \A t \in Task : \/ taskStatus'[t] = taskStatus[t]
                           \/ /\ taskStatus[t] = "in_progress"
                              /\ taskStatus'[t] = "failed",
           UNCHANGED <<storyStatus, plan, call>>,
           UNCHANGED pc \/ plan = NoPlan
    PROVE  SequenceInv'
<1>1. PlanIsUpToDate' /\ CallIsUpToDate'
      BY DEF SequenceInv, PlanIsUpToDate, CallIsUpToDate, Idle
<1>2. TasksInSequence'
      BY DEF SequenceInv, TasksInSequence, Finished
<1>3. StatusFitsTasks'
      BY DEF SequenceInv, StatusFitsTasks
<1>4. VerdictFitsTasks'
      BY DEF SequenceInv, VerdictFitsTasks, AllFinished, TasksOf, Finished
<1>5. QED BY <1>1, <1>2, <1>3, <1>4 DEF SequenceInv

\* A story for which nobody works may fail.
LEMMA StoryFailureKeepsSequence ==
    ASSUME TypeOK, SequenceInv, NEW s \in Story,
           storyStatus'[s] = "failed",
           \A u \in Story : u # s => storyStatus'[u] = storyStatus[u],
           verdict' = {}, progress' \subseteq progress,
           UNCHANGED <<taskStatus, call>>,
           plan'.ready \subseteq plan.ready \ {s},
           plan'.start \subseteq plan.start \ {s},
           UNCHANGED <<pc, plan>> \/ pc' = "execute",
           \/ Overlap
           \/ /\ \A c \in Client : Idle(c)
              /\ \A t \in TasksOf(s) : taskStatus[t] # "in_progress"
    PROVE  SequenceInv'
<1>1. PlanIsUpToDate'
      BY DEF SequenceInv, PlanIsUpToDate, TypeOK
<1>2. CallIsUpToDate'
  <2>1. \A c \in Client : call[c].story \in Story
        BY DEF TypeOK, Call
  <2>2. QED BY <2>1 DEF SequenceInv, CallIsUpToDate, Idle
<1>3. TasksInSequence' /\ VerdictFitsTasks'
      BY DEF SequenceInv, TasksInSequence, VerdictFitsTasks, AllFinished,
             TasksOf
<1>4. StatusFitsTasks'
  <2>1. \A t \in Task : t.story \in Story
        BY DEF Task
  <2>2. QED BY <2>1 DEF SequenceInv, StatusFitsTasks, TasksOf
<1>5. QED BY <1>1, <1>2, <1>3, <1>4 DEF SequenceInv

\* When a task is set to work, with an agent or without, no other changes.
LEMMA CommandLaunchLeavesOthers ==
    ASSUME TypeOK, NEW ts \in [Task -> TaskStatus], NEW n \in Task,
           NEW a \in TaskStatus, NEW b \in TaskStatus,
           NEW pipe \in {"wait", "log"},
           \/ Launch(n, [ts EXCEPT ![n] = "in_progress"], a, b, pipe)
           \/ /\ taskStatus' = [ts EXCEPT ![n] = "in_progress"]
              /\ UNCHANGED run
    PROVE  /\ taskStatus'[n] \in {"in_progress", a, b}
           /\ \A u \in Task : u # n => taskStatus'[u] = ts[u]
<1> DEFINE started == [ts EXCEPT ![n] = "in_progress"]
<1>1. /\ started \in [Task -> TaskStatus] /\ started[n] = "in_progress"
      /\ \A u \in Task : u # n => started[u] = ts[u]
      BY DEF TaskStatus
<1>2. Launch(n, started, a, b, pipe) \/ taskStatus' = started
      OBVIOUS
<1> HIDE DEF started
<1>3. QED BY <1>1, <1>2, LaunchLeavesOthers

\* The first task of a story that starts is due: all its tasks are pending.
LEMMA StartStoryKeepsSequence ==
    ASSUME TypeOK, OwnershipInv, SequenceInv, NEW s \in plan.start,
           verdict = {}, progress = {}, StartStoryWorks(s),
           UNCHANGED <<verdict, progress, call>>, pc' = "execute",
           pc = "execute",
           plan' = [plan EXCEPT !.start = @ \ {s}]
    PROVE  SequenceInv'
<1>1. /\ s \in Story /\ storyStatus[s] = "ready"
      /\ \A t \in Task : t.story = s => taskStatus[t] = "pending"
      BY DEF SequenceInv, PlanIsUpToDate, StatusFitsTasks, TypeOK
<1>2. /\ storyStatus'[s] = "in_progress"
      /\ \A u \in Story : u # s => storyStatus'[u] = storyStatus[u]
      BY <1>1 DEF StartStoryWorks, TypeOK
<1>3. PlanIsUpToDate'
      BY <1>1, <1>2 DEF SequenceInv, PlanIsUpToDate, TypeOK
<1>4. CallIsUpToDate'
  <2>1. \A c \in Client :
           ~Idle(c) => Overlap /\ call[c].op \in {"retry", "skip"}
        BY CallInTick DEF OwnershipInv
  <2>2. \A c \in Client : call[c].story \in Story
        BY DEF TypeOK, Call
  <2>3. QED BY <1>1, <1>2, <2>1, <2>2 DEF SequenceInv, CallIsUpToDate, Idle
<1>5. VerdictFitsTasks'
      BY DEF VerdictFitsTasks
<1>6. ASSUME NEW n \in NextPending(taskStatus, s), n \in Task,
             \A u \in Task : u # n => taskStatus'[u] = taskStatus[u]
      PROVE  TasksInSequence' /\ StatusFitsTasks'
  <2>1. InSequence(taskStatus)
        BY DEF SequenceInv, TasksInSequence, InSequence
  <2>2. Rests(taskStatus, s)
        BY <1>1 DEF Rests, TasksOf
  <2>3. /\ n.story = s /\ taskStatus[n] = "pending"
        /\ \A u \in Task : u.story = n.story /\ SortOrder(u) < SortOrder(n)
                              => taskStatus[u] \in Finished
        BY <1>1, <2>1, <2>2, NextPendingIsDue
  <2>4. InSequence(taskStatus')
        BY <1>6, <2>1, <2>3, ChangeKeepsSequence DEF Finished
  <2>5. TasksInSequence'
        BY <2>4 DEF TasksInSequence, InSequence
  <2>6. \A t \in Task : t.story \in Story
        BY DEF Task
  <2>7. QED BY <1>2, <1>6, <2>3, <2>5, <2>6 DEF SequenceInv, StatusFitsTasks
<1>7. ASSUME UNCHANGED taskStatus
      PROVE  TasksInSequence' /\ StatusFitsTasks'
  <2>1. \A t \in Task : t.story \in Story
        BY DEF Task
  <2>2. QED BY <1>2, <1>7, <2>1
            DEF SequenceInv, TasksInSequence, StatusFitsTasks
<1>8. TasksInSequence' /\ StatusFitsTasks'
  <2>1. ASSUME NEW n \in NextPending(taskStatus, s),
               Launch(n, [taskStatus EXCEPT ![n] = "in_progress"],
                      "in_progress", "failed", "wait")
        PROVE  n \in Task /\ \A u \in Task : u # n =>
                                taskStatus'[u] = taskStatus[u]
    <3>1. n \in Task
          BY DEF NextPending, FirstWith, TasksOf
    <3>2. QED BY <2>1, <3>1, CommandLaunchLeavesOthers
              DEF TypeOK, TaskStatus
  <2>2. QED BY <1>6, <1>7, <2>1 DEF StartStoryWorks
<1>9. QED BY <1>3, <1>4, <1>5, <1>8 DEF SequenceInv

\* The steps of the scheduler loop keep the invariant.
LEMMA SchedulerKeepsSequence ==
    ASSUME TypeOK, OwnershipInv, SequenceInv, SchedulerStep
    PROVE  SequenceInv'
<1> USE DEF workItems, agents
<1>1. ASSUME pc # "execute"
      PROVE  plan = NoPlan
      BY <1>1 DEF SequenceInv, PlanIsUpToDate
<1>2. pc # "idle" => Overlap \/ \A c \in Client : Idle(c)
      BY CallInTick DEF OwnershipInv
<1>3. CASE \/ TickBegin \/ ReapAlive \/ TickEnd
           \/ \E late \in SUBSET Running : CheckTimeouts(late)
      BY <1>1, <1>3, SequenceUnchanged
      DEF TickBegin, ReapAlive, TickEnd, CheckTimeouts
<1>4. CASE ReapSucceeded \/ ReapFailed \/ TimeOut
  <2>1. PICK e \in todo, ok \in BOOLEAN :
           /\ taskStatus' = [taskStatus EXCEPT ![run[e.run].task] =
                                IF ok THEN "done" ELSE "failed"]
           /\ verdict' = {[by |-> e.run, task |-> run[e.run].task, ok |-> ok]}
        BY <1>4 DEF ReapSucceeded, ReapFailed, TimeOut
  <2>2. PICK t \in Task : t = run[e.run].task /\ taskStatus[t] = "in_progress"
        BY DEF OwnershipInv, TickIsUpToDate, TaskOwnership, Running, TypeOK,
               Entry, RunRow
  <2>3. /\ taskStatus'[t] = IF ok THEN "done" ELSE "failed"
        /\ \A u \in Task : u # t => taskStatus'[u] = taskStatus[u]
        BY <2>1, <2>2 DEF TypeOK
  <2>4. UNCHANGED <<storyStatus, pc, progress, plan, call>>
        BY <1>4 DEF ReapSucceeded, ReapFailed, TimeOut
  <2>5. QED BY <2>1, <2>2, <2>3, <2>4, VerdictKeepsSequence
<1>5. CASE AdvanceStory
      BY <1>5, AdvanceKeepsSequence
<1>6. CASE FailStory
  <2>1. PICK v \in verdict :
           /\ ~v.ok
           /\ storyStatus' = [storyStatus EXCEPT ![v.task.story] = "failed"]
        BY <1>6 DEF FailStory
  <2>2. v.task.story \in Story
        BY DEF TypeOK, Verdict, Task
  <2>3. pc \notin {"idle", "execute"}
        BY <2>1 DEF OwnershipInv, TickIsUpToDate
  <2>4. plan.ready = {} /\ plan.start = {}
        BY <1>1, <2>3 DEF NoPlan
  <2>5. Overlap \/ \A t \in TasksOf(v.task.story) :
                      taskStatus[t] # "in_progress"
        BY DEF SequenceInv, VerdictFitsTasks
  <2>6. /\ storyStatus'[v.task.story] = "failed"
        /\ \A u \in Story : u # v.task.story =>
              storyStatus'[u] = storyStatus[u]
        BY <2>1, <2>2 DEF TypeOK
  <2>7. /\ verdict' = {}
        /\ UNCHANGED <<taskStatus, call, pc, plan, progress>>
        BY <1>6 DEF FailStory
  <2>8. QED BY <1>2, <2>2, <2>3, <2>4, <2>5, <2>6, <2>7,
               StoryFailureKeepsSequence
<1>7. CASE Schedule
  <2>1. UNCHANGED <<storyStatus, taskStatus, verdict, progress, call>>
        BY <1>7 DEF Schedule
  <2>2. PlanIsUpToDate'
        BY <1>7, <2>1 DEF Schedule, PlanIsUpToDate, SchedulePlan, NoPlan
  <2>3. QED BY <2>1, <2>2 DEF SequenceInv, CallIsUpToDate, TasksInSequence,
               StatusFitsTasks, VerdictFitsTasks, AllFinished, TasksOf, Idle
<1>8. CASE StartNextTask
  <2>1. PICK p \in progress :
           /\ p.kind = "start" /\ progress' = progress \ {p}
           /\ \/ Launch(p.task, taskStatus, taskStatus[p.task], "failed",
                        "wait")
              \/ UNCHANGED taskStatus
        BY <1>8 DEF StartNextTask
  <2>2. p.task \in Task /\ taskStatus[p.task] = "in_progress"
        BY <2>1 DEF OwnershipInv, TickIsUpToDate, TypeOK, ProgressAction
  <2>3. \A t \in Task : \/ taskStatus'[t] = taskStatus[t]
                        \/ /\ taskStatus[t] = "in_progress"
                           /\ taskStatus'[t] = "failed"
        BY <2>1, <2>2, LaunchLeavesOthers DEF TypeOK
  <2>4. /\ verdict = {} /\ verdict' = verdict
        /\ UNCHANGED <<storyStatus, plan, call, pc>>
        BY <1>8 DEF StartNextTask, OwnershipInv, TickIsUpToDate
  <2>5. QED BY <2>1, <2>3, <2>4, InterruptionKeepsSequence
<1>9. CASE CompleteStory
  <2>1. PICK p \in progress :
           /\ p.kind = "complete" /\ progress' = progress \ {p}
           /\ \/ UNCHANGED storyStatus
              \/ storyStatus' = [storyStatus EXCEPT ![p.task.story] = "failed"]
        BY <1>9 DEF CompleteStory
  <2>2. /\ pc = "execute" /\ verdict = {} /\ verdict' = verdict
        /\ UNCHANGED <<taskStatus, pc, plan, call>>
        BY <1>9 DEF CompleteStory, OwnershipInv, TickIsUpToDate
  <2>3. CASE UNCHANGED storyStatus
        BY <2>1, <2>2, <2>3, InterruptionKeepsSequence
  <2>4. CASE storyStatus' = [storyStatus EXCEPT ![p.task.story] = "failed"]
    <3>1. p.task \in Task /\ p.task.story \in Story
          BY DEF TypeOK, ProgressAction, Task
    <3>2. \A t \in TasksOf(p.task.story) : taskStatus[t] \in Finished
          BY <2>1 DEF SequenceInv, VerdictFitsTasks, AllFinished
    <3>3. p.task.story \notin plan.ready \cup plan.start
      <4>1. taskStatus[p.task] # "pending"
            BY <3>1, <3>2 DEF TasksOf, Finished
      <4>2. QED BY <3>1, <4>1
                DEF SequenceInv, StatusFitsTasks, PlanIsUpToDate
    <3>4. /\ storyStatus'[p.task.story] = "failed"
          /\ \A u \in Story : u # p.task.story =>
                storyStatus'[u] = storyStatus[u]
          BY <2>4, <3>1 DEF TypeOK
    <3>5. progress' \subseteq progress
          BY <2>1
    <3>6. QED BY <1>2, <2>2, <3>1, <3>2, <3>3, <3>4, <3>5,
                 StoryFailureKeepsSequence DEF Finished
  <2>5. QED BY <2>1, <2>3, <2>4
<1>10. CASE UpdateEpicStatus
  <2>1. /\ UNCHANGED <<storyStatus, taskStatus, verdict, progress, call, pc>>
        /\ pc = "execute"
        /\ plan'.ready = plan.ready /\ plan'.start = plan.start
        BY <1>10 DEF UpdateEpicStatus, TypeOK
  <2>2. QED BY <2>1 DEF SequenceInv, PlanIsUpToDate, CallIsUpToDate,
               TasksInSequence, StatusFitsTasks, VerdictFitsTasks,
               AllFinished, TasksOf, Idle
<1>11. CASE MarkStoryReady
  <2>1. PICK s \in plan.ready :
           /\ storyStatus' = [storyStatus EXCEPT ![s] = "ready"]
           /\ plan' = [plan EXCEPT !.ready = @ \ {s}]
        BY <1>11 DEF MarkStoryReady
  <2>2. s \in Story /\ storyStatus[s] = "pending"
        BY DEF SequenceInv, PlanIsUpToDate, TypeOK
  <2>3. /\ pc = "execute" /\ UNCHANGED <<taskStatus, verdict, progress, call, pc>>
        /\ plan'.ready = plan.ready \ {s} /\ plan'.start = plan.start
        BY <1>11, <2>1 DEF MarkStoryReady, TypeOK
  <2>4. /\ storyStatus'[s] = "ready"
        /\ \A u \in Story : u # s => storyStatus'[u] = storyStatus[u]
        BY <2>1, <2>2 DEF TypeOK
  <2>5. PlanIsUpToDate'
        BY <2>2, <2>3, <2>4 DEF SequenceInv, PlanIsUpToDate, TypeOK
  <2>6. CallIsUpToDate'
    <3>1. \A c \in Client : call[c].story \in Story
          BY DEF TypeOK, Call
    <3>2. \A c \in Client :
             ~Idle(c) => Overlap /\ call[c].op \in {"retry", "skip"}
          BY <2>3, CallInTick DEF OwnershipInv
    <3>3. QED BY <2>2, <2>3, <2>4, <3>1, <3>2
              DEF SequenceInv, CallIsUpToDate, Idle
  <2>7. TasksInSequence' /\ VerdictFitsTasks'
    <3>1. verdict = {} /\ verdict' = {}
          BY <2>3 DEF OwnershipInv, TickIsUpToDate
    <3>2. QED BY <2>3, <3>1 DEF SequenceInv, TasksInSequence,
                 VerdictFitsTasks, AllFinished, TasksOf
  <2>8. StatusFitsTasks'
    <3>1. \A t \in Task : t.story \in Story
          BY DEF Task
    <3>2. QED BY <2>2, <2>3, <2>4, <3>1 DEF SequenceInv, StatusFitsTasks
  <2>9. QED BY <2>5, <2>6, <2>7, <2>8 DEF SequenceInv
<1>12. CASE StartStory
  <2>1. PICK s \in plan.start :
           /\ plan' = [plan EXCEPT !.start = @ \ {s}]
           /\ StartStoryFails(s) \/ StartStoryWorks(s)
        BY <1>12 DEF StartStory
  <2>2. /\ pc = "execute" /\ verdict = {} /\ progress = {}
        /\ UNCHANGED <<verdict, progress, call, pc>>
        BY <1>12 DEF StartStory, OwnershipInv, TickIsUpToDate
  <2>3. /\ s \in Story /\ storyStatus[s] = "ready"
        /\ \A t \in TasksOf(s) : taskStatus[t] = "pending"
        BY DEF SequenceInv, PlanIsUpToDate, StatusFitsTasks, TasksOf, TypeOK
  <2>4. CASE StartStoryFails(s)
    <3>1. /\ storyStatus'[s] = "failed"
          /\ \A u \in Story : u # s => storyStatus'[u] = storyStatus[u]
          /\ UNCHANGED taskStatus
          BY <2>3, <2>4 DEF StartStoryFails, TypeOK
    <3>2. /\ plan'.ready \subseteq plan.ready \ {s}
          /\ plan'.start \subseteq plan.start \ {s}
          BY <2>1, <2>3 DEF SequenceInv, PlanIsUpToDate, TypeOK
    <3>3. QED BY <1>2, <2>2, <2>3, <3>1, <3>2, StoryFailureKeepsSequence
  <2>5. CASE StartStoryWorks(s)
        BY <2>1, <2>2, <2>5, StartStoryKeepsSequence
  <2>6. QED BY <2>1, <2>4, <2>5
<1>13. QED
       BY <1>3, <1>4, <1>5, <1>6, <1>7, <1>8, <1>9, <1>10, <1>11, <1>12
       DEF SchedulerStep
-----------------------------------------------------------------------------
(***************************************************************************)
(* SequenceInv: commands, agents and restarts.                             *)
(***************************************************************************)

\* A command that works on story s keeps the invariant if the story is well
\* formed afterwards, and either no tick is under way or the command started
\* from a failed task, so that no tick can have finished the story.
LEMMA CommandKeepsSequence ==
    ASSUME TypeOK, SequenceInv, NEW s \in Story,
           \A u \in Story : u # s => storyStatus'[u] = storyStatus[u],
           \A t \in Task : t.story # s => taskStatus'[t] = taskStatus[t],
           InSequence(taskStatus'),
           \A t \in TasksOf(s) :
              /\ storyStatus'[s] \in {"pending", "ready"} =>
                    taskStatus'[t] = "pending"
              /\ storyStatus'[s] = "cancelled" => taskStatus'[t] = "cancelled"
              /\ ~Overlap /\ storyStatus'[s] = "failed" =>
                    taskStatus'[t] # "in_progress",
           \A c \in Client : call'[c].op = "none",
           UNCHANGED <<pc, verdict, progress, plan>>,
           \/ verdict = {} /\ progress = {} /\ plan = NoPlan
           \/ /\ Overlap
              /\ \E t \in TasksOf(s) : taskStatus[t] = "failed"
              /\ \A t \in TasksOf(s) :
                    taskStatus[t] \notin {"pending", "cancelled"} =>
                       taskStatus'[t] \notin {"pending", "cancelled"}
    PROVE  SequenceInv'
<1>1. PlanIsUpToDate'
  <2>1. plan = NoPlan \/ storyStatus[s] \notin {"pending", "ready"}
        BY DEF SequenceInv, StatusFitsTasks, TasksOf
  <2>2. plan.ready \subseteq Story /\ plan.start \subseteq Story
        BY DEF TypeOK
  <2>3. QED BY <2>1, <2>2 DEF SequenceInv, PlanIsUpToDate, NoPlan
<1>2. CallIsUpToDate'
      BY DEF CallIsUpToDate, Idle
<1>3. TasksInSequence'
      BY DEF TasksInSequence, InSequence
<1>4. StatusFitsTasks'
  <2>1. \A t \in Task : t.story \in Story
        BY DEF Task
  <2>2. QED BY <2>1 DEF SequenceInv, StatusFitsTasks, TasksOf
<1>5. VerdictFitsTasks'
  <2>1. CASE verdict = {} /\ progress = {}
        BY <2>1 DEF VerdictFitsTasks
  <2>2. CASE /\ Overlap
             /\ \E t \in TasksOf(s) : taskStatus[t] = "failed"
             /\ \A t \in TasksOf(s) :
                   taskStatus[t] \notin {"pending", "cancelled"} =>
                      taskStatus'[t] \notin {"pending", "cancelled"}
    <3>1. ASSUME NEW v \in verdict
          PROVE  /\ v.task \in Task
                 /\ taskStatus[v.task] \notin {"pending", "cancelled"}
                 /\ v.ok => /\ v.task.story # s
                            /\ \A t \in TasksOf(v.task.story) :
                                  taskStatus[t] \notin {"failed",
                                                        "in_progress"}
          BY <2>2 DEF SequenceInv, VerdictFitsTasks, TypeOK, Verdict
    <3>2. ASSUME NEW p \in progress, p.kind = "complete"
          PROVE  /\ p.task.story # s
                 /\ AllFinished(taskStatus, p.task.story)
          BY <2>2, <3>2 DEF SequenceInv, VerdictFitsTasks, AllFinished,
             Finished
    <3>3. \A v \in verdict : taskStatus'[v.task] \notin {"pending",
                                                         "cancelled"}
          BY <2>2, <3>1 DEF TasksOf
    <3>4. QED BY <2>2, <3>1, <3>2, <3>3
              DEF VerdictFitsTasks, AllFinished, TasksOf
  <2>3. QED BY <2>1, <2>2
<1>6. QED BY <1>1, <1>2, <1>3, <1>4, <1>5 DEF SequenceInv

\* exec.retry and exec.skip start from a failed task.
LEMMA TaskCommandKeepsSequence ==
    ASSUME TypeOK, OwnershipInv, SequenceInv, NEW c \in Client,
           Retry(c) \/ Skip(c)
    PROVE  SequenceInv'
<1> DEFINE s == call[c].story
           t == call[c].task
<1>1. /\ t \in Task /\ s \in Story /\ s = t.story /\ taskStatus[t] = "failed"
      /\ pc = "idle" \/ (Overlap /\ pc # "down")
      /\ \A d \in Client : ~Idle(d) => d = c
      /\ call[c].op \in {"retry", "skip"}
      BY DEF Retry, Skip, OwnershipInv, CommandIsAlone, Idle, TypeOK, Call,
             Task
<1>2. /\ ~Overlap => storyStatus[s] = call[c].seen
      /\ storyStatus[s] \notin {"pending", "ready", "cancelled"}
      BY <1>1 DEF SequenceInv, CallIsUpToDate, StatusFitsTasks, Idle
<1>3. /\ UNCHANGED <<pc, verdict, progress, plan>>
      /\ \A d \in Client : call'[d].op = "none"
  <2>1. /\ UNCHANGED <<pc, verdict, progress, plan>>
        /\ call' = [call EXCEPT ![c] = NoCall]
        BY DEF Retry, Skip, Answer, tick
  <2>2. QED BY <1>1, <2>1 DEF NoCall, Idle, TypeOK
<1>4. \/ verdict = {} /\ progress = {} /\ plan = NoPlan
      \/ Overlap
      BY <1>1 DEF OwnershipInv, TickIsUpToDate, SequenceInv, PlanIsUpToDate
<1>5. t \in TasksOf(s) /\ InSequence(taskStatus)
      BY <1>1 DEF TasksOf, SequenceInv, TasksInSequence, InSequence
<1>6. /\ \A u \in Story : u # s => storyStatus'[u] = storyStatus[u]
      /\ storyStatus'[s] \in {"in_progress", "done", storyStatus[s]}
      BY <1>1 DEF Retry, Skip, Revived, DoneIfFinished, TypeOK
<1>7. ASSUME storyStatus' = Revived(s, call[c].seen), ~Overlap
      PROVE  storyStatus'[s] # "failed"
      BY <1>1, <1>2, <1>7 DEF Revived, TypeOK
<1>8. CASE Retry(c)
  <2>1. \/ Launch(t, [taskStatus EXCEPT ![t] = "in_progress"],
                  "in_progress", "failed", "wait")
        \/ /\ taskStatus' = [taskStatus EXCEPT ![t] = "in_progress"]
           /\ UNCHANGED run
        BY <1>8 DEF Retry
  <2>2. storyStatus' = Revived(s, call[c].seen)
        BY <1>8 DEF Retry
  <2>3. /\ InSequence(taskStatus')
        /\ taskStatus'[t] \in {"in_progress", "failed"}
        /\ \A u \in Task : u # t => taskStatus'[u] = taskStatus[u]
    <3>1. /\ taskStatus'[t] \in {"in_progress", "failed"}
          /\ \A u \in Task : u # t => taskStatus'[u] = taskStatus[u]
          BY <1>1, <2>1, CommandLaunchLeavesOthers DEF TypeOK, TaskStatus
    <3>2. PICK n \in Task : n = t
          BY <1>1
    <3>3. InSequence(taskStatus')
          BY <1>1, <1>5, <3>1, <3>2, ChangeKeepsSequence DEF Finished
    <3>4. QED BY <3>1, <3>3
  <2>4. \A u \in TasksOf(s) :
           taskStatus[u] \notin {"pending", "cancelled"} =>
              taskStatus'[u] \notin {"pending", "cancelled"}
        BY <2>3 DEF TasksOf
  <2>5. storyStatus'[s] \notin {"pending", "ready", "cancelled"}
        BY <1>2, <1>6
  <2>6. ~Overlap => storyStatus'[s] # "failed"
        BY <1>7, <2>2
  <2>7. \A u \in Task : u.story # s => taskStatus'[u] = taskStatus[u]
        BY <1>1, <2>3
  <2> HIDE DEF s, t
  <2>8. QED BY <1>1, <1>3, <1>4, <1>5, <1>6, <2>3, <2>4, <2>5, <2>6, <2>7,
               CommandKeepsSequence
<1>9. CASE Skip(c)
  <2> DEFINE ts == Skipped(taskStatus, t)
  <2>1. /\ ts \in [Task -> TaskStatus] /\ InSequence(ts) /\ Rests(ts, s)
        /\ \A u \in Task :
              \/ ts[u] = taskStatus[u]
              \/ /\ u.story = s
                 /\ <<taskStatus[u], ts[u]>> \in
                       {<<"pending", "cancelled">>, <<"failed", "done">>}
        BY <1>1, <1>5, SkippedType, SkippedKeepsSequence DEF TypeOK
  <2>2. \/ /\ \E n \in NextPending(ts, s) :
                 \/ Launch(n, [ts EXCEPT ![n] = "in_progress"],
                           "in_progress", "pending", "log")
                 \/ /\ taskStatus' = [ts EXCEPT ![n] = "in_progress"]
                    /\ UNCHANGED run
           /\ storyStatus' = Revived(s, call[c].seen)
        \/ taskStatus' = ts
        BY <1>9 DEF Skip
  <2> HIDE DEF ts
  <2>3. /\ InSequence(taskStatus')
        /\ \A u \in Task : \/ taskStatus'[u] = ts[u]
                           \/ /\ ts[u] = "pending" /\ u.story = s
                              /\ taskStatus'[u] \in {"in_progress", "pending"}
                              /\ storyStatus' = Revived(s, call[c].seen)
    <3>1. CASE taskStatus' = ts
          BY <2>1, <3>1
    <3>2. ASSUME NEW n \in NextPending(ts, s),
                 \/ Launch(n, [ts EXCEPT ![n] = "in_progress"],
                           "in_progress", "pending", "log")
                 \/ /\ taskStatus' = [ts EXCEPT ![n] = "in_progress"]
                    /\ UNCHANGED run,
                 storyStatus' = Revived(s, call[c].seen)
          PROVE  /\ InSequence(taskStatus')
                 /\ n.story = s /\ ts[n] = "pending"
                 /\ taskStatus'[n] \in {"in_progress", "pending"}
                 /\ \A u \in Task : u # n => taskStatus'[u] = ts[u]
      <4>1. /\ n \in Task /\ n.story = s /\ ts[n] = "pending"
            /\ \A u \in Task :
                  u.story = n.story /\ SortOrder(u) < SortOrder(n)
                     => ts[u] \in Finished
            BY <1>1, <2>1, NextPendingIsDue
      <4>2. /\ taskStatus'[n] \in {"in_progress", "pending"}
            /\ \A u \in Task : u # n => taskStatus'[u] = ts[u]
            BY <2>1, <3>2, <4>1, CommandLaunchLeavesOthers DEF TaskStatus
      <4>3. InSequence(taskStatus')
            BY <2>1, <4>1, <4>2, ChangeKeepsSequence DEF Finished
      <4>4. QED BY <3>2, <4>1, <4>2, <4>3
    <3>3. QED BY <2>2, <3>1, <3>2
  <2>4. \A u \in TasksOf(s) :
           taskStatus[u] \notin {"pending", "cancelled"} =>
              taskStatus'[u] \notin {"pending", "cancelled"}
        BY <2>1, <2>3 DEF TasksOf
  <2>5. storyStatus'[s] \notin {"pending", "ready", "cancelled"}
        BY <1>2, <1>6
  <2>6. ~Overlap /\ storyStatus'[s] = "failed" =>
           \A u \in TasksOf(s) : taskStatus'[u] # "in_progress"
        BY <1>7, <2>1, <2>3 DEF Rests, TasksOf, Finished
  <2>7. \A u \in Task : u.story # s => taskStatus'[u] = taskStatus[u]
        BY <1>1, <2>1, <2>3
  <2> HIDE DEF s, t
  <2>8. QED BY <1>1, <1>3, <1>4, <1>5, <1>6, <2>3, <2>4, <2>5, <2>6, <2>7,
               CommandKeepsSequence
<1>10. QED BY <1>8, <1>9

\* The commands on stories run between two ticks, on a story that is still as
\* they have read it.
LEMMA StoryCommandKeepsSequence ==
    ASSUME CommandsTakeTurns, TypeOK, OwnershipInv, SequenceInv,
           NEW c \in Client,
           ContinueFailed(c) \/ ContinueCancelled(c) \/ Cancel(c)
    PROVE  SequenceInv'
<1> DEFINE s == call[c].story
<1>1. /\ s \in Story /\ ~Idle(c) /\ ~Overlap /\ pc = "idle"
      /\ \A d \in Client : ~Idle(d) => d = c
      /\ storyStatus[s] = call[c].seen
      BY DEF ContinueFailed, ContinueCancelled, Cancel, OwnershipInv,
             CommandIsAlone, SequenceInv, CallIsUpToDate, Idle, TypeOK, Call
<1>2. /\ UNCHANGED <<pc, verdict, progress, plan>>
      /\ \A d \in Client : call'[d].op = "none"
  <2>1. /\ UNCHANGED <<pc, verdict, progress, plan>>
        /\ call' = [call EXCEPT ![c] = NoCall]
        BY DEF ContinueFailed, ContinueCancelled, Cancel, StopRuns, Answer,
               tick
  <2>2. QED BY <1>1, <2>1 DEF NoCall, Idle, TypeOK
<1>3. verdict = {} /\ progress = {} /\ plan = NoPlan
      BY <1>1 DEF OwnershipInv, TickIsUpToDate, SequenceInv, PlanIsUpToDate
<1>4. InSequence(taskStatus)
      BY DEF SequenceInv, TasksInSequence, InSequence
<1>5. \A u \in Story : u # s => storyStatus'[u] = storyStatus[u]
      BY <1>1 DEF ContinueFailed, ContinueCancelled, Cancel, StopRuns,
                  DoneIfFinished, TypeOK
<1>6. CASE ContinueFailed(c)
  <2>1. storyStatus[s] = "failed"
        BY <1>1, <1>6 DEF ContinueFailed
  <2>2. \A t \in TasksOf(s) : taskStatus[t] # "in_progress"
        BY <1>1, <2>1 DEF SequenceInv, StatusFitsTasks, TasksOf
  <2> DEFINE skip == FirstWith(taskStatus, s, "failed")
  <2>3. PICK ts \in IF skip = {} THEN {taskStatus}
                    ELSE {Skipped(taskStatus, t) : t \in skip} :
           \/ /\ \E n \in NextPending(ts, s) :
                    \/ Launch(n, [ts EXCEPT ![n] = "in_progress"],
                              "pending", "pending", "wait")
                    \/ /\ taskStatus' = [ts EXCEPT ![n] = "in_progress"]
                       /\ UNCHANGED run
              /\ storyStatus' = [storyStatus EXCEPT ![s] = "in_progress"]
           \/ /\ taskStatus' = ts
              /\ DoneIfFinished(ts, s)
        BY <1>6 DEF ContinueFailed
  <2>4. /\ ts \in [Task -> TaskStatus] /\ InSequence(ts) /\ Rests(ts, s)
        /\ \A u \in Task : u.story # s => ts[u] = taskStatus[u]
    <3>1. CASE skip = {}
      <4>1. ASSUME NEW t \in TasksOf(s), taskStatus[t] = "failed"
            PROVE  FALSE
        <5>1. \A u \in TasksOf(s) : taskStatus[u] = "failed" => u = t
              BY <1>4, <4>1, OneActiveTask DEF TasksOf, Finished
        <5>2. t \in skip
              BY <4>1, <5>1, SortOrderType DEF FirstWith, TasksOf
        <5>3. QED BY <3>1, <5>2
      <4>2. Rests(taskStatus, s)
            BY <2>2, <4>1 DEF Rests, TasksOf, TypeOK, TaskStatus, Finished
      <4>3. ts = taskStatus
            BY <2>3, <3>1
      <4>4. QED BY <1>4, <4>2, <4>3 DEF TypeOK
    <3>2. CASE skip # {}
      <4>1. PICK t \in skip : ts = Skipped(taskStatus, t)
            BY <2>3, <3>2
      <4>2. t \in Task /\ t.story = s /\ taskStatus[t] = "failed"
            BY DEF FirstWith, TasksOf
      <4>3. QED BY <1>4, <4>1, <4>2, SkippedType, SkippedKeepsSequence
                DEF TypeOK
    <3>3. QED BY <3>1, <3>2
  <2>5. CASE taskStatus' = ts /\ DoneIfFinished(ts, s)
    <3>1. storyStatus'[s] \in {"done", "failed"}
          BY <1>1, <2>1, <2>5 DEF DoneIfFinished, TypeOK
    <3>2. \A t \in TasksOf(s) : taskStatus'[t] # "in_progress"
          BY <2>4, <2>5 DEF Rests, Finished
    <3> HIDE DEF s
    <3>3. QED BY <1>1, <1>2, <1>3, <1>5, <2>4, <2>5, <3>1, <3>2,
                 CommandKeepsSequence
  <2>6. ASSUME NEW n \in NextPending(ts, s),
               \/ Launch(n, [ts EXCEPT ![n] = "in_progress"],
                         "pending", "pending", "wait")
               \/ /\ taskStatus' = [ts EXCEPT ![n] = "in_progress"]
                  /\ UNCHANGED run,
               storyStatus' = [storyStatus EXCEPT ![s] = "in_progress"]
        PROVE  SequenceInv'
    <3>1. /\ n \in Task /\ n.story = s /\ ts[n] = "pending"
          /\ \A u \in Task :
                u.story = n.story /\ SortOrder(u) < SortOrder(n)
                   => ts[u] \in Finished
          BY <1>1, <2>4, NextPendingIsDue
    <3>2. /\ InSequence(taskStatus')
          /\ \A u \in Task : u # n => taskStatus'[u] = ts[u]
      <4>1. \A u \in Task : u # n => taskStatus'[u] = ts[u]
            BY <2>4, <2>6, <3>1, CommandLaunchLeavesOthers DEF TaskStatus
      <4>2. QED BY <2>4, <3>1, <4>1, ChangeKeepsSequence DEF Finished
    <3>3. storyStatus'[s] = "in_progress"
          BY <1>1, <2>6 DEF TypeOK
    <3>4. \A u \in Task : u.story # s => taskStatus'[u] = taskStatus[u]
          BY <2>4, <3>1, <3>2
    <3> HIDE DEF s
    <3>5. QED BY <1>1, <1>2, <1>3, <1>5, <3>2, <3>3, <3>4,
                 CommandKeepsSequence
  <2>7. QED BY <2>3, <2>5, <2>6
<1>7. CASE ContinueCancelled(c)
  <2> DEFINE ts == Rewrite(taskStatus, s, "cancelled", "pending")
             next == NextPending(ts, s)
  <2>1. storyStatus[s] = "cancelled"
        BY <1>1, <1>7 DEF ContinueCancelled
  <2>2. \A u \in Task : IF u.story = s THEN ts[u] = "pending"
                        ELSE ts[u] = taskStatus[u]
        BY <2>1 DEF SequenceInv, StatusFitsTasks, Rewrite
  <2>3. /\ taskStatus' \in {ts, [t \in Task |-> IF t \in next
                                                THEN "in_progress" ELSE ts[t]]}
        /\ storyStatus'[s] \in {"in_progress", "ready", "pending"}
        /\ storyStatus'[s] # "in_progress" => taskStatus' = ts
        BY <1>1, <1>7 DEF ContinueCancelled, TypeOK
  <2>4. \A n \in next : /\ n \in Task /\ n.story = s
                        /\ \A u \in Task : u.story = s =>
                              SortOrder(n) <= SortOrder(u)
        BY <2>2 DEF NextPending, FirstWith, TasksOf
  <2> HIDE DEF ts, next
  <2>5. \A u \in Task : \/ taskStatus'[u] = ts[u]
                        \/ u \in next /\ taskStatus'[u] = "in_progress"
        BY <2>3
  <2>6. \A u \in Task : u.story # s => taskStatus'[u] = taskStatus[u]
        BY <2>2, <2>4, <2>5
  <2>7. InSequence(taskStatus')
    <3>1. SUFFICES ASSUME NEW t \in Task, NEW u \in Task, u.story = t.story,
                          SortOrder(u) < SortOrder(t),
                          taskStatus'[t] # "pending"
                   PROVE  taskStatus'[u] \in Finished
          BY DEF InSequence
    <3>2. CASE t.story = s
      <4>1. t \in next
            BY <2>2, <2>5, <3>1, <3>2
      <4>2. SortOrder(t) <= SortOrder(u)
            BY <2>4, <3>1, <3>2, <4>1
      <4>3. QED BY <3>1, <4>2, SortOrderType
    <3>3. CASE t.story # s
          BY <1>4, <2>6, <3>1, <3>3 DEF InSequence
    <3>4. QED BY <3>2, <3>3
  <2>8. \A t \in TasksOf(s) :
           storyStatus'[s] \in {"pending", "ready"} =>
              taskStatus'[t] = "pending"
        BY <2>2, <2>3 DEF TasksOf
  <2>9. storyStatus'[s] \notin {"cancelled", "failed"}
        BY <2>3
  <2> HIDE DEF s
  <2>10. QED BY <1>1, <1>2, <1>3, <1>5, <2>6, <2>7, <2>8, <2>9,
                CommandKeepsSequence
<1>8. CASE Cancel(c)
  <2>1. storyStatus[s] \in {"pending", "ready"}
    <3>1. call[c].op = "cancel" /\ call[c].seen \in Accepts("cancel")
          BY <1>1, <1>8 DEF Cancel, SequenceInv, CallIsUpToDate
    <3>2. QED BY <1>1, <3>1 DEF Accepts
  <2>2. StopRuns({}, {s})
        BY <1>8 DEF Cancel
  <2>3. \A u \in Task : taskStatus'[u] = IF u.story = s THEN "cancelled"
                                         ELSE taskStatus[u]
        BY <2>1, <2>2 DEF StopRuns, SequenceInv, StatusFitsTasks
  <2>4. storyStatus'[s] = "cancelled"
        BY <1>1, <2>2 DEF StopRuns
  <2>5. InSequence(taskStatus')
        BY <1>4, <2>3 DEF InSequence, Finished
  <2>6. \A t \in TasksOf(s) : taskStatus'[t] = "cancelled"
        BY <2>3 DEF TasksOf
  <2>7. \A u \in Task : u.story # s => taskStatus'[u] = taskStatus[u]
        BY <2>3
  <2> HIDE DEF s
  <2>8. QED BY <1>1, <1>2, <1>3, <1>5, <2>4, <2>5, <2>6, <2>7,
               CommandKeepsSequence
<1>9. QED BY <1>6, <1>7, <1>8

\* Commands keep the invariant, as long as none of them stops a story.
LEMMA CommandStepKeepsSequence ==
    ASSUME CommandsTakeTurns, Unstopped, TypeOK, OwnershipInv, SequenceInv,
           CommandStep
    PROVE  SequenceInv'
<1> USE DEF workItems, agents, tick
<1>1. ASSUME NEW b \in BOOLEAN, SetExecutionEnabled(b) \/ CleanWorktrees(b)
      PROVE  SequenceInv'
      BY <1>1, SequenceUnchanged DEF SetExecutionEnabled, CleanWorktrees
<1>2. CASE StopAll
      BY <1>2 DEF StopAll, Unstopped
<1>3. ASSUME NEW c \in Client, BeginTaskCommand(c) \/ BeginStoryCommand(c)
      PROVE  SequenceInv'
  <2>1. UNCHANGED <<storyStatus, taskStatus, verdict, progress, plan, pc>>
        BY <1>3 DEF BeginTaskCommand, BeginStoryCommand
  <2>2. PICK k \in Call :
           /\ call' = [call EXCEPT ![c] = k]
           /\ k.op \in Ops /\ storyStatus[k.story] = k.seen
           /\ k.op \in {"continue", "stop", "cancel"} =>
                 k.seen \in Accepts(k.op)
    <3>1. CASE BeginTaskCommand(c)
      <4>1. PICK op \in Ops \cap {"retry", "skip"}, u \in Task :
               call' = [call EXCEPT ![c] =
                           [op |-> op, story |-> u.story, task |-> u,
                            seen |-> storyStatus[u.story],
                            tree |-> worktree[u.story]]]
            BY <3>1 DEF BeginTaskCommand
      <4>2. [op |-> op, story |-> u.story, task |-> u,
             seen |-> storyStatus[u.story], tree |-> worktree[u.story]]
               \in Call
            BY DEF Call, TypeOK, Task
      <4>3. QED BY <4>1, <4>2
    <3>2. CASE BeginStoryCommand(c)
      <4>1. PICK op \in Ops \cap {"continue", "stop", "cancel"},
                 u \in Story :
               /\ storyStatus[u] \in Accepts(op)
               /\ call' = [call EXCEPT ![c] =
                           [op |-> op, story |-> u, task |-> NoTask,
                            seen |-> storyStatus[u], tree |-> worktree[u]]]
            BY <3>2 DEF BeginStoryCommand
      <4>2. [op |-> op, story |-> u, task |-> NoTask,
             seen |-> storyStatus[u], tree |-> worktree[u]] \in Call
            BY NoTaskType DEF Call, TypeOK
      <4>3. QED BY <4>1, <4>2
    <3>3. QED BY <1>3, <3>1, <3>2
  <2>3. \A d \in Client : call'[d] = IF d = c THEN k ELSE call[d]
        BY <2>2 DEF TypeOK
  <2>4. CallIsUpToDate'
        BY <2>1, <2>2, <2>3 DEF SequenceInv, CallIsUpToDate, Idle
  <2>5. QED BY <2>1, <2>4 DEF SequenceInv, PlanIsUpToDate, TasksInSequence,
               StatusFitsTasks, VerdictFitsTasks, AllFinished, TasksOf
<1>4. ASSUME NEW c \in Client, Respond(c)
      PROVE  SequenceInv'
  <2>1. ~Stop(c)
        BY DEF Stop, Unstopped, SequenceInv, CallIsUpToDate, Idle
  <2>2. QED BY <1>4, <2>1, TaskCommandKeepsSequence, StoryCommandKeepsSequence
            DEF Respond
<1>5. QED BY <1>1, <1>2, <1>3, <1>4 DEF CommandStep

\* A crash forgets what was decided, and recovery fails what was in progress.
LEMMA RestartKeepsSequence ==
    ASSUME TypeOK, OwnershipInv, SequenceInv, Crash \/ Recover
    PROVE  SequenceInv'
<1> USE DEF workItems
<1>1. CASE Crash
  <2>1. PlanIsUpToDate' /\ CallIsUpToDate' /\ VerdictFitsTasks'
        BY <1>1 DEF Crash, PlanIsUpToDate, CallIsUpToDate, VerdictFitsTasks,
                    NoPlan, Idle, NoCall
  <2>2. QED BY <1>1, <2>1 DEF Crash, SequenceInv, TasksInSequence,
               StatusFitsTasks
<1>2. CASE Recover
  <2>1. \A r \in Running : taskStatus[run[r].task] = "in_progress"
        BY DEF OwnershipInv, TaskOwnership
  <2>2. \A t \in Task : \/ taskStatus'[t] = taskStatus[t]
                        \/ /\ taskStatus[t] = "in_progress"
                           /\ taskStatus'[t] = "failed"
        BY <1>2, <2>1 DEF Recover, Orphaned
  <2>3. /\ verdict = {} /\ plan = NoPlan
        /\ UNCHANGED <<storyStatus, plan, call, verdict, progress>>
        BY <1>2 DEF Recover, OwnershipInv, TickIsUpToDate, SequenceInv,
                    PlanIsUpToDate
  <2>4. QED BY <2>2, <2>3, InterruptionKeepsSequence
<1>3. QED BY <1>1, <1>2
-----------------------------------------------------------------------------
\* At first no story has started.
LEMMA InitSequence == Init => SequenceInv
BY DEF Init, SequenceInv, PlanIsUpToDate, CallIsUpToDate, TasksInSequence,
       StatusFitsTasks, VerdictFitsTasks, NoPlan, NoCall, Idle, Task

\* Every step keeps the invariant.
LEMMA NextKeepsSequence ==
    ASSUME CommandsTakeTurns, Unstopped, TypeOK, OwnershipInv, SequenceInv,
           [Next]_vars
    PROVE  SequenceInv'
<1>1. CASE AgentStep
      BY <1>1, SequenceUnchanged
      DEF AgentStep, AgentExit, WriteExitCode, workItems, tick
<1>2. CASE UNCHANGED vars
      BY <1>2, SequenceUnchanged DEF vars, workItems, tick
<1>3. QED BY <1>1, <1>2, SchedulerKeepsSequence, CommandStepKeepsSequence,
             RestartKeepsSequence DEF Next

\* As long as commands take turns and nobody stops a story, its tasks are in
\* sequence, and what a tick or a command has read of it stays true.
LEMMA StoriesAreInSequence ==
    ASSUME CommandsTakeTurns, Unstopped
    PROVE  Spec => [](TypeOK /\ OwnershipInv /\ SequenceInv)
<1>1. Init => TypeOK /\ OwnershipInv /\ SequenceInv
      BY InitType, InitOwnership, InitSequence
<1>2. TypeOK /\ OwnershipInv /\ SequenceInv /\ [Next]_vars =>
         (TypeOK /\ OwnershipInv /\ SequenceInv)'
      BY NextType, NextKeepsOwnership, NextKeepsSequence
<1>3. QED BY <1>1, <1>2, PTL DEF Spec

\* As long as commands take turns and nobody stops a story, implementation and
\* verification alternate: no task of a story is in progress before the tasks
\* in front of it are done or cancelled.
THEOREM TasksRunInOrder ==
    ASSUME CommandsTakeTurns, Unstopped
    PROVE  Spec => []TasksInOrder
<1>1. SequenceInv => TasksInOrder
      BY DEF SequenceInv, TasksInSequence, TasksInOrder
<1>2. QED BY <1>1, StoriesAreInSequence, PTL

\* As long as commands take turns and nobody stops a story, no two agents work
\* in its worktree: they would work on two tasks in progress.
THEOREM AgentsWorkAlone ==
    ASSUME CommandsTakeTurns, Unstopped
    PROVE  Spec => []OneAgentPerStory
<1>1. TypeOK /\ OwnershipInv /\ SequenceInv => OneAgentPerStory
  <2>1. SUFFICES ASSUME TypeOK, OwnershipInv, SequenceInv,
                        NEW q \in Running, NEW r \in Running,
                        run[q].task.story = run[r].task.story
                 PROVE  q = r
        BY DEF OneAgentPerStory
  <2>2. /\ run[q].task \in Task /\ taskStatus[run[q].task] = "in_progress"
        /\ run[r].task \in Task /\ taskStatus[run[r].task] = "in_progress"
        BY <2>1 DEF OwnershipInv, TaskOwnership, Running, TypeOK, RunRow
  <2>3. InSequence(taskStatus)
        BY <2>1 DEF SequenceInv, TasksInSequence, InSequence
  <2>4. run[q].task = run[r].task
        BY <2>1, <2>2, <2>3, OneActiveTask DEF Finished
  <2>5. QED BY <2>1, <2>4 DEF OwnershipInv, TaskOwnership
<1>2. QED BY <1>1, StoriesAreInSequence, PTL
-----------------------------------------------------------------------------
(***************************************************************************)
(* DeliveryInv, for every command as long as commands run between ticks.   *)
(* Where they race the scheduler, nobody stops a story, and SequenceInv    *)
(* says that no skip can finish a story whose tick is about to.            *)
(***************************************************************************)

\* Between ticks, what has been read stays true whatever the commands do.
LEMMA TurnsKeepReadings ==
    ASSUME ~Overlap, TypeOK, OwnershipInv, DeliveryInv, Next
    PROVE  PlanIsUpToDate' /\ CallIsUpToDate'
<1> USE DEF workItems, agents, tick
<1>1. pc # "idle" => \A c \in Client : Idle(c)
      BY CallInTick DEF OwnershipInv
<1>2. pc # "execute" => plan = NoPlan
      BY DEF DeliveryInv, PlanIsUpToDate
<1>3. ASSUME \A c \in Client : Idle(c), UNCHANGED call
      PROVE  CallIsUpToDate'
      BY <1>3 DEF CallIsUpToDate, Idle
<1>4. ASSUME plan' = NoPlan
      PROVE  PlanIsUpToDate'
      BY <1>4 DEF PlanIsUpToDate, NoPlan
<1>5. CASE SchedulerStep
  <2>1. CallIsUpToDate'
    <3>1. UNCHANGED call /\ pc # "down" /\ (TickBegin \/ pc # "idle")
          BY <1>5 DEF SchedulerStep, TickBegin, ReapAlive, ReapSucceeded,
             ReapFailed, AdvanceStory, FailStory, CheckTimeouts, TimeOut,
             Schedule, StartNextTask, CompleteStory, UpdateEpicStatus,
             MarkStoryReady, StartStory, TickEnd, OwnershipInv,
             TickIsUpToDate
    <3>2. TickBegin => \A c \in Client : Idle(c)
          BY DEF TickBegin
    <3>3. QED BY <1>1, <1>3, <3>1, <3>2
  <2>2. PlanIsUpToDate'
    <3>1. CASE \/ TickBegin \/ ReapAlive \/ ReapSucceeded \/ ReapFailed
               \/ \E late \in SUBSET Running : CheckTimeouts(late)
               \/ TimeOut \/ TickEnd
          BY <1>2, <1>4, <3>1 DEF TickBegin, ReapAlive, ReapSucceeded,
             ReapFailed, CheckTimeouts, TimeOut, TickEnd
    <3>2. CASE AdvanceStory \/ FailStory
      <4>1. verdict # {} /\ UNCHANGED <<pc, plan>>
            BY <3>2 DEF AdvanceStory, FailStory
      <4>2. pc # "execute"
            BY <4>1 DEF OwnershipInv, TickIsUpToDate
      <4>3. QED BY <1>2, <1>4, <4>1, <4>2
    <3>3. CASE Schedule
          BY <3>3 DEF Schedule, PlanIsUpToDate, SchedulePlan, NoPlan
    <3>4. CASE StartNextTask
          BY <3>4 DEF StartNextTask, DeliveryInv, PlanIsUpToDate
    <3>5. CASE CompleteStory
      <4>1. PICK p \in progress :
               /\ p.kind = "complete"
               /\ \/ UNCHANGED storyStatus
                  \/ storyStatus' =
                        [storyStatus EXCEPT ![p.task.story] = "failed"]
            BY <3>5 DEF CompleteStory
      <4>2. storyStatus[p.task.story] = "done"
            BY <4>1 DEF DeliveryInv, DeliveryIsUpToDate
      <4>3. \A u \in Story : storyStatus[u] \in {"pending", "ready"} =>
                                storyStatus'[u] = storyStatus[u]
            BY <4>1, <4>2 DEF TypeOK
      <4>4. pc = "execute" /\ UNCHANGED <<pc, plan>>
            BY <3>5 DEF CompleteStory
      <4>5. QED BY <4>3, <4>4 DEF DeliveryInv, PlanIsUpToDate, TypeOK
    <3>6. CASE UpdateEpicStatus
          BY <3>6 DEF UpdateEpicStatus, DeliveryInv, PlanIsUpToDate, TypeOK
    <3>7. CASE MarkStoryReady
      <4>1. PICK s \in plan.ready :
               /\ storyStatus' = [storyStatus EXCEPT ![s] = "ready"]
               /\ plan' = [plan EXCEPT !.ready = @ \ {s}]
            BY <3>7 DEF MarkStoryReady
      <4>2. /\ pc = "execute" /\ UNCHANGED pc
            /\ plan'.ready = plan.ready \ {s} /\ plan'.start = plan.start
            BY <3>7, <4>1 DEF MarkStoryReady, TypeOK
      <4>3. QED BY <4>1, <4>2 DEF DeliveryInv, PlanIsUpToDate, TypeOK
    <3>8. CASE StartStory
      <4>1. PICK s \in plan.start :
               /\ plan' = [plan EXCEPT !.start = @ \ {s}]
               /\ \E st \in {"failed", "in_progress"} :
                     storyStatus' = [storyStatus EXCEPT ![s] = st]
            BY <3>8 DEF StartStory, StartStoryFails, StartStoryWorks
      <4>2. /\ pc = "execute" /\ UNCHANGED pc /\ storyStatus[s] = "ready"
            /\ plan'.ready = plan.ready /\ plan'.start = plan.start \ {s}
            BY <3>8, <4>1
            DEF StartStory, TypeOK, DeliveryInv, PlanIsUpToDate
      <4>3. QED BY <4>1, <4>2 DEF DeliveryInv, PlanIsUpToDate, TypeOK
    <3>9. QED BY <1>5, <3>1, <3>2, <3>3, <3>4, <3>5, <3>6, <3>7, <3>8
              DEF SchedulerStep
  <2>3. QED BY <2>1, <2>2
<1>6. CASE AgentStep
      BY <1>6 DEF AgentStep, AgentExit, WriteExitCode, DeliveryInv,
         PlanIsUpToDate, CallIsUpToDate, Idle
<1>7. CASE CommandStep
  <2>1. ASSUME NEW c \in Client, BeginTaskCommand(c) \/ BeginStoryCommand(c)
        PROVE  PlanIsUpToDate' /\ CallIsUpToDate'
    <3>1. /\ UNCHANGED <<storyStatus, plan, pc>>
          /\ \A d \in Client : d # c => call'[d] = call[d]
          /\ call'[c].op \in Ops
          /\ storyStatus[call'[c].story] = call'[c].seen
          /\ call'[c].op \in {"continue", "stop", "cancel"} =>
                call'[c].seen \in Accepts(call'[c].op)
          BY <2>1 DEF BeginTaskCommand, BeginStoryCommand, TypeOK
    <3>2. QED BY <3>1 DEF DeliveryInv, PlanIsUpToDate, CallIsUpToDate, Idle
  <2>2. ASSUME NEW c \in Client, Respond(c)
        PROVE  PlanIsUpToDate' /\ CallIsUpToDate'
    <3>1. /\ ~Idle(c) /\ UNCHANGED plan
          /\ call' = [call EXCEPT ![c] = NoCall]
          BY <2>2 DEF Respond, Retry, Skip, ContinueFailed,
             ContinueCancelled, Stop, Cancel, StopRuns, Answer, Idle
    <3>2. pc = "idle" /\ \A d \in Client : ~Idle(d) => d = c
          BY <3>1 DEF OwnershipInv, CommandIsAlone
    <3>3. \A d \in Client : call'[d].op = "none"
          BY <3>1, <3>2 DEF Idle, NoCall, TypeOK
    <3>4. QED BY <1>2, <1>4, <3>1, <3>2, <3>3 DEF CallIsUpToDate, Idle
  <2>3. ASSUME \/ \E b \in BOOLEAN : \/ SetExecutionEnabled(b)
                                     \/ CleanWorktrees(b)
               \/ StopAll
        PROVE  PlanIsUpToDate' /\ CallIsUpToDate'
        BY <1>2, <1>3, <1>4, <2>3
        DEF SetExecutionEnabled, CleanWorktrees, StopAll, StopRuns,
            CommandsMayRun
  <2>4. QED BY <1>7, <2>1, <2>2, <2>3 DEF CommandStep
<1>8. CASE Crash \/ Recover
      BY <1>1, <1>2, <1>3, <1>4, <1>8
      DEF Crash, Recover, Orphaned, CallIsUpToDate, Idle, NoCall
<1>9. QED BY <1>5, <1>6, <1>7, <1>8 DEF Next

\* The part of the invariant that is about finished and delivered stories.
DeliveryFits == DoneMeansFinished /\ DeliveredIsDone /\ DeliveryIsUpToDate

\* It only looks at this state.
LEMMA DeliveryUnchanged ==
    ASSUME DeliveryFits,
           UNCHANGED <<storyStatus, taskStatus, mrUrl, verdict, progress>>
    PROVE  DeliveryFits'
BY DEF DeliveryFits, DoneMeansFinished, DeliveredIsDone, DeliveryIsUpToDate

\* A story may leave every status, if it has not been delivered and does not
\* wait for that; what becomes of its tasks is another matter.
LEMMA ReopeningKeepsDelivery ==
    ASSUME TypeOK, DeliveryFits, NEW s \in Story, ~mrUrl[s],
           storyStatus'[s] # "done",
           \A u \in Story : u # s => storyStatus'[u] = storyStatus[u],
           \A t \in Task : t.story # s => taskStatus'[t] = taskStatus[t],
           UNCHANGED mrUrl,
           verdict' \subseteq verdict, progress' \subseteq progress,
           \A p \in progress' : p.kind = "complete" => p.task.story # s
    PROVE  DeliveryFits'
<1>1. /\ \A t \in Task : t.story \in Story
      /\ \A v \in verdict : v.task.story \in Story
      /\ \A p \in progress : p.task.story \in Story
      BY DEF TypeOK, Task, Verdict, ProgressAction
<1>2. DoneMeansFinished' /\ DeliveredIsDone'
      BY <1>1 DEF DeliveryFits, DoneMeansFinished, DeliveredIsDone
<1>3. DeliveryIsUpToDate'
      BY <1>1 DEF DeliveryFits, DeliveryIsUpToDate
<1>4. QED BY <1>2, <1>3 DEF DeliveryFits

\* A story whose tasks are finished may be declared done, if the reaper is not
\* about to do the same.
LEMMA FinishingKeepsDelivery ==
    ASSUME TypeOK, DeliveryFits, NEW s \in Story,
           storyStatus'[s] = "done", AllFinished(taskStatus', s),
           \A u \in Story : u # s => storyStatus'[u] = storyStatus[u],
           \A t \in Task : t.story # s => taskStatus'[t] = taskStatus[t],
           UNCHANGED <<mrUrl, verdict, progress>>,
           \A v \in verdict : v.ok => v.task.story # s
    PROVE  DeliveryFits'
<1>1. /\ \A t \in Task : t.story \in Story
      /\ \A v \in verdict : v.task.story \in Story
      /\ \A p \in progress : p.task.story \in Story
      BY DEF TypeOK, Task, Verdict, ProgressAction
<1>2. DoneMeansFinished' /\ DeliveredIsDone'
      BY <1>1 DEF DeliveryFits, DoneMeansFinished, DeliveredIsDone,
                  AllFinished, TasksOf, Finished
<1>3. DeliveryIsUpToDate'
      BY <1>1 DEF DeliveryFits, DeliveryIsUpToDate
<1>4. QED BY <1>2, <1>3 DEF DeliveryFits

\* Tasks in progress may fail: their stories are not done.
LEMMA InterruptionKeepsDelivery ==
    ASSUME TypeOK, DeliveryFits,
           \A t \in Task : \/ taskStatus'[t] = taskStatus[t]
                           \/ taskStatus[t] = "in_progress",
           UNCHANGED <<storyStatus, mrUrl>>,
           verdict' \subseteq verdict, progress' \subseteq progress
    PROVE  DeliveryFits'
<1>1. DoneMeansFinished' /\ DeliveredIsDone'
      BY DEF DeliveryFits, DoneMeansFinished, DeliveredIsDone
<1>2. DeliveryIsUpToDate'
      BY DEF DeliveryFits, DeliveryIsUpToDate
<1>3. QED BY <1>1, <1>2 DEF DeliveryFits

\* A run is closed whose task was in progress: its story is not done.
LEMMA VerdictKeepsDelivery ==
    ASSUME TypeOK, DeliveryFits, NEW r, NEW t \in Task, NEW ok \in BOOLEAN,
           taskStatus[t] = "in_progress",
           \A u \in Task : u # t => taskStatus'[u] = taskStatus[u],
           verdict' = {[by |-> r, task |-> t, ok |-> ok]},
           UNCHANGED <<storyStatus, mrUrl, progress>>
    PROVE  DeliveryFits'
<1>1. t.story \in Story /\ storyStatus[t.story] # "done"
      BY DEF DeliveryFits, DoneMeansFinished, Task
<1>2. DoneMeansFinished' /\ DeliveredIsDone'
      BY <1>1 DEF DeliveryFits, DoneMeansFinished, DeliveredIsDone
<1>3. DeliveryIsUpToDate'
      BY <1>1 DEF DeliveryFits, DeliveredIsDone, DeliveryIsUpToDate
<1>4. QED BY <1>2, <1>3 DEF DeliveryFits

\* A story that the reaper declares done was not done before, so it waits for
\* its delivery once.
LEMMA AdvanceKeepsDelivery ==
    ASSUME TypeOK, DeliveryFits, AdvanceStory
    PROVE  DeliveryFits'
<1>1. PICK v \in verdict :
         /\ v.ok
         /\ \/ \E n \in NextTask(taskStatus, v.task) :
                  /\ taskStatus' = [taskStatus EXCEPT ![n] = "in_progress"]
                  /\ progress' = progress \cup
                        {[by |-> v.by, kind |-> "start", task |-> n]}
                  /\ UNCHANGED storyStatus
            \/ /\ AllFinished(taskStatus, v.task.story)
               /\ storyStatus' = [storyStatus EXCEPT ![v.task.story] = "done"]
               /\ progress' = progress \cup
                     {[by |-> v.by, kind |-> "complete", task |-> v.task]}
               /\ UNCHANGED taskStatus
            \/ UNCHANGED <<taskStatus, storyStatus, progress>>
      BY DEF AdvanceStory
<1>2. verdict' = {} /\ UNCHANGED mrUrl
      BY DEF AdvanceStory
<1> DEFINE s == v.task.story
<1>3. /\ v.task \in Task /\ s \in Story /\ ~mrUrl[s]
      /\ storyStatus[s] # "done"
      /\ \A p \in progress : p.kind = "complete" =>
            p.task.story # s /\ p.task.story \in Story
      BY <1>1 DEF DeliveryFits, DeliveryIsUpToDate, TypeOK, Verdict, Task,
                  ProgressAction
<1>4. ASSUME NEW n \in NextTask(taskStatus, v.task),
             taskStatus' = [taskStatus EXCEPT ![n] = "in_progress"],
             progress' = progress \cup
                {[by |-> v.by, kind |-> "start", task |-> n]},
             UNCHANGED storyStatus
      PROVE  DeliveryFits'
  <2>1. n \in Task /\ taskStatus[n] = "pending"
        BY <1>3, NextTaskType
  <2>2. \A t \in Task : t # n => taskStatus'[t] = taskStatus[t]
        BY <1>4 DEF TypeOK
  <2>3. storyStatus[n.story] # "done"
        BY <2>1 DEF DeliveryFits, DoneMeansFinished
  <2>4. DoneMeansFinished' /\ DeliveredIsDone'
        BY <1>2, <1>4, <2>2, <2>3
        DEF DeliveryFits, DoneMeansFinished, DeliveredIsDone
  <2>5. DeliveryIsUpToDate'
        BY <1>2, <1>4 DEF DeliveryFits, DeliveryIsUpToDate
  <2>6. QED BY <2>4, <2>5 DEF DeliveryFits
<1>5. ASSUME AllFinished(taskStatus, s), UNCHANGED taskStatus,
             storyStatus' = [storyStatus EXCEPT ![s] = "done"],
             progress' = progress \cup
                {[by |-> v.by, kind |-> "complete", task |-> v.task]}
      PROVE  DeliveryFits'
  <2>1. \A u \in Story : storyStatus'[u] = IF u = s THEN "done"
                                           ELSE storyStatus[u]
        BY <1>3, <1>5 DEF TypeOK
  <2>2. \A t \in Task : t.story \in Story
        BY DEF Task
  <2>3. DoneMeansFinished' /\ DeliveredIsDone'
        BY <1>2, <1>5, <2>1, <2>2
        DEF DeliveryFits, DoneMeansFinished, DeliveredIsDone, AllFinished,
            TasksOf, Finished
  <2>4. DeliveryIsUpToDate'
    <3>1. ASSUME NEW p \in progress', p.kind = "complete"
          PROVE  /\ storyStatus'[p.task.story] = "done"
                 /\ ~mrUrl'[p.task.story]
                 /\ \A q \in progress' :
                       q.kind = "complete" /\ q.task.story = p.task.story
                          => q = p
      <4>1. CASE p \in progress
            BY <1>2, <1>3, <1>5, <2>1, <3>1, <4>1
            DEF DeliveryFits, DeliveryIsUpToDate
      <4>2. CASE p = [by |-> v.by, kind |-> "complete", task |-> v.task]
            BY <1>2, <1>3, <1>5, <2>1, <4>2
      <4>3. QED BY <1>5, <4>1, <4>2
    <3>2. QED BY <1>2, <3>1 DEF DeliveryIsUpToDate
  <2>5. QED BY <2>3, <2>4 DEF DeliveryFits
<1>6. ASSUME UNCHANGED <<taskStatus, storyStatus, progress>>
      PROVE  DeliveryFits'
      BY <1>2, <1>6 DEF DeliveryFits, DoneMeansFinished, DeliveredIsDone,
         DeliveryIsUpToDate
<1>7. QED BY <1>1, <1>4, <1>5, <1>6

\* A story that is not done has not been delivered and does not wait for it.
LEMMA UnfinishedIsUndelivered ==
    ASSUME DeliveryFits, NEW s \in Story, storyStatus[s] # "done"
    PROVE  /\ ~mrUrl[s]
           /\ \A p \in progress : p.kind = "complete" => p.task.story # s
BY DEF DeliveryFits, DeliveredIsDone, DeliveryIsUpToDate

\* The steps of the scheduler loop keep what is done and delivered.
LEMMA SchedulerKeepsDelivery ==
    ASSUME TypeOK, OwnershipInv, PlanIsUpToDate, DeliveryFits, SchedulerStep
    PROVE  DeliveryFits'
<1> USE DEF workItems, agents
<1>1. CASE \/ TickBegin \/ ReapAlive \/ TickEnd \/ Schedule
           \/ UpdateEpicStatus
           \/ \E late \in SUBSET Running : CheckTimeouts(late)
      BY <1>1, DeliveryUnchanged
      DEF TickBegin, ReapAlive, TickEnd, Schedule, UpdateEpicStatus,
          CheckTimeouts
<1>2. CASE ReapSucceeded \/ ReapFailed \/ TimeOut
  <2>1. PICK e \in todo, ok \in BOOLEAN, st \in TaskStatus :
           /\ taskStatus' = [taskStatus EXCEPT ![run[e.run].task] = st]
           /\ verdict' = {[by |-> e.run, task |-> run[e.run].task, ok |-> ok]}
        BY <1>2 DEF ReapSucceeded, ReapFailed, TimeOut, TaskStatus
  <2>2. PICK t \in Task : t = run[e.run].task /\ taskStatus[t] = "in_progress"
        BY DEF OwnershipInv, TickIsUpToDate, TaskOwnership, Running, TypeOK,
               Entry, RunRow
  <2>3. \A u \in Task : u # t => taskStatus'[u] = taskStatus[u]
        BY <2>1, <2>2 DEF TypeOK
  <2>4. UNCHANGED <<storyStatus, mrUrl, progress>>
        BY <1>2 DEF ReapSucceeded, ReapFailed, TimeOut
  <2>5. QED BY <2>1, <2>2, <2>3, <2>4, VerdictKeepsDelivery
<1>3. CASE AdvanceStory
      BY <1>3, AdvanceKeepsDelivery
<1>4. CASE FailStory
  <2>1. PICK v \in verdict :
           storyStatus' = [storyStatus EXCEPT ![v.task.story] = "failed"]
        BY <1>4 DEF FailStory
  <2>2. PICK s \in Story : s = v.task.story
        BY DEF TypeOK, Verdict, Task
  <2>3. /\ ~mrUrl[s]
        /\ \A p \in progress : p.kind = "complete" => p.task.story # s
        BY <2>2 DEF DeliveryFits, DeliveryIsUpToDate
  <2>4. /\ storyStatus'[s] # "done"
        /\ \A u \in Story : u # s => storyStatus'[u] = storyStatus[u]
        BY <2>1, <2>2 DEF TypeOK
  <2>5. verdict' = {} /\ UNCHANGED <<taskStatus, mrUrl, progress>>
        BY <1>4 DEF FailStory
  <2>6. QED BY <2>3, <2>4, <2>5, ReopeningKeepsDelivery
<1>5. CASE StartNextTask
  <2>1. PICK p \in progress :
           /\ p.kind = "start" /\ progress' \subseteq progress
           /\ \/ Launch(p.task, taskStatus, taskStatus[p.task], "failed",
                        "wait")
              \/ UNCHANGED taskStatus
        BY <1>5 DEF StartNextTask
  <2>2. p.task \in Task /\ taskStatus[p.task] = "in_progress"
        BY <2>1 DEF OwnershipInv, TickIsUpToDate, TypeOK, ProgressAction
  <2>3. \A t \in Task : \/ taskStatus'[t] = taskStatus[t]
                        \/ taskStatus[t] = "in_progress"
        BY <2>1, <2>2, LaunchLeavesOthers DEF TypeOK
  <2>4. UNCHANGED <<storyStatus, mrUrl, verdict>>
        BY <1>5 DEF StartNextTask
  <2>5. QED BY <2>1, <2>3, <2>4, InterruptionKeepsDelivery
<1>6. CASE CompleteStory
  <2>1. PICK p \in progress :
           /\ p.kind = "complete" /\ progress' = progress \ {p}
           /\ \/ /\ mrUrl' = [mrUrl EXCEPT ![p.task.story] = TRUE]
                 /\ UNCHANGED storyStatus
              \/ /\ storyStatus' =
                       [storyStatus EXCEPT ![p.task.story] = "failed"]
                 /\ UNCHANGED mrUrl
        BY <1>6 DEF CompleteStory
  <2>2. PICK s \in Story : s = p.task.story
        BY DEF TypeOK, ProgressAction, Task
  <2>3. /\ storyStatus[s] = "done" /\ ~mrUrl[s]
        /\ \A q \in progress' : q.kind = "complete" => q.task.story # s
        BY <2>1, <2>2 DEF DeliveryFits, DeliveryIsUpToDate
  <2>4. UNCHANGED <<taskStatus, verdict>> /\ verdict = {}
        BY <1>6 DEF CompleteStory, OwnershipInv, TickIsUpToDate
  <2>5. CASE /\ mrUrl' = [mrUrl EXCEPT ![p.task.story] = TRUE]
             /\ UNCHANGED storyStatus
    <3>1. \A u \in Story : mrUrl'[u] => mrUrl[u] \/ u = s
          BY <2>2, <2>5 DEF TypeOK
    <3>2. \A q \in progress : q.task.story \in Story
          BY DEF TypeOK, ProgressAction, Task
    <3>3. QED BY <2>1, <2>3, <2>4, <2>5, <3>1, <3>2
              DEF DeliveryFits, DoneMeansFinished, DeliveredIsDone,
                  DeliveryIsUpToDate
  <2>6. CASE /\ storyStatus' =
                   [storyStatus EXCEPT ![p.task.story] = "failed"]
             /\ UNCHANGED mrUrl
    <3>1. /\ storyStatus'[s] # "done"
          /\ \A u \in Story : u # s => storyStatus'[u] = storyStatus[u]
          BY <2>2, <2>6 DEF TypeOK
    <3>2. progress' \subseteq progress
          BY <2>1
    <3>3. QED BY <2>3, <2>4, <2>6, <3>1, <3>2, ReopeningKeepsDelivery
  <2>7. QED BY <2>1, <2>5, <2>6
<1>7. CASE MarkStoryReady
  <2>1. PICK s \in plan.ready :
           storyStatus' = [storyStatus EXCEPT ![s] = "ready"]
        BY <1>7 DEF MarkStoryReady
  <2>2. s \in Story /\ storyStatus[s] # "done"
        BY DEF PlanIsUpToDate, TypeOK
  <2>3. /\ storyStatus'[s] # "done"
        /\ \A u \in Story : u # s => storyStatus'[u] = storyStatus[u]
        BY <2>1, <2>2 DEF TypeOK
  <2>4. UNCHANGED <<taskStatus, mrUrl, verdict, progress>>
        BY <1>7 DEF MarkStoryReady
  <2>5. QED BY <2>2, <2>3, <2>4, UnfinishedIsUndelivered,
               ReopeningKeepsDelivery
<1>8. CASE StartStory
  <2>1. PICK s \in plan.start : StartStoryFails(s) \/ StartStoryWorks(s)
        BY <1>8 DEF StartStory
  <2>2. s \in Story /\ storyStatus[s] # "done"
        BY DEF PlanIsUpToDate, TypeOK
  <2>3. /\ storyStatus'[s] # "done"
        /\ \A u \in Story : u # s => storyStatus'[u] = storyStatus[u]
        BY <2>1, <2>2 DEF StartStoryFails, StartStoryWorks, TypeOK
  <2>4. \A t \in Task : t.story # s => taskStatus'[t] = taskStatus[t]
    <3>1. ASSUME NEW n \in NextPending(taskStatus, s),
                 Launch(n, [taskStatus EXCEPT ![n] = "in_progress"],
                        "in_progress", "failed", "wait")
          PROVE  \A t \in Task : t.story # s => taskStatus'[t] = taskStatus[t]
      <4>1. n \in Task /\ n.story = s
            BY DEF NextPending, FirstWith, TasksOf
      <4>2. \A u \in Task : u # n => taskStatus'[u] = taskStatus[u]
            BY <3>1, <4>1, CommandLaunchLeavesOthers DEF TypeOK, TaskStatus
      <4>3. QED BY <4>1, <4>2
    <3>2. QED BY <2>1, <3>1 DEF StartStoryFails, StartStoryWorks
  <2>5. UNCHANGED <<mrUrl, verdict, progress>>
        BY <1>8 DEF StartStory
  <2>6. QED BY <2>2, <2>3, <2>4, <2>5, UnfinishedIsUndelivered,
               ReopeningKeepsDelivery
<1>9. QED
      BY <1>1, <1>2, <1>3, <1>4, <1>5, <1>6, <1>7, <1>8 DEF SchedulerStep

\* Where a tick can be under way, a failed task keeps its story from being
\* declared done by it.
LEMMA FailedTaskIsNotDone ==
    ASSUME TypeOK, OwnershipInv, Overlap => SequenceInv,
           pc = "idle" \/ Overlap, NEW s \in Story,
           pc # "idle" => \E t \in TasksOf(s) : taskStatus[t] = "failed"
    PROVE  \A v \in verdict : v.ok => v.task.story # s
<1>1. CASE pc = "idle"
      BY <1>1 DEF OwnershipInv, TickIsUpToDate
<1>2. CASE pc # "idle"
      BY <1>2 DEF SequenceInv, VerdictFitsTasks
<1>3. QED BY <1>1, <1>2

\* What exec.retry, exec.skip and exec.continue do to a story that is not
\* done: they put it back to work, or finish it with its last task.
LEMMA RevivalKeepsDelivery ==
    ASSUME TypeOK, DeliveryFits, NEW s \in Story, storyStatus[s] # "done",
           \/ storyStatus'[s] # "done"
           \/ /\ storyStatus'[s] = "done" /\ AllFinished(taskStatus', s)
              /\ \A v \in verdict : v.ok => v.task.story # s,
           \A u \in Story : u # s => storyStatus'[u] = storyStatus[u],
           \A t \in Task : t.story # s => taskStatus'[t] = taskStatus[t],
           UNCHANGED <<mrUrl, verdict, progress>>
    PROVE  DeliveryFits'
BY UnfinishedIsUndelivered, ReopeningKeepsDelivery, FinishingKeepsDelivery

\* The second half of a command that stops nobody.
LEMMA RespondKeepsDelivery ==
    ASSUME CommandsTakeTurns, TypeOK, OwnershipInv, CallIsUpToDate,
           DeliveryFits, Overlap => SequenceInv, NEW c \in Client,
           \/ Retry(c) \/ Skip(c) \/ ContinueFailed(c) \/ ContinueCancelled(c)
    PROVE  DeliveryFits'
<1> USE DEF tick
<1> DEFINE s == call[c].story
           t == call[c].task
<1>1. /\ s \in Story /\ t \in Task /\ ~Idle(c)
      /\ pc = "idle" \/ (Overlap /\ pc # "down")
      /\ ~Overlap \/ call[c].seen = "failed" =>
            storyStatus[s] = call[c].seen
      BY DEF Retry, Skip, ContinueFailed, ContinueCancelled, OwnershipInv,
             CommandIsAlone, CallIsUpToDate, Idle, TypeOK, Call
<1>2. UNCHANGED <<mrUrl, verdict, progress>>
      BY DEF Retry, Skip, ContinueFailed, ContinueCancelled
<1>3. \A u \in Story : u # s => storyStatus'[u] = storyStatus[u]
      BY <1>1 DEF Retry, Skip, ContinueFailed, ContinueCancelled, Revived,
                  DoneIfFinished, TypeOK
<1>4. ASSUME NEW u \in Task
      PROVE  /\ Skipped(taskStatus, u) \in [Task -> TaskStatus]
             /\ \A w \in Task : w.story # u.story =>
                   Skipped(taskStatus, u)[w] = taskStatus[w]
      BY SkippedType, PairedVerifyType DEF Skipped, TypeOK
<1>5. CASE Retry(c)
  <2>1. s = t.story /\ taskStatus[t] = "failed"
        BY <1>5 DEF Retry, OwnershipInv, CommandIsAlone
  <2>2. storyStatus[s] # "done"
        BY <1>1, <2>1 DEF DeliveryFits, DoneMeansFinished
  <2>3. storyStatus'[s] # "done"
        BY <1>1, <1>5, <2>2 DEF Retry, Revived, TypeOK
  <2>4. \/ Launch(t, [taskStatus EXCEPT ![t] = "in_progress"],
                  "in_progress", "failed", "wait")
        \/ /\ taskStatus' = [taskStatus EXCEPT ![t] = "in_progress"]
           /\ UNCHANGED run
        BY <1>5 DEF Retry
  <2>5. \A u \in Task : u # t => taskStatus'[u] = taskStatus[u]
        BY <1>1, <2>4, CommandLaunchLeavesOthers DEF TypeOK, TaskStatus
  <2>6. \A u \in Task : u.story # s => taskStatus'[u] = taskStatus[u]
        BY <2>1, <2>5
  <2> HIDE DEF s
  <2>7. QED BY <1>1, <1>2, <1>3, <2>2, <2>3, <2>6, RevivalKeepsDelivery
<1>6. CASE Skip(c)
  <2>1. s = t.story /\ taskStatus[t] = "failed" /\ t \in TasksOf(s)
        BY <1>1, <1>6 DEF Skip, OwnershipInv, CommandIsAlone, TasksOf
  <2>2. storyStatus[s] # "done"
        BY <1>1, <2>1 DEF DeliveryFits, DoneMeansFinished
  <2> DEFINE ts == Skipped(taskStatus, t)
  <2>3. \/ /\ \E n \in NextPending(ts, s) :
                 \/ Launch(n, [ts EXCEPT ![n] = "in_progress"],
                           "in_progress", "pending", "log")
                 \/ /\ taskStatus' = [ts EXCEPT ![n] = "in_progress"]
                    /\ UNCHANGED run
           /\ storyStatus' = Revived(s, call[c].seen)
        \/ taskStatus' = ts /\ DoneIfFinished(ts, s)
        BY <1>6 DEF Skip
  <2>4. /\ ts \in [Task -> TaskStatus]
        /\ \A u \in Task : u.story # s => ts[u] = taskStatus[u]
        BY <1>1, <1>4, <2>1
  <2> HIDE DEF ts
  <2>5. \A u \in Task : u.story # s => taskStatus'[u] = taskStatus[u]
    <3>1. CASE taskStatus' = ts
          BY <2>4, <3>1
    <3>2. \A n \in NextPending(ts, s) : n \in Task /\ n.story = s
          BY DEF NextPending, FirstWith, TasksOf
    <3>3. ASSUME NEW n \in NextPending(ts, s),
                 \/ Launch(n, [ts EXCEPT ![n] = "in_progress"],
                           "in_progress", "pending", "log")
                 \/ /\ taskStatus' = [ts EXCEPT ![n] = "in_progress"]
                    /\ UNCHANGED run
          PROVE  \A u \in Task : u # n => taskStatus'[u] = ts[u]
          BY <2>4, <3>2, <3>3, CommandLaunchLeavesOthers DEF TaskStatus
    <3>4. QED BY <2>3, <2>4, <3>1, <3>2, <3>3
  <2>6. \/ storyStatus'[s] # "done"
        \/ storyStatus'[s] = "done" /\ AllFinished(taskStatus', s)
        BY <1>1, <2>2, <2>3 DEF Revived, DoneIfFinished, TypeOK
  <2>7. \A v \in verdict : v.ok => v.task.story # s
        BY <1>1, <2>1, FailedTaskIsNotDone
  <2> HIDE DEF s
  <2>8. QED BY <1>1, <1>2, <1>3, <2>2, <2>5, <2>6, <2>7, RevivalKeepsDelivery
<1>7. CASE ContinueFailed(c)
  <2>1. storyStatus[s] # "done" /\ pc = "idle"
    <3>1. ~Overlap
          BY <1>7 DEF ContinueFailed, OwnershipInv, CommandIsAlone
    <3>2. QED BY <1>1, <1>7, <3>1 DEF ContinueFailed
  <2>2. PICK ts : /\ ts \in [Task -> TaskStatus]
                  /\ \A u \in Task : u.story # s => ts[u] = taskStatus[u]
                  /\ \/ /\ \E n \in NextPending(ts, s) :
                              \/ Launch(n, [ts EXCEPT ![n] = "in_progress"],
                                        "pending", "pending", "wait")
                              \/ /\ taskStatus' =
                                       [ts EXCEPT ![n] = "in_progress"]
                                 /\ UNCHANGED run
                        /\ storyStatus' =
                              [storyStatus EXCEPT ![s] = "in_progress"]
                     \/ taskStatus' = ts /\ DoneIfFinished(ts, s)
    <3>1. \A u \in FirstWith(taskStatus, s, "failed") :
             u \in Task /\ u.story = s
          BY DEF FirstWith, TasksOf
    <3> DEFINE Fits(ts) ==
                  /\ ts \in [Task -> TaskStatus]
                  /\ \A u \in Task : u.story # s => ts[u] = taskStatus[u]
    <3>2. /\ Fits(taskStatus)
          /\ \A u \in FirstWith(taskStatus, s, "failed") :
                Fits(Skipped(taskStatus, u))
          BY <1>4, <3>1 DEF TypeOK
    <3> HIDE DEF Fits
    <3>3. PICK ts : /\ Fits(ts)
                    /\ \/ /\ \E n \in NextPending(ts, s) :
                                \/ Launch(n, [ts EXCEPT ![n] = "in_progress"],
                                          "pending", "pending", "wait")
                                \/ /\ taskStatus' =
                                         [ts EXCEPT ![n] = "in_progress"]
                                   /\ UNCHANGED run
                          /\ storyStatus' =
                                [storyStatus EXCEPT ![s] = "in_progress"]
                       \/ taskStatus' = ts /\ DoneIfFinished(ts, s)
          BY <1>7, <3>2 DEF ContinueFailed
    <3>4. QED BY <3>3 DEF Fits
  <2>3. \A u \in Task : u.story # s => taskStatus'[u] = taskStatus[u]
    <3>1. CASE taskStatus' = ts
          BY <2>2, <3>1
    <3>2. \A n \in NextPending(ts, s) : n \in Task /\ n.story = s
          BY DEF NextPending, FirstWith, TasksOf
    <3>3. ASSUME NEW n \in NextPending(ts, s),
                 \/ Launch(n, [ts EXCEPT ![n] = "in_progress"],
                           "pending", "pending", "wait")
                 \/ /\ taskStatus' = [ts EXCEPT ![n] = "in_progress"]
                    /\ UNCHANGED run
          PROVE  \A u \in Task : u # n => taskStatus'[u] = ts[u]
          BY <2>2, <3>2, <3>3, CommandLaunchLeavesOthers DEF TaskStatus
    <3>4. QED BY <2>2, <3>1, <3>2, <3>3
  <2>4. \/ storyStatus'[s] # "done"
        \/ storyStatus'[s] = "done" /\ AllFinished(taskStatus', s)
        BY <1>1, <2>1, <2>2 DEF DoneIfFinished, TypeOK
  <2>5. \A v \in verdict : v.ok => v.task.story # s
        BY <2>1 DEF OwnershipInv, TickIsUpToDate
  <2> HIDE DEF s
  <2>6. QED BY <1>1, <1>2, <1>3, <2>1, <2>3, <2>4, <2>5, RevivalKeepsDelivery
<1>8. CASE ContinueCancelled(c)
  <2>1. storyStatus[s] # "done"
    <3>1. ~Overlap
          BY <1>8 DEF ContinueCancelled, OwnershipInv, CommandIsAlone
    <3>2. QED BY <1>1, <1>8, <3>1 DEF ContinueCancelled
  <2>2. storyStatus'[s] # "done"
        BY <1>1, <1>8 DEF ContinueCancelled, TypeOK
  <2>3. \A u \in Task : u.story # s => taskStatus'[u] = taskStatus[u]
        BY <1>1, <1>8
        DEF ContinueCancelled, Rewrite, NextPending, FirstWith, TasksOf
  <2> HIDE DEF s
  <2>4. QED BY <1>1, <1>2, <1>3, <2>1, <2>2, <2>3, RevivalKeepsDelivery
<1>9. QED BY <1>5, <1>6, <1>7, <1>8

\* Stories that are stopped or cancelled are not done, nor are those of the
\* tasks that fail with their agents.
LEMMA StopRunsKeepsDelivery ==
    ASSUME TypeOK, DeliveryFits, NEW R \in SUBSET Running,
           NEW S \in SUBSET Story, StopRuns(R, S),
           \A s \in S : storyStatus[s] # "done",
           \A r \in R : run[r].task.story \in S,
           verdict = {}, progress = {}
    PROVE  DeliveryFits'
<1>1. /\ \A s \in Story : storyStatus'[s] = IF s \in S THEN "cancelled"
                                            ELSE storyStatus[s]
      /\ UNCHANGED <<mrUrl, verdict, progress>>
      BY DEF StopRuns, tick
<1>2. \A t \in Task : t.story \notin S => taskStatus'[t] = taskStatus[t]
      BY DEF StopRuns
<1>3. \A t \in Task : t.story \in Story
      BY DEF Task
<1>4. QED BY <1>1, <1>2, <1>3 DEF DeliveryFits, DoneMeansFinished,
             DeliveredIsDone, DeliveryIsUpToDate

\* Commands keep what is done and delivered.
LEMMA CommandKeepsDelivery ==
    ASSUME CommandsTakeTurns, TypeOK, OwnershipInv, CallIsUpToDate,
           DeliveryFits, Overlap => SequenceInv, CommandStep
    PROVE  DeliveryFits'
<1> USE DEF workItems, agents, tick
<1>1. ASSUME \/ \E b \in BOOLEAN : SetExecutionEnabled(b) \/ CleanWorktrees(b)
             \/ \E c \in Client : BeginTaskCommand(c) \/ BeginStoryCommand(c)
      PROVE  DeliveryFits'
      BY <1>1, DeliveryUnchanged
      DEF SetExecutionEnabled, CleanWorktrees, BeginTaskCommand,
          BeginStoryCommand
<1>2. ASSUME NEW r \in Running
      PROVE  /\ run[r].task.story \in Story
             /\ storyStatus[run[r].task.story] # "done"
  <2>1. run[r].task \in Task /\ taskStatus[run[r].task] = "in_progress"
        BY DEF OwnershipInv, TaskOwnership, Running, TypeOK, RunRow
  <2>2. QED BY <2>1 DEF DeliveryFits, DoneMeansFinished, Task
<1>3. CASE StopAll
  <2> DEFINE S == {run[r].task.story : r \in Running}
  <2>1. verdict = {} /\ progress = {}
        BY <1>3 DEF StopAll, CommandsMayRun, CommandsTakeTurns, OwnershipInv,
                    TickIsUpToDate
  <2>2. S \in SUBSET Story /\ \A s \in S : storyStatus[s] # "done"
        BY <1>2
  <2>3. StopRuns(Running, S) /\ \A r \in Running : run[r].task.story \in S
        BY <1>3 DEF StopAll
  <2> HIDE DEF S
  <2>4. QED BY <2>1, <2>2, <2>3, StopRunsKeepsDelivery
<1>4. ASSUME NEW c \in Client, Stop(c) \/ Cancel(c)
      PROVE  DeliveryFits'
  <2> DEFINE s == call[c].story
  <2>1. /\ s \in Story /\ ~Idle(c) /\ ~Overlap /\ pc = "idle"
        /\ call[c].op \in {"stop", "cancel"}
        /\ storyStatus[s] = call[c].seen
        /\ call[c].seen \in Accepts(call[c].op)
        BY <1>4 DEF Stop, Cancel, OwnershipInv, CommandIsAlone,
                    CallIsUpToDate, Idle, TypeOK, Call
  <2>2. verdict = {} /\ progress = {}
        BY <2>1 DEF OwnershipInv, TickIsUpToDate
  <2>3. storyStatus[s] # "done"
        BY <2>1 DEF Accepts
  <2>4. PICK R \in SUBSET Running : /\ StopRuns(R, {s})
                                    /\ \A r \in R : run[r].task.story = s
        BY <1>4 DEF Stop, Cancel
  <2>5. {s} \in SUBSET Story /\ \A u \in {s} : storyStatus[u] # "done"
        BY <2>1, <2>3
  <2> HIDE DEF s
  <2>6. QED BY <2>2, <2>4, <2>5, StopRunsKeepsDelivery
<1>5. QED BY <1>1, <1>3, <1>4, RespondKeepsDelivery DEF CommandStep, Respond

\* A crash forgets verdicts and deliveries, and recovery fails tasks that were
\* in progress.
LEMMA RestartKeepsDelivery ==
    ASSUME TypeOK, OwnershipInv, DeliveryFits, Crash \/ Recover
    PROVE  DeliveryFits'
<1> USE DEF workItems
<1>1. \A r \in Running : taskStatus[run[r].task] = "in_progress"
      BY DEF OwnershipInv, TaskOwnership
<1>2. /\ \A t \in Task : \/ taskStatus'[t] = taskStatus[t]
                         \/ taskStatus[t] = "in_progress"
      /\ UNCHANGED <<storyStatus, mrUrl>>
      /\ verdict' \subseteq verdict /\ progress' \subseteq progress
      BY <1>1 DEF Crash, Recover, Orphaned
<1>3. QED BY <1>2, InterruptionKeepsDelivery
-----------------------------------------------------------------------------
\* Every step keeps what is done and delivered, and what has been read of it.
LEMMA NextKeepsDelivery ==
    ASSUME CommandsTakeTurns, TypeOK, OwnershipInv, DeliveryInv,
           Overlap => SequenceInv, [Next]_vars
    PROVE  DeliveryInv' /\ (Overlap => SequenceInv')
<1>1. DeliveryFits /\ PlanIsUpToDate /\ CallIsUpToDate
      BY DEF DeliveryInv, DeliveryFits
<1>2. Overlap => SequenceInv'
  <2>1. Overlap => Unstopped
        BY DEF CommandsTakeTurns, Unstopped
  <2>2. QED BY <2>1, NextKeepsSequence
<1>3. PlanIsUpToDate' /\ CallIsUpToDate'
  <2>1. CASE Overlap
        BY <1>2, <2>1 DEF SequenceInv
  <2>2. CASE ~Overlap /\ Next
        BY <2>2, TurnsKeepReadings
  <2>3. CASE UNCHANGED vars
        BY <1>1, <2>3 DEF vars, workItems, tick, PlanIsUpToDate,
                          CallIsUpToDate, Idle
  <2>4. QED BY <2>1, <2>2, <2>3
<1>4. DeliveryFits'
  <2>1. CASE AgentStep
        BY <1>1, <2>1, DeliveryUnchanged
        DEF AgentStep, AgentExit, WriteExitCode, workItems, tick
  <2>2. CASE UNCHANGED vars
        BY <1>1, <2>2, DeliveryUnchanged DEF vars, workItems, tick
  <2>3. QED BY <1>1, <2>1, <2>2, SchedulerKeepsDelivery,
               CommandKeepsDelivery, RestartKeepsDelivery DEF Next
<1>5. QED BY <1>2, <1>3, <1>4 DEF DeliveryInv, DeliveryFits

\* As long as commands take turns, what is done is finished and what is
\* delivered is done.
LEMMA StoriesAreDelivered ==
    ASSUME CommandsTakeTurns
    PROVE  Spec => [](TypeOK /\ OwnershipInv /\ DeliveryInv)
<1> DEFINE Inv == /\ TypeOK /\ OwnershipInv /\ DeliveryInv
                  /\ Overlap => SequenceInv
<1>1. Init => DeliveryInv
      BY DEF Init, DeliveryInv, PlanIsUpToDate, CallIsUpToDate,
             DoneMeansFinished, DeliveredIsDone, DeliveryIsUpToDate, NoPlan,
             NoCall, Idle, Task
<1>2. Init => Inv
      BY <1>1, InitType, InitOwnership, InitSequence
<1>3. Inv /\ [Next]_vars => Inv'
      BY NextType, NextKeepsOwnership, NextKeepsDelivery
<1>4. QED BY <1>2, <1>3, PTL DEF Spec

\* As long as commands take turns, a story that is done has no unfinished
\* task, whoever declared it done and whatever was skipped, stopped, cancelled
\* or continued before.
THEOREM DoneStoriesAreFinished ==
    ASSUME CommandsTakeTurns
    PROVE  Spec => []DoneMeansFinished
<1>1. DeliveryInv => DoneMeansFinished
      BY DEF DeliveryInv
<1>2. QED BY <1>1, StoriesAreDelivered, PTL

\* As long as commands take turns, a story whose merge request exists is done:
\* no tick, command or restart takes it up again.
THEOREM DeliveredStoriesAreDone ==
    ASSUME CommandsTakeTurns
    PROVE  Spec => []DeliveredIsDone
<1>1. DeliveryInv => DeliveredIsDone
      BY DEF DeliveryInv
<1>2. QED BY <1>1, StoriesAreDelivered, PTL
-----------------------------------------------------------------------------
(***************************************************************************)
(* WorktreeInv, as long as nobody stops a story or cleans everything.      *)
(***************************************************************************)

\* An agent keeps its worktree if none goes, and one that is added finds it.
LEMMA WorktreesStay ==
    ASSUME TypeOK, WorktreeInv,
           \A s \in Story : worktree[s] => worktree'[s],
           \A r \in Running' : \/ /\ r \in Running
                                  /\ run'[r].task = run[r].task
                               \/ worktree'[run'[r].task.story],
           \A c \in Client : \/ call'[c] = call[c]
                             \/ call'[c].op = "none"
                             \/ call'[c].tree => worktree'[call'[c].story]
    PROVE  WorktreeInv'
<1>1. /\ \A r \in Running : run[r].task.story \in Story
      /\ \A c \in Client : call[c].story \in Story
      BY DEF Running, TypeOK, RunRow, Task, Call
<1>2. QED BY <1>1 DEF WorktreeInv, AgentsHaveWorktree, Idle

\* What is launched is the only agent that is added.
LEMMA LaunchAddsOne ==
    ASSUME TypeOK, NEW t \in Task, NEW ts \in [Task -> TaskStatus],
           NEW a \in TaskStatus, NEW b \in TaskStatus,
           NEW pipe \in {"wait", "log"},
           Launch(t, [ts EXCEPT ![t] = "in_progress"], a, b, pipe)
    PROVE  \A r \in Running' : \/ r \in Running /\ run'[r].task = run[r].task
                               \/ run'[r].task = t
<1> DEFINE started == [ts EXCEPT ![t] = "in_progress"]
<1>1. started \in [Task -> TaskStatus]
      BY DEF TaskStatus
<1>2. Launch(t, started, a, b, pipe)
      OBVIOUS
<1> HIDE DEF started
<1>3. QED BY <1>1, <1>2, LaunchLeavesOthers

\* worktree.clean takes the worktrees of stories that are done or cancelled:
\* nobody works for them, and no command can have seen a failed task of theirs.
LEMMA CleaningKeepsWorktrees ==
    ASSUME CommandsTakeTurns, "clean_all" \notin Ops, TypeOK, OwnershipInv,
           SequenceInv, DoneMeansFinished, WorktreeInv,
           NEW all \in BOOLEAN, CleanWorktrees(all)
    PROVE  WorktreeInv'
<1>1. /\ \A s \in Story : worktree'[s] <=> /\ worktree[s]
                                           /\ storyStatus[s] \notin Finished
      /\ UNCHANGED <<run, call>>
      BY DEF CleanWorktrees, agents, TypeOK
<1>2. ASSUME NEW t \in Task, taskStatus[t] \in {"in_progress", "failed"}
      PROVE  t.story \in Story /\ storyStatus[t.story] \notin Finished
      BY <1>2 DEF DoneMeansFinished, SequenceInv, StatusFitsTasks, Finished,
                  Task
<1>3. \A r \in Running : run[r].task \in Task
                         /\ taskStatus[run[r].task] = "in_progress"
      BY DEF OwnershipInv, TaskOwnership, Running, TypeOK, RunRow
<1>4. \A c \in Client : ~Idle(c) =>
         /\ call[c].task \in Task /\ taskStatus[call[c].task] = "failed"
         /\ call[c].story = call[c].task.story
  <2>1. CASE Overlap
        BY <2>1 DEF OwnershipInv, CommandIsAlone, Idle, TypeOK, Call
  <2>2. CASE ~Overlap
        BY <2>2 DEF CleanWorktrees, CommandsMayRun
  <2>3. QED BY <2>1, <2>2
<1>5. Running' = Running
      BY <1>1 DEF Running
<1>6. QED BY <1>1, <1>2, <1>3, <1>4, <1>5
          DEF WorktreeInv, AgentsHaveWorktree, Idle

\* A command that stops nobody adds at most agents for its story, and only if
\* it has seen the worktree.
LEMMA CommandAddsOne ==
    ASSUME TypeOK, OwnershipInv, NEW c \in Client,
           \/ Retry(c) \/ Skip(c) \/ ContinueFailed(c) \/ ContinueCancelled(c)
           \/ Cancel(c)
    PROVE  \A r \in Running' :
              \/ r \in Running /\ run'[r].task = run[r].task
              \/ call[c].tree /\ run'[r].task.story = call[c].story
<1> DEFINE s == call[c].story
           Adds == \A r \in Running' :
                      \/ r \in Running /\ run'[r].task = run[r].task
                      \/ call[c].tree /\ run'[r].task.story = s
<1> USE DEF agents
<1>1. call[c].task \in Task
      BY DEF TypeOK, Call
<1>2. ASSUME UNCHANGED run
      PROVE  Adds
      BY <1>2 DEF Running
<1>3. ASSUME NEW ts \in [Task -> TaskStatus], NEW n \in Task, n.story = s,
             call[c].tree, NEW a \in TaskStatus, NEW b \in TaskStatus,
             NEW pipe \in {"wait", "log"},
             Launch(n, [ts EXCEPT ![n] = "in_progress"], a, b, pipe)
      PROVE  Adds
  <2>1. \A r \in Running' : \/ r \in Running /\ run'[r].task = run[r].task
                            \/ run'[r].task = n
        BY <1>3, LaunchAddsOne
  <2>2. QED BY <1>3, <2>1
<1>4. \A ts : \A n \in NextPending(ts, s) : n \in Task /\ n.story = s
      BY DEF NextPending, FirstWith, TasksOf
<1>5. {"in_progress", "pending", "failed"} \subseteq TaskStatus
      BY DEF TaskStatus
<1>6. CASE Retry(c)
  <2>1. call[c].task.story = s
        BY <1>6 DEF Retry, OwnershipInv, CommandIsAlone
  <2>2. \/ /\ call[c].tree
           /\ Launch(call[c].task,
                     [taskStatus EXCEPT ![call[c].task] = "in_progress"],
                     "in_progress", "failed", "wait")
        \/ UNCHANGED run
        BY <1>6 DEF Retry
  <2>3. ASSUME call[c].tree,
               Launch(call[c].task,
                      [taskStatus EXCEPT ![call[c].task] = "in_progress"],
                      "in_progress", "failed", "wait")
        PROVE  Adds
        BY <1>1, <1>3, <1>5, <2>1, <2>3 DEF TypeOK
  <2>4. QED BY <1>2, <2>2, <2>3
<1>7. CASE Skip(c)
  <2> DEFINE ts == Skipped(taskStatus, call[c].task)
  <2>1. \/ UNCHANGED run
        \/ \E n \in NextPending(ts, s) :
              /\ call[c].tree
              /\ Launch(n, [ts EXCEPT ![n] = "in_progress"], "in_progress",
                        "pending", "log")
        BY <1>7 DEF Skip
  <2>2. ts \in [Task -> TaskStatus]
        BY <1>1, SkippedType DEF TypeOK
  <2> HIDE DEF ts
  <2>3. ASSUME NEW n \in NextPending(ts, s), call[c].tree,
               Launch(n, [ts EXCEPT ![n] = "in_progress"], "in_progress",
                      "pending", "log")
        PROVE  Adds
    <3>1. n \in Task /\ n.story = s
          BY <1>4
    <3>2. QED BY <1>3, <1>5, <2>2, <2>3, <3>1
  <2>4. QED BY <1>2, <2>1, <2>3
<1>8. CASE ContinueFailed(c)
  <2> DEFINE T == {taskStatus} \cup
                  {Skipped(taskStatus, t) :
                      t \in FirstWith(taskStatus, s, "failed")}
  <2>1. \/ UNCHANGED run
        \/ \E ts \in T : \E n \in NextPending(ts, s) :
              /\ call[c].tree
              /\ Launch(n, [ts EXCEPT ![n] = "in_progress"], "pending",
                        "pending", "wait")
        BY <1>8 DEF ContinueFailed
  <2>2. \A ts \in T : ts \in [Task -> TaskStatus]
        BY SkippedType DEF TypeOK, FirstWith, TasksOf
  <2> HIDE DEF T
  <2>3. ASSUME NEW ts \in T, NEW n \in NextPending(ts, s), call[c].tree,
               Launch(n, [ts EXCEPT ![n] = "in_progress"], "pending",
                      "pending", "wait")
        PROVE  Adds
    <3>1. n \in Task /\ n.story = s
          BY <1>4
    <3>2. QED BY <1>3, <1>5, <2>2, <2>3, <3>1
  <2>4. QED BY <1>2, <2>1, <2>3
<1>9. CASE ContinueCancelled(c)
  <2>1. UNCHANGED run
        BY <1>9 DEF ContinueCancelled
  <2>2. QED BY <1>2, <2>1
<1>10. CASE Cancel(c)
  <2>1. \A r \in Run : run'[r] = run[r]
        BY <1>10 DEF Cancel, StopRuns
  <2>2. QED BY <2>1 DEF Running
<1>11. QED BY <1>6, <1>7, <1>8, <1>9, <1>10

\* Where the agents of a step come from: they have worked before, or a tick or
\* a command has started them.
LEMMA AgentsComeFrom ==
    ASSUME TypeOK, OwnershipInv, [Next]_vars, NEW r \in Running'
    PROVE  \/ r \in Running /\ run'[r].task = run[r].task
           \/ /\ StartNextTask
              /\ \E p \in progress : /\ p.kind = "start"
                                     /\ run'[r].task = p.task
                                     /\ worktree[p.task.story]
           \/ /\ StartStory
              /\ \E s \in plan.start : /\ run'[r].task.story = s
                                       /\ StartStoryWorks(s)
           \/ \E c \in Client : /\ Respond(c) /\ call[c].tree
                                /\ run'[r].task.story = call[c].story
<1> USE DEF agents
<1>1. ASSUME \A q \in Run : /\ run'[q].task = run[q].task
                            /\ run'[q].status = "running" =>
                                  run[q].status = "running"
      PROVE  r \in Running /\ run'[r].task = run[r].task
      BY <1>1 DEF Running
<1>2. \A q \in Run : run[q] \in RunRow
      BY DEF TypeOK
<1>3. CASE SchedulerStep
  <2>1. CASE TickBegin
        BY <2>1 DEF TickBegin, Running, Settled, FreeRow
  <2>2. CASE ReapSucceeded \/ ReapFailed \/ TimeOut
    <3>1. PICK e \in todo, outcome \in Outcome,
               code \in {"null", "zero", "nonzero"},
               status \in {"succeeded", "failed"} :
             \/ run' = [run EXCEPT ![e.run] = Closed(@, status, code)]
             \/ run' = [run EXCEPT ![e.run] =
                           Closed(Exited(@, outcome), status, code)]
          BY <2>2 DEF ReapSucceeded, ReapFailed, TimeOut, TypeOK, Entry,
                      Outcome
    <3>2. e.run \in Run
          BY DEF TypeOK, Entry
    <3>3. \A row \in RunRow : /\ Closed(row, status, code).task = row.task
                              /\ Closed(row, status, code).status # "running"
          BY ClosedRow
    <3>4. /\ Exited(run[e.run], outcome) \in RunRow
          /\ Exited(run[e.run], outcome).task = run[e.run].task
          BY <1>2, <3>2, ExitedRow
    <3>5. QED BY <1>1, <1>2, <3>1, <3>2, <3>3, <3>4 DEF TypeOK
  <2>3. CASE StartNextTask
    <3>1. PICK p \in progress :
             /\ p.kind = "start"
             /\ \/ /\ worktree[p.task.story]
                   /\ Launch(p.task, taskStatus, taskStatus[p.task],
                             "failed", "wait")
                \/ UNCHANGED run
          BY <2>3 DEF StartNextTask
    <3>2. p.task \in Task
          BY DEF TypeOK, ProgressAction
    <3>3. CASE Launch(p.task, taskStatus, taskStatus[p.task], "failed",
                      "wait") /\ worktree[p.task.story]
      <4>1. \/ r \in Running /\ run'[r] = run[r]
            \/ run'[r].task = p.task
            BY <3>2, <3>3, LaunchLeavesOthers DEF TypeOK
      <4>2. QED BY <2>3, <3>1, <3>3, <4>1
    <3>4. QED BY <1>1, <3>1, <3>3
  <2>4. CASE StartStory
    <3>1. PICK s \in plan.start : StartStoryFails(s) \/ StartStoryWorks(s)
          BY <2>4 DEF StartStory
    <3>2. ASSUME NEW n \in NextPending(taskStatus, s),
                 Launch(n, [taskStatus EXCEPT ![n] = "in_progress"],
                        "in_progress", "failed", "wait")
          PROVE  \/ r \in Running /\ run'[r].task = run[r].task
                 \/ run'[r].task.story = s
      <4>1. n \in Task /\ n.story = s
            BY DEF NextPending, FirstWith, TasksOf
      <4>2. QED BY <3>2, <4>1, LaunchAddsOne DEF TypeOK, TaskStatus
    <3>3. \/ r \in Running /\ run'[r].task = run[r].task
          \/ run'[r].task.story = s /\ StartStoryWorks(s)
          BY <3>1, <3>2 DEF StartStoryFails, StartStoryWorks, Running
    <3>4. QED BY <2>4, <3>3
  <2>5. QED BY <1>1, <1>3, <2>1, <2>2, <2>3, <2>4
            DEF SchedulerStep, ReapAlive, AdvanceStory, FailStory,
                CheckTimeouts, Schedule, CompleteStory, UpdateEpicStatus,
                MarkStoryReady, TickEnd
<1>4. CASE AgentStep
  <2>1. PICK q \in Used, row \in RunRow :
           /\ run' = [run EXCEPT ![q] = row]
           /\ row.task = run[q].task /\ row.status = run[q].status
    <3>1. \A q \in Used : run[q] \in RunRow
          BY <1>2 DEF Used
    <3>2. QED BY <1>4, <3>1, WaitedRow, ExitedRow
              DEF AgentStep, AgentExit, WriteExitCode
  <2>2. QED BY <1>1, <2>1 DEF Used, TypeOK
<1>5. CASE CommandStep
  <2>1. ASSUME NEW R \in SUBSET Running, NEW S, StopRuns(R, S)
        PROVE  r \in Running /\ run'[r].task = run[r].task
    <3>1. \A q \in Run : \/ run'[q] = run[q]
                         \/ run'[q] = Closed(run[q], "cancelled", "null")
          BY <2>1 DEF StopRuns
    <3>2. QED BY <1>1, <1>2, <3>1, ClosedRow
  <2>2. ASSUME NEW c \in Client, Respond(c)
        PROVE  \/ r \in Running /\ run'[r].task = run[r].task
               \/ call[c].tree /\ run'[r].task.story = call[c].story
        BY <2>1, <2>2, CommandAddsOne DEF Respond, Stop
  <2>3. CASE StopAll
        BY <2>1, <2>3 DEF StopAll
  <2>4. QED BY <1>1, <1>5, <2>2, <2>3
            DEF CommandStep, SetExecutionEnabled, CleanWorktrees,
                BeginTaskCommand, BeginStoryCommand
<1>6. CASE Crash
  <2>1. \A q \in Run : \/ run'[q] = run[q]
                       \/ run'[q] = [run[q] EXCEPT !.pipe = "lost"]
        BY <1>6 DEF Crash
  <2>2. QED BY <1>1, <1>2, <2>1 DEF RunRow
<1>7. CASE Recover
  <2>1. \A q \in Run : \/ run'[q] = run[q]
                       \/ run'[q] = Closed(run[q], "failed", "null")
        BY <1>7 DEF Recover
  <2>2. QED BY <1>1, <1>2, <2>1, ClosedRow
<1>8. CASE UNCHANGED vars
      BY <1>1, <1>8 DEF vars
<1>9. QED BY <1>3, <1>4, <1>5, <1>6, <1>7, <1>8 DEF Next

\* A worktree that goes has been cleaned, and one that comes is that of a story
\* that starts.
LEMMA WorktreesChange ==
    ASSUME TypeOK, [Next]_vars, NEW s \in Story, worktree'[s] # worktree[s]
    PROVE  \/ worktree[s] /\ \E all \in BOOLEAN : CleanWorktrees(all)
           \/ /\ worktree'[s] /\ StartStory
              /\ storyStatus'[s] = "in_progress"
<1> USE DEF workItems
<1>1. CASE StartStory
  <2>1. PICK u \in plan.start : StartStoryFails(u) \/ StartStoryWorks(u)
        BY <1>1 DEF StartStory
  <2>2. u \in Story
        BY DEF TypeOK
  <2>3. QED BY <1>1, <2>1, <2>2
            DEF StartStoryFails, StartStoryWorks, TypeOK
<1>2. CASE \E all \in BOOLEAN : CleanWorktrees(all)
      BY <1>2 DEF CleanWorktrees, TypeOK
<1>3. CASE SchedulerStep
      BY <1>1, <1>3 DEF SchedulerStep, TickBegin, ReapAlive, ReapSucceeded,
         ReapFailed, AdvanceStory, FailStory, CheckTimeouts, TimeOut,
         Schedule, StartNextTask, CompleteStory, UpdateEpicStatus,
         MarkStoryReady, TickEnd
<1>4. CASE AgentStep \/ CommandStep \/ Crash \/ Recover \/ UNCHANGED vars
      BY <1>2, <1>4 DEF AgentStep, AgentExit, WriteExitCode, CommandStep,
         SetExecutionEnabled, StopAll, StopRuns, BeginTaskCommand,
         BeginStoryCommand, Respond, Retry, Skip, ContinueFailed,
         ContinueCancelled, Stop, Cancel, Crash, Recover, vars
<1>5. QED BY <1>3, <1>4 DEF Next

\* What a call says of a worktree has just been read, or has been said before.
LEMMA CallsReadWorktrees ==
    ASSUME TypeOK, [Next]_vars, NEW c \in Client
    PROVE  \/ call'[c] = call[c]
           \/ call'[c].op = "none"
           \/ /\ call'[c].tree = worktree[call'[c].story]
              /\ UNCHANGED worktree
<1> USE DEF workItems
<1>1. ASSUME NEW d \in Client, Respond(d)
      PROVE  call'[c] = call[c] \/ call'[c].op = "none"
  <2>1. call' = [call EXCEPT ![d] = NoCall]
        BY <1>1 DEF Respond, Retry, Skip, ContinueFailed, ContinueCancelled,
                    Stop, Cancel, Answer
  <2>2. QED BY <2>1 DEF NoCall, TypeOK
<1>2. ASSUME NEW d \in Client, BeginTaskCommand(d) \/ BeginStoryCommand(d)
      PROVE  \/ call'[c] = call[c]
             \/ call'[c].tree = worktree[call'[c].story]
      BY <1>2 DEF BeginTaskCommand, BeginStoryCommand, TypeOK
<1>3. CASE CommandStep
      BY <1>1, <1>2, <1>3 DEF CommandStep, SetExecutionEnabled,
         CleanWorktrees, StopAll, BeginTaskCommand, BeginStoryCommand
<1>4. CASE SchedulerStep
  <2>1. CASE TickBegin \/ ReapAlive \/ ReapSucceeded \/ ReapFailed \/ TimeOut
             \/ (\E late \in SUBSET Running : CheckTimeouts(late)) \/ Schedule
        BY <2>1 DEF TickBegin, ReapAlive, ReapSucceeded, ReapFailed, CheckTimeouts,
                    TimeOut, Schedule
  <2>2. CASE AdvanceStory \/ FailStory \/ StartNextTask \/ CompleteStory \/ UpdateEpicStatus
             \/ MarkStoryReady \/ StartStory \/ TickEnd
        BY <2>2 DEF AdvanceStory, FailStory, StartNextTask, CompleteStory,
                    UpdateEpicStatus, MarkStoryReady, StartStory, TickEnd
  <2>3. QED BY <1>4, <2>1, <2>2 DEF SchedulerStep
<1>5. CASE AgentStep \/ UNCHANGED vars
      BY <1>5 DEF AgentStep, AgentExit, WriteExitCode, vars
<1>6. CASE Crash \/ Recover
      BY <1>6 DEF Crash, Recover, NoCall
<1>7. QED BY <1>3, <1>4, <1>5, <1>6 DEF Next

\* Every step keeps the worktrees of agents and commands.
LEMMA NextKeepsWorktrees ==
    ASSUME CommandsTakeTurns, Unstopped, "clean_all" \notin Ops, TypeOK,
           OwnershipInv, SequenceInv, DoneMeansFinished, WorktreeInv,
           [Next]_vars
    PROVE  WorktreeInv'
<1>1. CASE \E all \in BOOLEAN : CleanWorktrees(all)
      BY <1>1, CleaningKeepsWorktrees
<1>2. CASE ~\E all \in BOOLEAN : CleanWorktrees(all)
  <2>1. \A s \in Story : worktree[s] => worktree'[s]
        BY <1>2, WorktreesChange
  <2>2. ASSUME NEW r \in Running'
        PROVE  \/ r \in Running /\ run'[r].task = run[r].task
               \/ worktree'[run'[r].task.story]
    <3>1. \A p \in progress : p.task.story \in Story
          BY DEF TypeOK, ProgressAction, Task
    <3>2. \A s \in plan.start : StartStoryWorks(s) => worktree'[s]
          BY DEF StartStoryWorks, TypeOK
    <3>3. \A c \in Client :
             Respond(c) /\ call[c].tree => /\ call[c].story \in Story
                                           /\ worktree[call[c].story]
          BY DEF WorktreeInv, Respond, Retry, Skip, ContinueFailed,
             ContinueCancelled, Stop, Cancel, Idle, TypeOK, Call
    <3>4. QED BY <2>1, <3>1, <3>2, <3>3, AgentsComeFrom
  <2>3. QED BY <2>1, <2>2, CallsReadWorktrees, WorktreesStay
<1>3. QED BY <1>1, <1>2

\* All that holds of stories as long as nobody stops one or takes its worktree.
StoryInv ==
    TypeOK /\ OwnershipInv /\ SequenceInv /\ DeliveryInv /\ WorktreeInv

\* It holds initially,
LEMMA InitStories == Init => StoryInv
<1>1. Init => WorktreeInv
      BY DEF Init, WorktreeInv, AgentsHaveWorktree, Running, FreeRow, NoCall
<1>2. Init => DeliveryInv
      BY DEF Init, DeliveryInv, PlanIsUpToDate, CallIsUpToDate,
             DoneMeansFinished, DeliveredIsDone, DeliveryIsUpToDate, NoPlan,
             NoCall, Idle, Task
<1>3. QED BY <1>1, <1>2, InitType, InitOwnership, InitSequence DEF StoryInv

\* and every step keeps it.
LEMMA NextKeepsStories ==
    ASSUME CommandsTakeTurns, Unstopped, "clean_all" \notin Ops, StoryInv,
           [Next]_vars
    PROVE  StoryInv'
<1>1. /\ TypeOK /\ OwnershipInv /\ SequenceInv /\ DeliveryInv /\ WorktreeInv
      /\ DoneMeansFinished
      BY DEF StoryInv, DeliveryInv
<1>2. QED BY <1>1, NextType, NextKeepsOwnership, NextKeepsSequence,
             NextKeepsDelivery, NextKeepsWorktrees DEF StoryInv

\* As long as commands take turns, nobody stops a story and nobody cleans all
\* worktrees, every agent has its worktree: worktree.clean takes none from it,
\* and no command or tick starts an agent for a story that has lost its own.
THEOREM AgentsKeepWorktrees ==
    ASSUME CommandsTakeTurns, Unstopped, "clean_all" \notin Ops
    PROVE  Spec => []AgentsHaveWorktree
<1>1. StoryInv => AgentsHaveWorktree
      BY DEF StoryInv, WorktreeInv
<1>2. QED BY <1>1, InitStories, NextKeepsStories, PTL DEF Spec
=============================================================================

-------------------------- MODULE LifecycleProofs ---------------------------
(***************************************************************************)
(* The state machine of work items, and that the daemon implements it, for *)
(* every number of stories and tasks.                                      *)
(*                                                                         *)
(* The daemon writes statuses without asking the state machine, so that    *)
(* it only departs from it where WorkItemLifecycle says so rests on the    *)
(* invariants of StoryProofs (OrderInv) and on one of its own: what a tick *)
(* is about to make ready waits for finished work (ReadinessInv).          *)
(***************************************************************************)
EXTENDS StoryProofs

(***************************************************************************)
(* The state machine.                                                      *)
(***************************************************************************)

\* The state machine speaks of the same work items.
LEMMA SameItems ==
    /\ Lifecycle!Task = Task
    /\ Lifecycle!StoryStatus = StoryStatus
    /\ Lifecycle!TaskStatus = TaskStatus
    /\ \A ts, s : Lifecycle!AllFinished(ts, s) <=> AllFinished(ts, s)
    /\ \A ss, s :
          Lifecycle!BlockersResolved(ss, s) <=> BlockersResolved(ss, s)
BY DEF Lifecycle!Task, Lifecycle!Kind, Lifecycle!StoryStatus,
       Lifecycle!TaskStatus, Lifecycle!AllFinished, Lifecycle!TasksOf,
       Lifecycle!Finished, Lifecycle!BlockersResolved, Task, Kind,
       StoryStatus, TaskStatus, AllFinished, TasksOf, Finished,
       BlockersResolved

\* No step takes a finished task out of its status.
LEMMA FinishedTaskStays ==
    ASSUME NEW t, Lifecycle!TaskStep(t), taskStatus[t] \in Finished
    PROVE  taskStatus'[t] = taskStatus[t]
BY DEF Lifecycle!TaskStep, Lifecycle!TaskStart, Lifecycle!TaskComplete,
       Lifecycle!TaskFail, Lifecycle!TaskCancel, Lifecycle!TaskSkip, Finished

\* A story that becomes done has finished tasks, and nothing reopens them.
LEMMA NextKeepsDone ==
    ASSUME Lifecycle!DoneIsFinished, [Lifecycle!Next]_(Lifecycle!vars)
    PROVE  Lifecycle!DoneIsFinished'
<1>1. \A s \in Story : storyStatus[s] = "done" => AllFinished(taskStatus, s)
      BY SameItems DEF Lifecycle!DoneIsFinished
<1>2. CASE Lifecycle!Next
  <2>1. ASSUME NEW s \in Story, storyStatus'[s] = "done",
               storyStatus[s] = "done"
        PROVE  AllFinished(taskStatus', s)
    <3>1. \A t \in TasksOf(s) : Lifecycle!TaskStep(t)
          BY <1>2, SameItems DEF Lifecycle!Next, TasksOf
    <3>2. \A t \in TasksOf(s) : taskStatus[t] \in Finished
          BY <1>1, <2>1 DEF AllFinished
    <3>3. QED BY <3>1, <3>2, FinishedTaskStays DEF AllFinished
  <2>2. ASSUME NEW s \in Story, storyStatus'[s] = "done",
               storyStatus[s] # "done"
        PROVE  AllFinished(taskStatus', s)
    <3>1. Lifecycle!StoryStep(s)
          BY <1>2 DEF Lifecycle!Next
    <3>2. Lifecycle!AllFinished(taskStatus', s)
          BY <2>2, <3>1
          DEF Lifecycle!StoryStep, Lifecycle!StoryMarkReady,
              Lifecycle!StoryStart, Lifecycle!StoryComplete,
              Lifecycle!StoryFail, Lifecycle!StoryCancel
    <3>3. QED BY <3>2, SameItems
  <2>3. QED BY <2>1, <2>2, SameItems DEF Lifecycle!DoneIsFinished
<1>3. CASE UNCHANGED Lifecycle!vars
      BY <1>3 DEF Lifecycle!DoneIsFinished, Lifecycle!vars,
                  Lifecycle!AllFinished, Lifecycle!TasksOf
<1>4. QED BY <1>2, <1>3

\* In the state machine of work items the tasks of a story that is done are
\* finished.
THEOREM DoneItemsAreFinished == Lifecycle!Spec => []Lifecycle!DoneIsFinished
<1>1. Lifecycle!Init => Lifecycle!DoneIsFinished
      BY DEF Lifecycle!Init, Lifecycle!DoneIsFinished
<1>2. QED BY <1>1, NextKeepsDone, PTL DEF Lifecycle!Spec

\* In the state machine of work items a story that is done stays done.
THEOREM DoneItemsStayDone == Lifecycle!Spec => Lifecycle!DoneIsForever
<1>1. [Lifecycle!Next]_(Lifecycle!vars) =>
         [\A s \in Story : storyStatus[s] = "done" =>
                              storyStatus'[s] = "done"]_(Lifecycle!vars)
      BY DEF Lifecycle!Next, Lifecycle!StoryStep, Lifecycle!StoryMarkReady,
             Lifecycle!StoryStart, Lifecycle!StoryComplete,
             Lifecycle!StoryFail, Lifecycle!StoryCancel, Lifecycle!vars
<1>2. QED BY <1>1, PTL DEF Lifecycle!Spec, Lifecycle!DoneIsForever
-----------------------------------------------------------------------------
(***************************************************************************)
(* What a step does to tasks and stories, as long as commands take turns   *)
(* and nobody stops a story.  Deliveries may fail and exec.retry and       *)
(* exec.skip race the tick.                                                *)
(***************************************************************************)

\* All that the daemon's steps rely on.
OrderInv == TypeOK /\ OwnershipInv /\ SequenceInv /\ DeliveryInv

\* It holds initially, and every step keeps it.
LEMMA InitOrder == Init => OrderInv
BY InitStories DEF StoryInv, OrderInv

LEMMA NextKeepsOrder ==
    ASSUME CommandsTakeTurns, Unstopped, OrderInv, [Next]_vars
    PROVE  OrderInv'
BY NextType, NextKeepsOwnership, NextKeepsSequence, NextKeepsDelivery
   DEF OrderInv

\* exec.continue may be restoring a story.
Restoring == ~Overlap /\ pc = "idle" /\ "continue" \in Ops

TaskFollows(t) ==
    \/ taskStatus'[t] = taskStatus[t]
    \/ <<taskStatus[t], taskStatus'[t]>> \in
          {<<"pending", "in_progress">>, <<"failed", "in_progress">>,
           <<"in_progress", "done">>, <<"in_progress", "failed">>,
           <<"pending", "cancelled">>, <<"failed", "done">>,
           <<"pending", "failed">>}
    \/ /\ Restoring
       /\ storyStatus[t.story] = "cancelled"
       /\ taskStatus[t] = "cancelled"
       /\ taskStatus'[t] \in {"pending", "in_progress"}

StoryFollows(s) ==
    \/ storyStatus'[s] = storyStatus[s]
    \/ /\ storyStatus[s] = "pending" /\ storyStatus'[s] = "ready"
       /\ s \in plan.ready
    \/ /\ storyStatus[s] \in {"pending", "ready"}
       /\ storyStatus'[s] = "cancelled"
    \/ /\ storyStatus[s] \in {"ready", "failed"}
       /\ storyStatus'[s] = "in_progress"
    \/ /\ storyStatus[s] \in {"ready", "in_progress"}
       /\ storyStatus'[s] = "failed"
    \/ /\ storyStatus[s] \in {"in_progress", "failed"}
       /\ storyStatus'[s] = "done"
       /\ AllFinished(taskStatus', s)
    \/ /\ storyStatus[s] = "done" /\ storyStatus'[s] = "failed"
       /\ AllFinished(taskStatus', s)
    \/ /\ Restoring
       /\ storyStatus[s] = "cancelled"
       /\ storyStatus'[s] \in {"pending", "ready", "in_progress"}

\* A verdict is on a story that has been started and not been cancelled, and
\* a good one is on a story that is not done.
LEMMA VerdictFindsStory ==
    ASSUME OrderInv, NEW v \in verdict
    PROVE  /\ v.task.story \in Story
           /\ storyStatus[v.task.story] \in {"in_progress", "done", "failed"}
           /\ v.ok => storyStatus[v.task.story] # "done"
<1>1. v.task \in Task /\ v.task.story \in Story
      BY DEF OrderInv, TypeOK, Verdict, Task
<1>2. storyStatus[v.task.story] \notin {"pending", "ready", "cancelled"}
      BY <1>1 DEF OrderInv, SequenceInv, StatusFitsTasks, VerdictFitsTasks
<1>3. storyStatus[v.task.story] \in StoryStatus
      BY <1>1 DEF OrderInv, TypeOK
<1>4. v.ok => storyStatus[v.task.story] # "done"
      BY DEF OrderInv, DeliveryInv, DeliveryIsUpToDate
<1>5. QED BY <1>1, <1>2, <1>3, <1>4 DEF StoryStatus

\* The tasks of a story that is done are finished.
LEMMA DoneIsAllFinished ==
    ASSUME OrderInv, NEW s \in Story, storyStatus[s] = "done"
    PROVE  AllFinished(taskStatus, s)
BY DEF OrderInv, DeliveryInv, DoneMeansFinished, AllFinished, TasksOf,
       Finished

\* What the scheduler does to stories.
LEMMA SchedulerStoriesFollow ==
    ASSUME OrderInv, SchedulerStep
    PROVE  \A s \in Story : StoryFollows(s)
<1> USE DEF workItems
<1>1. TypeOK /\ PlanIsUpToDate
      BY DEF OrderInv, SequenceInv
<1>2. CASE AdvanceStory
  <2>1. PICK v \in verdict :
           /\ v.ok
           /\ \/ UNCHANGED storyStatus
              \/ /\ AllFinished(taskStatus, v.task.story)
                 /\ storyStatus' = [storyStatus EXCEPT
                                       ![v.task.story] = "done"]
                 /\ UNCHANGED taskStatus
        BY <1>2 DEF AdvanceStory
  <2>2. /\ v.task.story \in Story
        /\ storyStatus[v.task.story] \in {"in_progress", "failed"}
        BY <2>1, VerdictFindsStory
  <2>3. CASE UNCHANGED storyStatus
        BY <2>3 DEF StoryFollows
  <2>4. CASE /\ AllFinished(taskStatus, v.task.story)
             /\ storyStatus' = [storyStatus EXCEPT ![v.task.story] = "done"]
             /\ UNCHANGED taskStatus
    <3>1. /\ storyStatus'[v.task.story] = "done"
          /\ \A s \in Story : s # v.task.story =>
                                 storyStatus'[s] = storyStatus[s]
          BY <1>1, <2>2, <2>4 DEF TypeOK
    <3>2. AllFinished(taskStatus', v.task.story)
          BY <2>4
    <3>3. QED BY <2>2, <3>1, <3>2 DEF StoryFollows
  <2>5. QED BY <2>1, <2>3, <2>4
<1>3. CASE FailStory
  <2>1. PICK v \in verdict :
           storyStatus' = [storyStatus EXCEPT ![v.task.story] = "failed"]
        BY <1>3 DEF FailStory
  <2>2. UNCHANGED taskStatus
        BY <1>3 DEF FailStory
  <2>3. /\ v.task.story \in Story
        /\ storyStatus[v.task.story] \in {"in_progress", "done", "failed"}
        BY VerdictFindsStory
  <2>4. /\ storyStatus'[v.task.story] = "failed"
        /\ \A s \in Story : s # v.task.story =>
                               storyStatus'[s] = storyStatus[s]
        BY <1>1, <2>1, <2>3 DEF TypeOK
  <2>5. storyStatus[v.task.story] = "done" =>
           AllFinished(taskStatus', v.task.story)
        BY <2>2, <2>3, DoneIsAllFinished
  <2>6. QED BY <2>3, <2>4, <2>5 DEF StoryFollows
<1>4. CASE CompleteStory
  <2>1. PICK p \in progress :
           /\ p.kind = "complete"
           /\ \/ UNCHANGED storyStatus
              \/ storyStatus' = [storyStatus EXCEPT ![p.task.story] = "failed"]
        BY <1>4 DEF CompleteStory
  <2>2. p.task.story \in Story /\ storyStatus[p.task.story] = "done"
        BY <2>1 DEF OrderInv, DeliveryInv, DeliveryIsUpToDate, TypeOK,
                    ProgressAction, Task
  <2>3. UNCHANGED taskStatus
        BY <1>4 DEF CompleteStory
  <2>4. AllFinished(taskStatus', p.task.story)
        BY <2>2, <2>3, DoneIsAllFinished
  <2>5. \A s \in Story : \/ storyStatus'[s] = storyStatus[s]
                         \/ s = p.task.story /\ storyStatus'[s] = "failed"
        BY <1>1, <2>1, <2>2 DEF TypeOK
  <2>6. QED BY <2>2, <2>4, <2>5 DEF StoryFollows
<1>5. CASE MarkStoryReady
  <2>1. PICK s \in plan.ready :
           storyStatus' = [storyStatus EXCEPT ![s] = "ready"]
        BY <1>5 DEF MarkStoryReady
  <2>2. s \in Story /\ storyStatus[s] = "pending"
        BY <1>1 DEF PlanIsUpToDate, TypeOK
  <2>3. \A u \in Story : storyStatus'[u] = IF u = s THEN "ready"
                                           ELSE storyStatus[u]
        BY <1>1, <2>1 DEF TypeOK
  <2>4. QED BY <2>2, <2>3 DEF StoryFollows
<1>6. CASE StartStory
  <2>1. PICK s \in plan.start, st \in {"in_progress", "failed"} :
           storyStatus' = [storyStatus EXCEPT ![s] = st]
        BY <1>6 DEF StartStory, StartStoryFails, StartStoryWorks
  <2>2. s \in Story /\ storyStatus[s] = "ready"
        BY <1>1 DEF PlanIsUpToDate, TypeOK
  <2>3. \A u \in Story : storyStatus'[u] = IF u = s THEN st
                                           ELSE storyStatus[u]
        BY <1>1, <2>1 DEF TypeOK
  <2>4. QED BY <2>2, <2>3 DEF StoryFollows
<1>7. CASE UNCHANGED storyStatus
      BY <1>7 DEF StoryFollows
<1>8. QED BY <1>2, <1>3, <1>4, <1>5, <1>6, <1>7
          DEF SchedulerStep, TickBegin, ReapAlive, ReapSucceeded, ReapFailed,
              CheckTimeouts, TimeOut, Schedule, StartNextTask,
              UpdateEpicStatus, TickEnd

\* What the scheduler does to tasks.
LEMMA SchedulerTasksFollow ==
    ASSUME OrderInv, SchedulerStep
    PROVE  \A t \in Task : TaskFollows(t)
<1> USE DEF workItems
<1>1. TypeOK /\ OwnershipInv
      BY DEF OrderInv
<1>2. CASE ReapSucceeded \/ ReapFailed \/ TimeOut
  <2>1. PICK e \in todo, st \in {"done", "failed"} :
           taskStatus' = [taskStatus EXCEPT ![run[e.run].task] = st]
        BY <1>2 DEF ReapSucceeded, ReapFailed, TimeOut
  <2>2. e.run \in Running
        BY <1>1 DEF OwnershipInv, TickIsUpToDate, Running, TypeOK, Entry
  <2>3. taskStatus[run[e.run].task] = "in_progress"
        BY <1>1, <2>2 DEF OwnershipInv, TaskOwnership
  <2>4. QED BY <1>1, <2>1, <2>3 DEF TypeOK, TaskFollows
<1>3. CASE AdvanceStory
  <2>1. \A v \in verdict : NextTask(taskStatus, v.task)
                              \subseteq {t \in Task : taskStatus[t] = "pending"}
        BY <1>1, NextTaskType DEF TypeOK, Verdict
  <2>2. PICK n \in {t \in Task : taskStatus[t] = "pending"} \cup {NoTask} :
           \/ UNCHANGED taskStatus
           \/ /\ n \in Task /\ taskStatus[n] = "pending"
              /\ taskStatus' = [taskStatus EXCEPT ![n] = "in_progress"]
        BY <1>3, <2>1 DEF AdvanceStory
  <2>3. QED BY <1>1, <2>2 DEF TypeOK, TaskFollows
<1>4. CASE StartNextTask
  <2>1. PICK p \in progress :
           /\ p.kind = "start"
           /\ \/ Launch(p.task, taskStatus, taskStatus[p.task], "failed",
                        "wait")
              \/ UNCHANGED taskStatus
        BY <1>4 DEF StartNextTask
  <2>2. p.task \in Task /\ taskStatus[p.task] = "in_progress"
        BY <1>1, <2>1 DEF OwnershipInv, TickIsUpToDate, TypeOK,
                          ProgressAction
  <2>3. \/ UNCHANGED taskStatus
        \/ taskStatus' = [taskStatus EXCEPT ![p.task] = taskStatus[p.task]]
        \/ taskStatus' = [taskStatus EXCEPT ![p.task] = "failed"]
        BY <2>1 DEF Launch
  <2>4. QED BY <1>1, <2>2, <2>3 DEF TypeOK, TaskFollows
<1>5. CASE StartStory
  <2>1. PICK s \in plan.start :
           \/ UNCHANGED taskStatus
           \/ \E n \in NextPending(taskStatus, s) :
                 Launch(n, [taskStatus EXCEPT ![n] = "in_progress"],
                        "in_progress", "failed", "wait")
        BY <1>5 DEF StartStory, StartStoryFails, StartStoryWorks
  <2>2. ASSUME NEW n \in NextPending(taskStatus, s),
               Launch(n, [taskStatus EXCEPT ![n] = "in_progress"],
                      "in_progress", "failed", "wait")
        PROVE  \A t \in Task : TaskFollows(t)
    <3>1. n \in Task /\ taskStatus[n] = "pending"
          BY DEF NextPending, FirstWith, TasksOf
    <3>2. /\ taskStatus'[n] \in {"in_progress", "failed"}
          /\ \A t \in Task : t # n => taskStatus'[t] = taskStatus[t]
          BY <1>1, <2>2, <3>1 DEF Launch, TypeOK
    <3>3. QED BY <3>1, <3>2 DEF TaskFollows
  <2>3. CASE UNCHANGED taskStatus
        BY <2>3 DEF TaskFollows
  <2>4. QED BY <2>1, <2>2, <2>3
<1>6. CASE UNCHANGED taskStatus
      BY <1>6 DEF TaskFollows
<1>7. QED BY <1>2, <1>3, <1>4, <1>5, <1>6
          DEF SchedulerStep, TickBegin, ReapAlive, FailStory, CheckTimeouts,
              Schedule, CompleteStory, UpdateEpicStatus, MarkStoryReady,
              TickEnd

\* Skipping a task skips or finishes it and the verify task behind it.
LEMMA SkippingFollows ==
    ASSUME NEW ts \in [Task -> TaskStatus], InSequence(ts), NEW t \in Task,
           ts[t] = "failed", NEW u \in Task
    PROVE  \/ Skipped(ts, t)[u] = ts[u]
           \/ <<ts[u], Skipped(ts, t)[u]>> \in
                 {<<"pending", "cancelled">>, <<"failed", "done">>}
BY SkippedKeepsSequence

\* What happens to a task when the next one after skipped tasks is started.
LEMMA StartingFollows ==
    ASSUME NEW s \in Story, NEW ts \in [Task -> TaskStatus], TypeOK,
           \A u \in Task :
              \/ ts[u] = taskStatus[u]
              \/ <<taskStatus[u], ts[u]>> \in
                    {<<"pending", "cancelled">>, <<"failed", "done">>},
           NEW n \in NextPending(ts, s), NEW pipe \in {"wait", "log"},
           \/ Launch(n, [ts EXCEPT ![n] = "in_progress"], "in_progress",
                     "pending", pipe)
           \/ Launch(n, [ts EXCEPT ![n] = "in_progress"], "pending",
                     "pending", pipe)
           \/ /\ taskStatus' = [ts EXCEPT ![n] = "in_progress"]
              /\ UNCHANGED run
    PROVE  \A t \in Task : TaskFollows(t)
<1>1. n \in Task /\ ts[n] = "pending"
      BY DEF NextPending, FirstWith, TasksOf
<1>2. taskStatus[n] = "pending"
      BY <1>1
<1>3. /\ taskStatus'[n] \in {"in_progress", "pending"}
      /\ \A u \in Task : u # n => taskStatus'[u] = ts[u]
  <2>1. PICK a \in {"pending", "in_progress"} :
           taskStatus' \in {[ts EXCEPT ![n] = "in_progress"],
                            [[ts EXCEPT ![n] = "in_progress"] EXCEPT ![n] = a],
                            [[ts EXCEPT ![n] = "in_progress"] EXCEPT
                                ![n] = "pending"]}
        BY DEF Launch
  <2>2. QED BY <1>1, <2>1
<1>4. ASSUME NEW t \in Task
      PROVE  TaskFollows(t)
  <2>1. CASE t = n
        BY <1>2, <1>3, <2>1 DEF TaskFollows
  <2>2. CASE t # n
    <3>1. taskStatus'[t] = ts[t]
          BY <1>3, <2>2
    <3>2. QED BY <3>1 DEF TaskFollows
  <2>3. QED BY <2>1, <2>2
<1>5. QED BY <1>4

\* exec.retry and exec.skip, beside a tick or between two.
LEMMA TaskCommandsFollow ==
    ASSUME OrderInv, NEW c \in Client, Retry(c) \/ Skip(c)
    PROVE  /\ \A s \in Story : StoryFollows(s)
           /\ \A t \in Task : TaskFollows(t)
<1> DEFINE s == call[c].story
           t == call[c].task
<1>1. TypeOK /\ OwnershipInv /\ SequenceInv
      BY DEF OrderInv
<1>2. /\ t \in Task /\ s \in Story /\ s = t.story /\ taskStatus[t] = "failed"
      BY <1>1 DEF Retry, Skip, OwnershipInv, CommandIsAlone, Idle, TypeOK,
                  Call, Task
<1>3. storyStatus[s] \in {"in_progress", "failed"}
  <2>1. storyStatus[s] \notin {"pending", "ready", "cancelled"}
        BY <1>1, <1>2 DEF SequenceInv, StatusFitsTasks
  <2>2. storyStatus[s] # "done"
        BY <1>2 DEF OrderInv, DeliveryInv, DoneMeansFinished
  <2>3. storyStatus[s] \in StoryStatus
        BY <1>1, <1>2 DEF TypeOK
  <2>4. QED BY <2>1, <2>2, <2>3 DEF StoryStatus
<1>4. InSequence(taskStatus)
      BY <1>1 DEF SequenceInv, TasksInSequence, InSequence
<1>5. ASSUME storyStatus' = Revived(s, call[c].seen)
      PROVE  \A u \in Story : StoryFollows(u)
  <2>1. /\ \A u \in Story : u # s => storyStatus'[u] = storyStatus[u]
        /\ storyStatus'[s] \in {"in_progress", storyStatus[s]}
        BY <1>1, <1>2, <1>5 DEF Revived, TypeOK
  <2> HIDE DEF s, t
  <2>2. QED BY <1>3, <2>1 DEF StoryFollows
<1>6. CASE Retry(c)
  <2>1. \A u \in Story : StoryFollows(u)
        BY <1>5, <1>6 DEF Retry
  <2>2. \/ Launch(t, [taskStatus EXCEPT ![t] = "in_progress"],
                  "in_progress", "failed", "wait")
        \/ /\ taskStatus' = [taskStatus EXCEPT ![t] = "in_progress"]
           /\ UNCHANGED run
        BY <1>6 DEF Retry
  <2>3. /\ taskStatus'[t] \in {"in_progress", "failed"}
        /\ \A u \in Task : u # t => taskStatus'[u] = taskStatus[u]
        BY <1>1, <1>2, <2>2, CommandLaunchLeavesOthers DEF TypeOK, TaskStatus
  <2> HIDE DEF s, t
  <2>4. \A u \in Task : TaskFollows(u)
        BY <1>2, <2>3 DEF TaskFollows
  <2>5. QED BY <2>1, <2>4
<1>7. CASE Skip(c)
  <2> DEFINE ts == Skipped(taskStatus, t)
             next == NextPending(ts, s)
  <2>1. /\ ts \in [Task -> TaskStatus]
        /\ \A u \in Task :
              \/ ts[u] = taskStatus[u]
              \/ <<taskStatus[u], ts[u]>> \in
                    {<<"pending", "cancelled">>, <<"failed", "done">>}
        BY <1>1, <1>2, <1>4, SkippedType, SkippingFollows DEF TypeOK
  <2>2. \/ \E n \in next :
              /\ storyStatus' = Revived(s, call[c].seen)
              /\ \/ Launch(n, [ts EXCEPT ![n] = "in_progress"],
                           "in_progress", "pending", "log")
                 \/ /\ taskStatus' = [ts EXCEPT ![n] = "in_progress"]
                    /\ UNCHANGED run
        \/ taskStatus' = ts /\ DoneIfFinished(ts, s)
        BY <1>7 DEF Skip
  <2> HIDE DEF ts
  <2>3. CASE taskStatus' = ts /\ DoneIfFinished(ts, s)
    <3>1. /\ \A u \in Story : u # s => storyStatus'[u] = storyStatus[u]
          /\ \/ storyStatus'[s] = storyStatus[s]
             \/ storyStatus'[s] = "done" /\ AllFinished(taskStatus', s)
          BY <1>1, <1>2, <2>3 DEF DoneIfFinished, TypeOK
    <3>2. \A u \in Task : TaskFollows(u)
          BY <2>1, <2>3 DEF TaskFollows
    <3> HIDE DEF s, t
    <3>3. QED BY <1>3, <3>1, <3>2 DEF StoryFollows
  <2>4. ASSUME NEW n \in next,
               storyStatus' = Revived(s, call[c].seen),
               \/ Launch(n, [ts EXCEPT ![n] = "in_progress"],
                         "in_progress", "pending", "log")
               \/ /\ taskStatus' = [ts EXCEPT ![n] = "in_progress"]
                  /\ UNCHANGED run
        PROVE  /\ \A u \in Story : StoryFollows(u)
               /\ \A u \in Task : TaskFollows(u)
    <3>1. \A u \in Task : TaskFollows(u)
          BY <1>1, <1>2, <2>1, <2>4, StartingFollows
    <3>2. QED BY <1>5, <2>4, <3>1
  <2>5. QED BY <2>2, <2>3, <2>4
<1>8. QED BY <1>6, <1>7

\* exec.continue and exec.cancel, which find the story as they have read it.
LEMMA StoryCommandsFollow ==
    ASSUME OrderInv, NEW c \in Client,
           ContinueFailed(c) \/ ContinueCancelled(c) \/ Cancel(c)
    PROVE  /\ \A s \in Story : StoryFollows(s)
           /\ \A t \in Task : TaskFollows(t)
<1> DEFINE s == call[c].story
<1>1. TypeOK /\ OwnershipInv /\ SequenceInv
      BY DEF OrderInv
<1>2. /\ s \in Story /\ ~Overlap /\ pc = "idle" /\ call[c].op \in Ops
      /\ storyStatus[s] = call[c].seen
      /\ call[c].op = "cancel" => call[c].seen \in Accepts("cancel")
      BY <1>1 DEF ContinueFailed, ContinueCancelled, Cancel, OwnershipInv,
             CommandIsAlone, SequenceInv, CallIsUpToDate, Idle, TypeOK, Call
<1>3. InSequence(taskStatus)
      BY <1>1 DEF SequenceInv, TasksInSequence, InSequence
<1>4. CASE ContinueFailed(c)
  <2> DEFINE skip == FirstWith(taskStatus, s, "failed")
  <2>1. storyStatus[s] = "failed"
        BY <1>2, <1>4 DEF ContinueFailed
  <2>2. PICK ts \in IF skip = {} THEN {taskStatus}
                    ELSE {Skipped(taskStatus, t) : t \in skip} :
           \/ \E n \in NextPending(ts, s) :
                 /\ storyStatus' = [storyStatus EXCEPT ![s] = "in_progress"]
                 /\ \/ Launch(n, [ts EXCEPT ![n] = "in_progress"],
                              "pending", "pending", "wait")
                    \/ /\ taskStatus' = [ts EXCEPT ![n] = "in_progress"]
                       /\ UNCHANGED run
           \/ taskStatus' = ts /\ DoneIfFinished(ts, s)
        BY <1>4 DEF ContinueFailed
  <2>3. /\ ts \in [Task -> TaskStatus]
        /\ \A u \in Task :
              \/ ts[u] = taskStatus[u]
              \/ <<taskStatus[u], ts[u]>> \in
                    {<<"pending", "cancelled">>, <<"failed", "done">>}
    <3>1. CASE ts = taskStatus
          BY <1>1, <3>1 DEF TypeOK
    <3>2. CASE \E t \in skip : ts = Skipped(taskStatus, t)
      <4>1. PICK t \in skip : ts = Skipped(taskStatus, t)
            BY <3>2
      <4>2. t \in Task /\ taskStatus[t] = "failed"
            BY DEF FirstWith, TasksOf
      <4>3. QED BY <1>1, <1>3, <4>1, <4>2, SkippedType, SkippingFollows
                DEF TypeOK
    <3>3. QED BY <2>2, <3>1, <3>2
  <2> HIDE DEF skip
  <2>4. CASE taskStatus' = ts /\ DoneIfFinished(ts, s)
    <3>1. /\ \A u \in Story : u # s => storyStatus'[u] = storyStatus[u]
          /\ \/ storyStatus'[s] = storyStatus[s]
             \/ storyStatus'[s] = "done" /\ AllFinished(taskStatus', s)
          BY <1>1, <1>2, <2>4 DEF DoneIfFinished, TypeOK
    <3>2. \A u \in Task : TaskFollows(u)
          BY <2>3, <2>4 DEF TaskFollows
    <3> HIDE DEF s
    <3>3. QED BY <2>1, <3>1, <3>2 DEF StoryFollows
  <2>5. ASSUME NEW n \in NextPending(ts, s),
               storyStatus' = [storyStatus EXCEPT ![s] = "in_progress"],
               \/ Launch(n, [ts EXCEPT ![n] = "in_progress"],
                         "pending", "pending", "wait")
               \/ /\ taskStatus' = [ts EXCEPT ![n] = "in_progress"]
                  /\ UNCHANGED run
        PROVE  /\ \A u \in Story : StoryFollows(u)
               /\ \A u \in Task : TaskFollows(u)
    <3>1. \A u \in Task : TaskFollows(u)
          BY <1>1, <1>2, <2>3, <2>5, StartingFollows
    <3>2. \A u \in Story : storyStatus'[u] = IF u = s THEN "in_progress"
                                             ELSE storyStatus[u]
          BY <1>1, <2>5 DEF TypeOK
    <3> HIDE DEF s
    <3>3. \A u \in Story : StoryFollows(u)
          BY <2>1, <3>2 DEF StoryFollows
    <3>4. QED BY <3>1, <3>3
  <2>6. QED BY <2>2, <2>4, <2>5
<1>5. CASE ContinueCancelled(c)
  <2> DEFINE ts == Rewrite(taskStatus, s, "cancelled", "pending")
             next == NextPending(ts, s)
  <2>1. storyStatus[s] = "cancelled" /\ Restoring
    <3>1. call[c].op = "continue" /\ call[c].seen = "cancelled"
          BY <1>5 DEF ContinueCancelled
    <3>2. QED BY <1>2, <3>1 DEF Restoring
  <2>2. \A u \in Task : IF u.story = s
                        THEN taskStatus[u] = "cancelled" /\ ts[u] = "pending"
                        ELSE ts[u] = taskStatus[u]
        BY <1>1, <2>1 DEF SequenceInv, StatusFitsTasks, Rewrite
  <2>3. \A n \in next : n.story = s
        BY DEF NextPending, FirstWith, TasksOf
  <2> HIDE DEF ts
  <2>4. \A u \in Task : \/ taskStatus'[u] = ts[u]
                        \/ u \in next /\ taskStatus'[u] = "in_progress"
        BY <1>5 DEF ContinueCancelled, ts
  <2> HIDE DEF next
  <2>5. /\ storyStatus'[s] \in {"in_progress", "ready", "pending"}
        /\ \A u \in Story : u # s => storyStatus'[u] = storyStatus[u]
        BY <1>1, <1>2, <1>5 DEF ContinueCancelled, TypeOK
  <2> HIDE DEF s
  <2>6. \A u \in Task : TaskFollows(u)
        BY <2>1, <2>2, <2>3, <2>4 DEF TaskFollows
  <2>7. \A u \in Story : StoryFollows(u)
        BY <2>1, <2>5 DEF StoryFollows
  <2>8. QED BY <2>6, <2>7
<1>6. CASE Cancel(c)
  <2>1. storyStatus[s] \in {"pending", "ready"}
    <3>1. call[c].op = "cancel"
          BY <1>6 DEF Cancel
    <3>2. QED BY <1>2, <3>1 DEF Accepts
  <2>2. /\ \A u \in Story : storyStatus'[u] = IF u = s THEN "cancelled"
                                              ELSE storyStatus[u]
        /\ \A t \in Task : \/ taskStatus'[t] = taskStatus[t]
                           \/ /\ taskStatus[t] = "pending"
                              /\ taskStatus'[t] = "cancelled"
        BY <1>6 DEF Cancel, StopRuns
  <2> HIDE DEF s
  <2>3. QED BY <2>1, <2>2 DEF StoryFollows, TaskFollows
<1>7. QED BY <1>4, <1>5, <1>6

\* What every step does to stories and tasks.
LEMMA StepsFollow ==
    ASSUME Unstopped, OrderInv, [Next]_vars
    PROVE  /\ \A s \in Story : StoryFollows(s)
           /\ \A t \in Task : TaskFollows(t)
<1>1. TypeOK /\ OwnershipInv /\ CallIsUpToDate
      BY DEF OrderInv, SequenceInv
<1>2. CASE SchedulerStep
      BY <1>2, SchedulerStoriesFollow, SchedulerTasksFollow
<1>3. CASE UNCHANGED <<storyStatus, taskStatus>>
      BY <1>3 DEF StoryFollows, TaskFollows
<1>4. CASE CommandStep
  <2>1. ASSUME NEW c \in Client
        PROVE  ~Stop(c)
    <3>1. Stop(c) => ~Idle(c) /\ call[c].op = "stop"
          BY DEF Stop, Idle
    <3>2. QED BY <1>1, <3>1 DEF CallIsUpToDate, Unstopped
  <2>2. ASSUME NEW c \in Client, Respond(c)
        PROVE  /\ \A s \in Story : StoryFollows(s)
               /\ \A t \in Task : TaskFollows(t)
        BY <2>1, <2>2, TaskCommandsFollow, StoryCommandsFollow DEF Respond
  <2>3. CASE ~\E c \in Client : Respond(c)
    <3>1. UNCHANGED <<storyStatus, taskStatus>>
          BY <1>4, <2>3
          DEF CommandStep, SetExecutionEnabled, CleanWorktrees, StopAll,
              BeginTaskCommand, BeginStoryCommand, workItems, Unstopped
    <3>2. QED BY <1>3, <3>1
  <2>4. QED BY <2>2, <2>3
<1>5. CASE Recover
  <2>1. \A r \in Running : taskStatus[run[r].task] = "in_progress"
        BY <1>1 DEF OwnershipInv, TaskOwnership
  <2>2. \A t \in Task : TaskFollows(t)
        BY <1>5, <2>1 DEF Recover, Orphaned, TaskFollows
  <2>3. \A s \in Story : StoryFollows(s)
        BY <1>5 DEF Recover, StoryFollows
  <2>4. QED BY <2>2, <2>3
<1>6. CASE AgentStep \/ Crash \/ UNCHANGED vars
  <2>1. UNCHANGED <<storyStatus, taskStatus>>
        BY <1>6 DEF AgentStep, AgentExit, WriteExitCode, Crash, vars,
                    workItems
  <2>2. QED BY <1>3, <2>1
<1>7. QED BY <1>2, <1>4, <1>5, <1>6 DEF Next
-----------------------------------------------------------------------------
(***************************************************************************)
(* Dependencies.  Finished work stays finished, unless exec.continue       *)
(* restores it, and what a tick is about to make ready waits for finished  *)
(* work only.                                                              *)
(***************************************************************************)

LEMMA FinishedWorkStays ==
    ASSUME Unstopped, OrderInv, [Next]_vars, ~Restoring,
           NEW s \in Story, BlockersFinished(s)
    PROVE  BlockersFinished(s)'
<1>1. ASSUME NEW t \in Task, taskStatus[t] \in Finished
      PROVE  taskStatus'[t] \in Finished
  <2>1. TaskFollows(t)
        BY StepsFollow
  <2>2. QED BY <1>1, <2>1 DEF TaskFollows, Finished
<1>2. QED BY <1>1 DEF BlockersFinished, AllFinished, TasksOf

\* Blockers that are done or cancelled are finished.
LEMMA ResolvedIsFinished ==
    ASSUME OrderInv, NEW s \in Story, BlockersResolved(storyStatus, s)
    PROVE  BlockersFinished(s)
<1>1. ASSUME NEW b \in Blockers[s]
      PROVE  AllFinished(taskStatus, b)
  <2>1. b \in Story /\ storyStatus[b] \in Finished
        BY BlockersAssumption DEF BlockersResolved
  <2>2. CASE storyStatus[b] = "done"
        BY <2>1, <2>2, DoneIsAllFinished
  <2>3. CASE storyStatus[b] = "cancelled"
        BY <2>3 DEF OrderInv, SequenceInv, StatusFitsTasks, AllFinished,
                    TasksOf, Finished
  <2>4. QED BY <2>1, <2>2, <2>3 DEF Finished
<1>2. QED BY <1>1 DEF BlockersFinished

\* A story is to be made ready because a tick has found its blockers done or
\* cancelled.
LEMMA PlansFitBlockers ==
    ASSUME TypeOK, [Next]_vars, NEW s \in plan'.ready
    PROVE  \/ s \in plan.ready
           \/ BlockersResolved(storyStatus, s) /\ pc # "idle"
<1> USE DEF tick
<1>1. CASE Schedule \/ UpdateEpicStatus \/ MarkStoryReady \/ StartStory
      BY <1>1 DEF Schedule, SchedulePlan, UpdateEpicStatus, MarkStoryReady,
                  StartStory, NoPlan, TypeOK
<1>2. CASE Crash
      BY <1>2 DEF Crash, NoPlan
<1>3. CASE SchedulerStep
      BY <1>1, <1>3 DEF SchedulerStep, TickBegin, ReapAlive, ReapSucceeded,
         ReapFailed, AdvanceStory, FailStory, CheckTimeouts, TimeOut,
         StartNextTask, CompleteStory, TickEnd
<1>4. CASE AgentStep \/ CommandStep \/ Recover \/ UNCHANGED vars
      BY <1>4 DEF AgentStep, AgentExit, WriteExitCode, CommandStep,
         SetExecutionEnabled, CleanWorktrees, StopAll, StopRuns,
         BeginTaskCommand, BeginStoryCommand, Respond, Retry, Skip,
         ContinueFailed, ContinueCancelled, Stop, Cancel, Recover, vars
<1>5. QED BY <1>2, <1>3, <1>4 DEF Next

LEMMA NextKeepsReadiness ==
    ASSUME CommandsTakeTurns, Unstopped, OrderInv, ReadinessInv, [Next]_vars
    PROVE  ReadinessInv'
<1>1. TypeOK /\ TypeOK' /\ PlanIsUpToDate
      BY NextType DEF OrderInv, SequenceInv
<1>2. ASSUME NEW s \in plan'.ready
      PROVE  BlockersFinished(s)'
  <2>1. s \in Story
        BY <1>1 DEF TypeOK
  <2>2. BlockersFinished(s) /\ pc # "idle"
    <3>1. CASE s \in plan.ready
          BY <1>1, <3>1 DEF ReadinessInv, PlanIsUpToDate, NoPlan
    <3>2. CASE s \notin plan.ready
          BY <1>1, <1>2, <2>1, <3>2, PlansFitBlockers, ResolvedIsFinished
    <3>3. QED BY <3>1, <3>2
  <2>3. QED BY <2>1, <2>2, FinishedWorkStays DEF Restoring
<1>3. QED BY <1>2 DEF ReadinessInv

LEMMA NextKeepsDependencies ==
    ASSUME CommandsTakeTurns, Unstopped, "continue" \notin Ops, OrderInv,
           DependencyInv, [Next]_vars
    PROVE  DependencyInv'
<1>1. ReadinessInv'
      BY NextKeepsReadiness DEF DependencyInv
<1>2. ASSUME NEW s \in Story, storyStatus'[s] \notin {"pending", "cancelled"}
      PROVE  BlockersFinished(s)'
  <2>1. StoryFollows(s)
        BY StepsFollow
  <2>2. \/ s \in plan.ready
        \/ storyStatus[s] \notin {"pending", "cancelled"}
        BY <1>2, <2>1 DEF StoryFollows, Restoring
  <2>3. BlockersFinished(s)
        BY <2>2 DEF DependencyInv, ReadinessInv
  <2>4. QED BY <2>3, FinishedWorkStays DEF Restoring
<1>3. QED BY <1>1, <1>2 DEF DependencyInv

\* As long as commands take turns and nobody stops or continues a story, no
\* story runs while there is work to do on one it depends on: however planning
\* lags behind deliveries that fail, and commands that retry or skip tasks
\* beside the tick.
THEOREM DependenciesAreRespected ==
    ASSUME CommandsTakeTurns, Unstopped, "continue" \notin Ops
    PROVE  Spec => []DependenciesRespected
<1>1. Init => DependencyInv
      BY DEF Init, DependencyInv, ReadinessInv, NoPlan
<1>2. OrderInv /\ DependencyInv /\ [Next]_vars => (OrderInv /\ DependencyInv)'
      BY NextKeepsOrder, NextKeepsDependencies
<1>3. DependencyInv => DependenciesRespected
      BY DEF DependencyInv, DependenciesRespected, BlockersFinished
<1>4. QED BY <1>1, <1>2, <1>3, InitOrder, PTL DEF Spec
-----------------------------------------------------------------------------
(***************************************************************************)
(* The daemon keeps to the state machine and its listed departures.        *)
(***************************************************************************)

LEMMA StepsKeepToLifecycle ==
    ASSUME Unstopped, OrderInv, TypeOK', ReadinessInv, [Next]_vars
    PROVE  Lifecycle!WideNext
<1>1. ASSUME NEW s \in Story
      PROVE  Lifecycle!StoryStep(s) \/ Lifecycle!StoryDeparture(s)
  <2>1. StoryFollows(s)
        BY StepsFollow
  <2>2. s \in plan.ready =>
           \A b \in Blockers[s] : Lifecycle!AllFinished(taskStatus, b)
        BY SameItems DEF ReadinessInv, BlockersFinished
  <2>3. AllFinished(taskStatus', s) => Lifecycle!AllFinished(taskStatus', s)
        BY SameItems
  <2>4. QED BY <2>1, <2>2, <2>3
            DEF StoryFollows, Lifecycle!StoryStep, Lifecycle!StoryStart,
                Lifecycle!StoryComplete, Lifecycle!StoryFail,
                Lifecycle!StoryCancel, Lifecycle!StoryDeparture,
                Lifecycle!StoryReadyAnyhow, Lifecycle!StoryNeverStarts,
                Lifecycle!StoryCompleteAnyhow, Lifecycle!StoryUndone,
                Lifecycle!StoryRestored
<1>2. ASSUME NEW t \in Task
      PROVE  Lifecycle!TaskStep(t) \/ Lifecycle!TaskDeparture(t)
  <2>1. TaskFollows(t)
        BY StepsFollow
  <2>2. QED BY <2>1
            DEF TaskFollows, Lifecycle!TaskStep, Lifecycle!TaskStart,
                Lifecycle!TaskComplete, Lifecycle!TaskFail,
                Lifecycle!TaskCancel, Lifecycle!TaskSkip,
                Lifecycle!TaskDeparture, Lifecycle!TaskNeverStarts,
                Lifecycle!TaskRestored
<1>3. QED BY <1>1, <1>2, SameItems DEF Lifecycle!WideNext, TypeOK

\* As long as commands take turns and nobody stops a story, the daemon changes
\* a status only as work_item.rs allows or by one of the listed departures,
\* whatever fails and whatever is retried, skipped, cancelled or continued.
THEOREM DaemonKeepsToLifecycle ==
    ASSUME CommandsTakeTurns, Unstopped
    PROVE  Spec => KeepsToLifecycle
<1>1. Init => Lifecycle!Init
      BY SameItems DEF Init, Lifecycle!Init
<1>2. Init => ReadinessInv
      BY DEF Init, ReadinessInv, NoPlan
<1>3. /\ OrderInv /\ ReadinessInv /\ [Next]_vars
         => OrderInv' /\ ReadinessInv'
      /\ OrderInv /\ ReadinessInv /\ [Next]_vars
         => [Lifecycle!WideNext]_(Lifecycle!vars)
  <2>1. OrderInv' => TypeOK'
        BY DEF OrderInv
  <2>2. QED BY <2>1, NextKeepsOrder, NextKeepsReadiness, StepsKeepToLifecycle
<1>4. QED BY <1>1, <1>2, <1>3, InitOrder, PTL
          DEF Spec, KeepsToLifecycle, Lifecycle!WideSpec

\* As long as it does, a task that is done is never undone: no retry, skip,
\* late verdict or recovery makes an agent work on it again.
THEOREM DoneTasksStayDone ==
    ASSUME CommandsTakeTurns, Unstopped
    PROVE  Spec => Lifecycle!DoneTaskIsForever
<1>1. [Lifecycle!WideNext]_(Lifecycle!vars) =>
         [\A t \in Lifecycle!Task :
             taskStatus[t] = "done" =>
                taskStatus'[t] = "done"]_(Lifecycle!vars)
      BY DEF Lifecycle!WideNext, Lifecycle!TaskStep, Lifecycle!TaskStart,
             Lifecycle!TaskComplete, Lifecycle!TaskFail, Lifecycle!TaskCancel,
             Lifecycle!TaskSkip, Lifecycle!TaskDeparture,
             Lifecycle!TaskNeverStarts, Lifecycle!TaskRestored
<1>2. QED BY <1>1, DaemonKeepsToLifecycle, PTL
          DEF KeepsToLifecycle, Lifecycle!WideSpec,
              Lifecycle!DoneTaskIsForever
=============================================================================

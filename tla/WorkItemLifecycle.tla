------------------------- MODULE WorkItemLifecycle --------------------------
(***************************************************************************)
(* What a work item may become: the state machine that                     *)
(* nflow_core::work_item defines with the story_... and task_... methods.  *)
(* The daemon does not call these methods, it writes statuses straight     *)
(* into the database.  This is the abstract specification its writes are   *)
(* measured against: Execution implements it (property FollowsLifecycle)   *)
(* as long as only some commands and faults are used, and the runs that    *)
(* leave it show which ones.                                               *)
(*                                                                         *)
(* One step changes any number of items (exec.stop cancels a story and its *)
(* tasks), each of them by one of the transitions below.                   *)
(***************************************************************************)
EXTENDS WorkItems

VARIABLES
    story,      \* status of each story
    task        \* status of each task

vars == <<story, task>>

Init ==
    /\ story = [s \in Story |-> "pending"]
    /\ task = [t \in Task |-> "pending"]
-----------------------------------------------------------------------------
\* The caller of story_mark_ready answers for the blockers.
StoryMarkReady(s) ==
    /\ story[s] = "pending" /\ story'[s] = "ready"
    /\ BlockersResolved(story, s)

StoryStart(s) == story[s] \in {"ready", "failed"} /\ story'[s] = "in_progress"

\* The caller of story_complete answers for the tasks.
StoryComplete(s) ==
    /\ story[s] = "in_progress" /\ story'[s] = "done"
    /\ AllFinished(task', s)

StoryFail(s) == story[s] = "in_progress" /\ story'[s] = "failed"

StoryCancel(s) ==
    story[s] \in {"pending", "ready", "in_progress"} /\ story'[s] = "cancelled"

StoryStep(s) ==
    \/ StoryMarkReady(s) \/ StoryStart(s) \/ StoryComplete(s)
    \/ StoryFail(s) \/ StoryCancel(s)
    \/ story'[s] = story[s]

TaskStart(t) == task[t] \in {"pending", "failed"} /\ task'[t] = "in_progress"

TaskComplete(t) == task[t] = "in_progress" /\ task'[t] = "done"

TaskFail(t) == task[t] = "in_progress" /\ task'[t] = "failed"

TaskCancel(t) == task[t] = "pending" /\ task'[t] = "cancelled"

TaskSkip(t) == task[t] = "failed" /\ task'[t] = "done"

TaskStep(t) ==
    \/ TaskStart(t) \/ TaskComplete(t) \/ TaskFail(t) \/ TaskCancel(t)
    \/ TaskSkip(t)
    \/ task'[t] = task[t]

Next ==
    /\ story' \in [Story -> StoryStatus]
    /\ task' \in [Task -> TaskStatus]
    /\ \A s \in Story : StoryStep(s)
    /\ \A t \in Task : TaskStep(t)

Spec == Init /\ [][Next]_vars
-----------------------------------------------------------------------------
(***************************************************************************)
(* Departures: the other changes of statuses that the daemon makes, under  *)
(* the commands and faults that Spec leaves out.  They are all (property   *)
(* KeepsToLifecycle).                                                      *)
(***************************************************************************)

\* A blocker whose delivery failed after all holds nobody up that a tick has
\* already found to wait no more.
StoryReadyAnyhow(s) ==
    /\ story[s] = "pending" /\ story'[s] = "ready"
    /\ \A b \in Blockers[s] : AllFinished(task, b)

\* There is no worktree for it.
StoryNeverStarts(s) == story[s] = "ready" /\ story'[s] = "failed"

\* Its failed tasks were skipped.
StoryCompleteAnyhow(s) ==
    /\ story[s] = "failed" /\ story'[s] = "done"
    /\ AllFinished(task', s)

\* It cannot be delivered, or its last task failed and was skipped before the
\* story was.
StoryUndone(s) ==
    /\ story[s] = "done" /\ story'[s] = "failed"
    /\ AllFinished(task', s)

\* exec.continue
StoryRestored(s) ==
    story[s] = "cancelled" /\ story'[s] \in {"pending", "ready", "in_progress"}

StoryDeparture(s) ==
    \/ StoryReadyAnyhow(s) \/ StoryNeverStarts(s) \/ StoryCompleteAnyhow(s)
    \/ StoryUndone(s) \/ StoryRestored(s)

\* There is no agent for it.
TaskNeverStarts(t) == task[t] = "pending" /\ task'[t] = "failed"

TaskRestored(t) ==
    /\ story[t.story] = "cancelled"
    /\ task[t] = "cancelled" /\ task'[t] \in {"pending", "in_progress"}

TaskDeparture(t) == TaskNeverStarts(t) \/ TaskRestored(t)

WideNext ==
    /\ story' \in [Story -> StoryStatus]
    /\ task' \in [Task -> TaskStatus]
    /\ \A s \in Story : StoryStep(s) \/ StoryDeparture(s)
    /\ \A t \in Task : TaskStep(t) \/ TaskDeparture(t)

WideSpec == Init /\ [][WideNext]_vars
-----------------------------------------------------------------------------
TypeOK ==
    /\ story \in [Story -> StoryStatus]
    /\ task \in [Task -> TaskStatus]

\* The tasks of a story that is done are done or cancelled, and stay so: no
\* transition reopens them, although StoryComplete looks at them only once.
DoneIsFinished ==
    \A s \in Story : story[s] = "done" => AllFinished(task, s)

\* A task that is done stays done, whatever becomes of its story.
DoneTaskIsForever ==
    [][\A t \in Task : task[t] = "done" => task'[t] = "done"]_vars

\* A story that is done stays done.
DoneIsForever ==
    [][\A s \in Story : story[s] = "done" => story'[s] = "done"]_vars
=============================================================================

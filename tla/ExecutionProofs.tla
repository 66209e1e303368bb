-------------------------- MODULE ExecutionProofs ---------------------------
(***************************************************************************)
(* Theorems about Execution, for every value of its constants: types and   *)
(* exit codes whatever happens, TaskOwnership and VerdictIsFinal under     *)
(* CommandsTakeTurns.  That is, commands and the scheduler take turns, as  *)
(* docs/daemon.md promises, or they run in parallel, as the code has it,   *)
(* but one command at a time, and none that stops, cancels or continues a  *)
(* story.                                                                  *)
(***************************************************************************)
EXTENDS Execution, TLAPS

(***************************************************************************)
(* Lemmas about the helpers on work items.                                 *)
(***************************************************************************)

\* There is a task at all, so the placeholder is one.
LEMMA NoTaskType == NoTask \in Task
<1>1. PICK s \in Story, p \in Pair : TRUE
      BY StoryAssumption, PairAssumption
<1>2. [story |-> s, pair |-> p, kind |-> "impl"] \in Task
      BY DEF Task, Kind
<1>3. QED BY <1>2 DEF NoTask

\* The rows that leave the model, and the answered calls, have their types.
LEMMA PlaceholderTypes == FreeRow \in RunRow /\ NoCall \in Call
BY NoTaskType DEF FreeRow, RunRow, NoCall, Call, Task, StoryStatus, Outcome

\* A row stays a row when its run is closed, and keeps task and process.
LEMMA ClosedRow ==
    ASSUME NEW row \in RunRow, NEW code \in {"null", "zero", "nonzero"},
           NEW status \in {"free", "running", "succeeded", "failed",
                           "cancelled"}
    PROVE  /\ Closed(row, status, code) \in RunRow
           /\ Closed(row, status, code).task = row.task
           /\ Closed(row, status, code).status = status
           /\ Closed(row, status, code).code = code
           /\ Closed(row, status, code).proc = row.proc
BY DEF RunRow, Closed

\* A row stays a row when its process ends, and nothing else changes.
LEMMA ExitedRow ==
    ASSUME NEW row \in RunRow, NEW outcome \in Outcome
    PROVE  /\ Exited(row, outcome) \in RunRow
           /\ Exited(row, outcome).task = row.task
           /\ Exited(row, outcome).status = row.status
           /\ Exited(row, outcome).code = row.code
           /\ Exited(row, outcome).proc = outcome
BY DEF RunRow, Exited

\* A row stays a row when its exit code comes in, which says how it ended.
LEMMA WaitedRow ==
    ASSUME NEW row \in RunRow
    PROVE  /\ Waited(row) \in RunRow
           /\ Waited(row).task = row.task
           /\ Waited(row).status = row.status
           /\ Waited(row).proc = row.proc
           /\ row.proc = "err" <=> Waited(row).code # "zero"
BY DEF RunRow, Waited

\* The partner of a task is a task of the same story.
LEMMA PairedVerifyType ==
    ASSUME NEW t \in Task
    PROVE  PairedVerify(t) \in Task /\ PairedVerify(t).story = t.story
BY DEF PairedVerify, Task, Kind

\* What is found for a story is a task of it, with the status looked for.
LEMMA FirstWithType ==
    ASSUME NEW ts, NEW s \in Story, NEW st
    PROVE  FirstWith(ts, s, st) \subseteq {t \in TasksOf(s) : ts[t] = st}
BY DEF FirstWith

\* What starts next is a pending task.
LEMMA NextTaskType ==
    ASSUME NEW ts, NEW t \in Task
    PROVE  NextTask(ts, t) \subseteq {u \in Task : ts[u] = "pending"}
BY PairedVerifyType, FirstWithType
   DEF NextTask, NextPending, TasksOf, Task

\* Skipping changes no task that is in progress, and starts none.
LEMMA SkippedKeepsProgress ==
    ASSUME NEW ts \in [Task -> TaskStatus], NEW t \in Task,
           ts[t] = "failed"
    PROVE  /\ Skipped(ts, t) \in [Task -> TaskStatus]
           /\ \A u \in Task :
                 Skipped(ts, t)[u] = "in_progress" <=> ts[u] = "in_progress"
BY PairedVerifyType DEF Skipped, TaskStatus

\* The same without a condition on the task, for its type alone.
LEMMA SkippedType ==
    ASSUME NEW ts \in [Task -> TaskStatus], NEW t \in Task
    PROVE  Skipped(ts, t) \in [Task -> TaskStatus]
BY PairedVerifyType DEF Skipped, TaskStatus

\* An epic's status is a status, whatever its stories are in.
LEMMA PropagateEpicStatusType ==
    ASSUME NEW S
    PROVE  PropagateEpicStatus(S) \in StoryStatus
BY DEF PropagateEpicStatus, StoryStatus

LEMMA EpicStatusType ==
    ASSUME NEW ss, NEW e
    PROVE  EpicStatus(ss, e) \in StoryStatus
BY PropagateEpicStatusType DEF EpicStatus

\* Restoring cancelled tasks restores no task to work.
LEMMA RewriteType ==
    ASSUME NEW ts \in [Task -> TaskStatus], NEW s, NEW old,
           NEW new \in TaskStatus
    PROVE  Rewrite(ts, s, old, new) \in [Task -> TaskStatus]
BY DEF Rewrite
-----------------------------------------------------------------------------
(***************************************************************************)
(* Type correctness.                                                       *)
(***************************************************************************)

\* An agent that is started, or not, leaves rows and tasks well typed.
LEMMA LaunchType ==
    ASSUME TypeOK, NEW t \in Task, NEW ts \in [Task -> TaskStatus],
           NEW onSetup \in TaskStatus, NEW onSpawn \in TaskStatus,
           NEW pipe \in {"wait", "log"},
           Launch(t, ts, onSetup, onSpawn, pipe)
    PROVE  run' \in [Run -> RunRow] /\ taskStatus' \in [Task -> TaskStatus]
<1>1. CASE StartAgent(t, pipe) /\ taskStatus' = ts
      BY <1>1 DEF StartAgent, TypeOK, RunRow
<1>2. CASE /\ UNCHANGED run
           /\ \E st \in TaskStatus : taskStatus' = [ts EXCEPT ![t] = st]
      BY <1>2 DEF TypeOK
<1>3. QED BY <1>1, <1>2 DEF Launch

\* The plan of a tick only names epics, stories and statuses there are.
LEMMA PlanType ==
    ASSUME TypeOK
    PROVE  /\ SchedulePlan \in [epics : SUBSET (Epic \X StoryStatus),
                                ready : SUBSET Story,
                                start : SUBSET Story]
           /\ NoPlan \in [epics : SUBSET (Epic \X StoryStatus),
                          ready : SUBSET Story,
                          start : SUBSET Story]
<1>1. OutdatedEpics \subseteq Epic \X StoryStatus
      BY EpicStatusType DEF OutdatedEpics
<1>2. QED BY <1>1 DEF SchedulePlan, NoPlan

\* What a process leaves in the logs is well typed.
LEMMA EndsType ==
    ASSUME TypeOK, NEW r \in Run, NEW outcome \in Outcome, Ends(r, outcome)
    PROVE  log' \in [LogName -> BOOLEAN]
<1> DEFINE l == LogOf[run[r].task]
<1>1. l \in LogName
      BY LogAssumption DEF TypeOK, RunRow
<1>2. LogAfter(l, outcome) \subseteq BOOLEAN
      BY <1>1 DEF LogAfter, TypeOK, Outcome
<1>3. QED BY <1>1, <1>2 DEF Ends, TypeOK

\* The statuses and agents written by a command.
LEMMA StopRunsType ==
    ASSUME TypeOK, NEW R, NEW S, StopRuns(R, S)
    PROVE  /\ run' \in [Run -> RunRow]
           /\ taskStatus' \in [Task -> TaskStatus]
           /\ storyStatus' \in [Story -> StoryStatus]
           /\ UNCHANGED <<epicStatus, worktree, mrUrl, executionEnabled, log,
                          tick>>
<1>1. \A r \in Run :
         Closed(run[r], "cancelled", "null") \in RunRow
      BY ClosedRow DEF TypeOK, Outcome
<1>2. run' \in [Run -> RunRow]
      BY <1>1 DEF StopRuns, TypeOK
<1>3. taskStatus' \in [Task -> TaskStatus]
      BY DEF StopRuns, TypeOK, TaskStatus
<1>4. storyStatus' \in [Story -> StoryStatus]
      BY DEF StopRuns, TypeOK, StoryStatus
<1>5. QED BY <1>2, <1>3, <1>4 DEF StopRuns

\* The steps of the scheduler loop keep the types.
LEMMA SchedulerStepType ==
    ASSUME TypeOK, SchedulerStep
    PROVE  TypeOK'
<1> USE DEF workItems, agents
<1>1. CASE TickBegin
      BY <1>1, PlaceholderTypes DEF TickBegin, TypeOK, RunRow, Entry, Running
<1>2. CASE ReapAlive
      BY <1>2 DEF ReapAlive, TypeOK
<1>3. CASE ReapSucceeded \/ ReapFailed
  <2>1. PICK e \in todo, status \in {"succeeded", "failed"},
             code \in {"null", "zero", "nonzero"}, ok \in BOOLEAN :
           /\ todo' = todo \ {e}
           /\ run' = [run EXCEPT ![e.run] = Closed(@, status, code)]
           /\ \E st \in {"done", "failed"} :
                 taskStatus' = [taskStatus EXCEPT ![run[e.run].task] = st]
           /\ verdict' = {[by |-> e.run, task |-> run[e.run].task,
                           ok |-> ok]}
        BY <1>3 DEF ReapSucceeded, ReapFailed, TypeOK, Entry
  <2>2. e.run \in Run /\ run[e.run].task \in Task
        BY DEF TypeOK, Entry, RunRow
  <2>3. Closed(run[e.run], status, code) \in RunRow
        BY <2>2, ClosedRow DEF TypeOK, Outcome
  <2>4. run' \in [Run -> RunRow] /\ taskStatus' \in [Task -> TaskStatus]
        BY <2>1, <2>2, <2>3 DEF TypeOK, TaskStatus
  <2>5. verdict' \subseteq Verdict
        BY <2>1, <2>2 DEF Verdict
  <2>6. QED BY <1>3, <2>1, <2>4, <2>5 DEF ReapSucceeded, ReapFailed, TypeOK
<1>5. CASE AdvanceStory
  <2>1. PICK v \in verdict :
           \/ \E n \in NextTask(taskStatus, v.task) :
                 /\ taskStatus' = [taskStatus EXCEPT ![n] = "in_progress"]
                 /\ progress' = progress \cup
                       {[by |-> v.by, kind |-> "start", task |-> n]}
                 /\ UNCHANGED storyStatus
           \/ /\ storyStatus' = [storyStatus EXCEPT
                                    ![v.task.story] = "done"]
              /\ progress' = progress \cup
                    {[by |-> v.by, kind |-> "complete", task |-> v.task]}
              /\ UNCHANGED taskStatus
           \/ UNCHANGED <<taskStatus, storyStatus, progress>>
        BY <1>5 DEF AdvanceStory
  <2>2. v.by \in Run /\ v.task \in Task
        BY DEF TypeOK, Verdict
  <2>3. NextTask(taskStatus, v.task) \subseteq Task
        BY <2>2, NextTaskType
  <2>4. taskStatus' \in [Task -> TaskStatus]
        BY <2>1, <2>3 DEF TypeOK, TaskStatus
  <2>5. storyStatus' \in [Story -> StoryStatus]
        BY <2>1 DEF TypeOK, StoryStatus
  <2>6. progress' \subseteq ProgressAction
        BY <2>1, <2>2, <2>3 DEF TypeOK, ProgressAction
  <2>7. QED BY <1>5, <2>4, <2>5, <2>6 DEF AdvanceStory, TypeOK
<1>6. CASE FailStory
      BY <1>6 DEF FailStory, TypeOK, StoryStatus
<1>7. ASSUME NEW late \in SUBSET Running, CheckTimeouts(late)
      PROVE  TypeOK'
      BY <1>7 DEF CheckTimeouts, TypeOK, RunRow, Entry, Running
<1>8. CASE TimeOut
  <2>1. PICK e \in todo, outcome \in Outcome :
           /\ Ends(e.run, outcome)
           /\ todo' = todo \ {e}
           /\ run' = [run EXCEPT ![e.run] =
                         Closed(Exited(@, outcome), "failed", "null")]
           /\ taskStatus' = [taskStatus EXCEPT ![run[e.run].task] = "failed"]
           /\ verdict' = {[by |-> e.run, task |-> run[e.run].task,
                           ok |-> FALSE]}
        BY <1>8 DEF TimeOut
  <2>2. e.run \in Run
        BY DEF TypeOK, Entry
  <2>3. log' \in [LogName -> BOOLEAN]
        BY <2>1, <2>2, EndsType
  <2>4. run' \in [Run -> RunRow] /\ taskStatus' \in [Task -> TaskStatus]
    <3>1. Closed(Exited(run[e.run], outcome), "failed", "null") \in RunRow
      <4>1. Exited(run[e.run], outcome) \in RunRow
            BY <2>2, ExitedRow DEF TypeOK
      <4>2. QED BY <4>1, ClosedRow
    <3>2. QED BY <2>1, <2>2, <3>1 DEF TypeOK, RunRow, TaskStatus
  <2>5. verdict' \subseteq Verdict
        BY <2>1, <2>2 DEF TypeOK, RunRow, Verdict
  <2>6. QED BY <1>8, <2>1, <2>3, <2>4, <2>5 DEF TimeOut, TypeOK
<1>9. CASE Schedule
      BY <1>9, PlanType DEF Schedule, TypeOK
<1>10. CASE StartNextTask
  <2>1. PICK p \in progress :
           /\ progress' = progress \ {p}
           /\ \/ Launch(p.task, taskStatus, taskStatus[p.task], "failed",
                        "wait")
              \/ UNCHANGED <<taskStatus, run>>
        BY <1>10 DEF StartNextTask
  <2>2. p.task \in Task /\ taskStatus[p.task] \in TaskStatus
        BY DEF TypeOK, ProgressAction
  <2>3. run' \in [Run -> RunRow] /\ taskStatus' \in [Task -> TaskStatus]
        BY <2>1, <2>2, LaunchType DEF TypeOK, TaskStatus
  <2>4. QED BY <1>10, <2>1, <2>3 DEF StartNextTask, TypeOK
<1>11. CASE CompleteStory
       BY <1>11 DEF CompleteStory, TypeOK, StoryStatus
<1>12. CASE UpdateEpicStatus
       BY <1>12 DEF UpdateEpicStatus, TypeOK
<1>13. CASE MarkStoryReady
       BY <1>13 DEF MarkStoryReady, TypeOK, StoryStatus
<1>14. CASE StartStory
  <2>1. PICK s \in plan.start :
           /\ plan' = [plan EXCEPT !.start = @ \ {s}]
           /\ StartStoryFails(s) \/ StartStoryWorks(s)
        BY <1>14 DEF StartStory
  <2>2. s \in Story
        BY DEF TypeOK
  <2>3. CASE StartStoryFails(s)
        BY <1>14, <2>1, <2>3 DEF StartStory, StartStoryFails, TypeOK,
                                 StoryStatus
  <2>4. CASE StartStoryWorks(s)
    <3>1. run' \in [Run -> RunRow] /\ taskStatus' \in [Task -> TaskStatus]
      <4>1. ASSUME NEW n \in NextPending(taskStatus, s),
                   Launch(n, [taskStatus EXCEPT ![n] = "in_progress"],
                          "in_progress", "failed", "wait")
            PROVE  run' \in [Run -> RunRow]
                   /\ taskStatus' \in [Task -> TaskStatus]
        <5>1. n \in Task
              BY <2>2, FirstWithType DEF NextPending, TasksOf
        <5>2. [taskStatus EXCEPT ![n] = "in_progress"]
                 \in [Task -> TaskStatus]
              BY <5>1 DEF TypeOK, TaskStatus
        <5>3. QED BY <4>1, <5>1, <5>2, LaunchType DEF TaskStatus
      <4>2. QED BY <2>4, <4>1 DEF StartStoryWorks, TypeOK
    <3>2. worktree' \in [Story -> BOOLEAN]
          /\ storyStatus' \in [Story -> StoryStatus]
          BY <2>4 DEF StartStoryWorks, TypeOK, StoryStatus
    <3>3. QED BY <1>14, <2>1, <3>1, <3>2 DEF StartStory, TypeOK
  <2>5. QED BY <2>1, <2>3, <2>4
<1>15. CASE TickEnd
       BY <1>15 DEF TickEnd, TypeOK
<1>16. QED
       BY <1>1, <1>2, <1>3, <1>5, <1>6, <1>7, <1>8, <1>9, <1>10,
          <1>11, <1>12, <1>13, <1>14, <1>15 DEF SchedulerStep

\* The steps of agents and background tasks keep the types.
LEMMA AgentStepType ==
    ASSUME TypeOK, AgentStep
    PROVE  TypeOK'
<1> USE DEF workItems, tick
<1>1. CASE AgentExit
  <2>1. PICK r \in Used, outcome \in Outcome :
           /\ Ends(r, outcome)
           /\ run' = [run EXCEPT ![r] = Exited(@, outcome)]
        BY <1>1 DEF AgentExit
  <2>2. r \in Run
        BY DEF Used
  <2>3. Exited(run[r], outcome) \in RunRow
        BY <2>2, ExitedRow DEF TypeOK
  <2>4. log' \in [LogName -> BOOLEAN]
        BY <2>1, <2>2, EndsType
  <2>5. QED BY <1>1, <2>1, <2>2, <2>3, <2>4 DEF AgentExit, TypeOK
<1>2. CASE WriteExitCode
  <2>1. PICK r \in Used : run' = [run EXCEPT ![r] = Waited(@)]
        BY <1>2 DEF WriteExitCode
  <2>2. Waited(run[r]) \in RunRow
        BY WaitedRow DEF TypeOK, Used
  <2>3. QED BY <1>2, <2>1, <2>2 DEF WriteExitCode, TypeOK
<1>3. QED BY <1>1, <1>2 DEF AgentStep

\* The second half of a command keeps the types.
LEMMA RespondType ==
    ASSUME TypeOK, NEW c \in Client, Respond(c)
    PROVE  TypeOK'
<1> USE DEF tick
<1>1. /\ call[c].story \in Story /\ call[c].task \in Task
      /\ call[c].seen \in StoryStatus
      BY DEF TypeOK, Call
<1>2. ASSUME Answer(c)
      PROVE  call' \in [Client -> Call]
      BY <1>2, PlaceholderTypes DEF Answer, TypeOK
<1>3. Revived(call[c].story, call[c].seen) \in [Story -> StoryStatus]
      BY <1>1 DEF Revived, TypeOK, StoryStatus
<1>4. ASSUME NEW ts, DoneIfFinished(ts, call[c].story)
      PROVE  storyStatus' \in [Story -> StoryStatus]
      BY <1>1, <1>4 DEF DoneIfFinished, TypeOK, StoryStatus
<1>5. ASSUME NEW ts \in [Task -> TaskStatus],
             NEW n \in NextPending(ts, call[c].story)
      PROVE  /\ n \in Task
             /\ [ts EXCEPT ![n] = "in_progress"] \in [Task -> TaskStatus]
  <2>1. n \in Task
        BY <1>1, FirstWithType DEF NextPending, TasksOf
  <2>2. QED BY <2>1 DEF TaskStatus
<1>6. CASE Retry(c)
  <2> DEFINE ts == [taskStatus EXCEPT ![call[c].task] = "in_progress"]
  <2>1. ts \in [Task -> TaskStatus]
        BY DEF TypeOK, TaskStatus
  <2>2. run' \in [Run -> RunRow] /\ taskStatus' \in [Task -> TaskStatus]
    <3>1. CASE Launch(call[c].task, ts, "in_progress", "failed", "wait")
          BY <1>1, <2>1, <3>1, LaunchType DEF TaskStatus
    <3>2. CASE taskStatus' = ts /\ UNCHANGED run
          BY <2>1, <3>2 DEF TypeOK
    <3>3. QED BY <1>6, <3>1, <3>2 DEF Retry
  <2>3. QED BY <1>2, <1>3, <1>6, <2>2 DEF Retry, TypeOK
<1>7. CASE Skip(c)
  <2> DEFINE ts == Skipped(taskStatus, call[c].task)
  <2>1. ts \in [Task -> TaskStatus]
        BY <1>1, SkippedType DEF TypeOK
  <2>2. CASE NextPending(ts, call[c].story) = {}
        BY <1>2, <1>4, <1>7, <2>1, <2>2 DEF Skip, TypeOK
  <2>3. ASSUME NEW n \in NextPending(ts, call[c].story),
               storyStatus' = Revived(call[c].story, call[c].seen),
               \/ Launch(n, [ts EXCEPT ![n] = "in_progress"],
                         "in_progress", "pending", "log")
               \/ /\ taskStatus' = [ts EXCEPT ![n] = "in_progress"]
                  /\ UNCHANGED run
        PROVE  TypeOK'
    <3>1. run' \in [Run -> RunRow] /\ taskStatus' \in [Task -> TaskStatus]
          BY <1>5, <2>1, <2>3, LaunchType DEF TypeOK, TaskStatus
    <3>2. QED BY <1>2, <1>3, <1>7, <2>3, <3>1 DEF Skip, TypeOK
  <2>4. QED BY <1>7, <2>2, <2>3 DEF Skip
<1>8. CASE ContinueFailed(c)
  <2>1. PICK ts \in [Task -> TaskStatus] :
           \/ \E n \in NextPending(ts, call[c].story) :
                 /\ storyStatus' =
                       [storyStatus EXCEPT ![call[c].story] = "in_progress"]
                 /\ \/ Launch(n, [ts EXCEPT ![n] = "in_progress"],
                              "pending", "pending", "wait")
                    \/ /\ taskStatus' = [ts EXCEPT ![n] = "in_progress"]
                       /\ UNCHANGED run
           \/ /\ taskStatus' = ts
              /\ DoneIfFinished(ts, call[c].story)
              /\ UNCHANGED run
    <3>1. FirstWith(taskStatus, call[c].story, "failed") \subseteq Task
          BY <1>1, FirstWithType DEF TasksOf
    <3>2. \A t \in FirstWith(taskStatus, call[c].story, "failed") :
             Skipped(taskStatus, t) \in [Task -> TaskStatus]
          BY <3>1, SkippedType DEF TypeOK
    <3>3. taskStatus \in [Task -> TaskStatus]
          BY DEF TypeOK
    <3>4. QED BY <1>8, <3>2, <3>3 DEF ContinueFailed
  <2>2. ASSUME NEW n \in NextPending(ts, call[c].story),
               storyStatus' =
                  [storyStatus EXCEPT ![call[c].story] = "in_progress"],
               \/ Launch(n, [ts EXCEPT ![n] = "in_progress"],
                         "pending", "pending", "wait")
               \/ /\ taskStatus' = [ts EXCEPT ![n] = "in_progress"]
                  /\ UNCHANGED run
        PROVE  TypeOK'
    <3>1. run' \in [Run -> RunRow] /\ taskStatus' \in [Task -> TaskStatus]
          BY <1>5, <2>2, LaunchType DEF TypeOK, TaskStatus
    <3>2. QED BY <1>2, <1>8, <2>2, <3>1
              DEF ContinueFailed, TypeOK, StoryStatus
  <2>3. ASSUME taskStatus' = ts, DoneIfFinished(ts, call[c].story),
               UNCHANGED run
        PROVE  TypeOK'
        BY <1>2, <1>4, <1>8, <2>3 DEF ContinueFailed, TypeOK
  <2>4. QED BY <2>1, <2>2, <2>3
<1>9. CASE ContinueCancelled(c)
  <2> DEFINE ts == Rewrite(taskStatus, call[c].story, "cancelled", "pending")
  <2>1. ts \in [Task -> TaskStatus]
        BY RewriteType DEF TypeOK, TaskStatus
  <2>2. taskStatus' \in [Task -> TaskStatus]
        BY <1>9, <2>1 DEF ContinueCancelled, TaskStatus
  <2>3. storyStatus' \in [Story -> StoryStatus]
        BY <1>9 DEF ContinueCancelled, TypeOK, StoryStatus
  <2>4. QED BY <1>2, <1>9, <2>2, <2>3 DEF ContinueCancelled, agents, TypeOK
<1>10. CASE Stop(c)
       BY <1>2, <1>10, StopRunsType DEF Stop, TypeOK
<1>11. CASE Cancel(c)
       BY <1>2, <1>11, StopRunsType DEF Cancel, TypeOK
<1>12. QED BY <1>6, <1>7, <1>8, <1>9, <1>10, <1>11 DEF Respond

\* The commands keep the types.
LEMMA CommandStepType ==
    ASSUME TypeOK, CommandStep
    PROVE  TypeOK'
<1> USE DEF workItems, agents, tick
<1>1. ASSUME NEW on \in BOOLEAN, SetExecutionEnabled(on)
      PROVE  TypeOK'
      BY <1>1 DEF SetExecutionEnabled, TypeOK
<1>2. ASSUME NEW all \in BOOLEAN, CleanWorktrees(all)
      PROVE  TypeOK'
      BY <1>2 DEF CleanWorktrees, TypeOK
<1>3. CASE StopAll
      BY <1>3, StopRunsType DEF StopAll, TypeOK
<1>4. ASSUME NEW c \in Client, BeginTaskCommand(c)
      PROVE  TypeOK'
      BY <1>4 DEF BeginTaskCommand, TypeOK, Call, Task
<1>5. ASSUME NEW c \in Client, BeginStoryCommand(c)
      PROVE  TypeOK'
      BY <1>5, NoTaskType DEF BeginStoryCommand, TypeOK, Call
<1>6. ASSUME NEW c \in Client, Respond(c)
      PROVE  TypeOK'
      BY <1>6, RespondType
<1>7. QED BY <1>1, <1>2, <1>3, <1>4, <1>5, <1>6 DEF CommandStep

\* Neither a crash nor the recovery after it breaks a type.
LEMMA RestartType ==
    ASSUME TypeOK, Crash \/ Recover
    PROVE  TypeOK'
<1> USE DEF workItems
<1>1. CASE Crash
      BY <1>1, PlanType, PlaceholderTypes DEF Crash, TypeOK, RunRow
<1>2. CASE Recover
  <2>1. \A r \in Run : Closed(run[r], "failed", "null") \in RunRow
        BY ClosedRow DEF TypeOK
  <2>2. QED BY <1>2, <2>1 DEF Recover, Orphaned, TypeOK, TaskStatus
<1>3. QED BY <1>1, <1>2

\* The initial state is well typed.
LEMMA InitType == Init => TypeOK
BY PlanType, PlaceholderTypes
   DEF Init, TypeOK, StoryStatus, TaskStatus, NoPlan

\* Every step keeps the types.
LEMMA NextType == TypeOK /\ [Next]_vars => TypeOK'
<1> SUFFICES ASSUME TypeOK, [Next]_vars
             PROVE  TypeOK'
    OBVIOUS
<1>1. CASE Next
      BY <1>1, SchedulerStepType, AgentStepType, CommandStepType, RestartType
      DEF Next
<1>2. CASE UNCHANGED vars
      BY <1>2 DEF vars, workItems, agents, tick, TypeOK
<1>3. QED BY <1>1, <1>2

\* The state of the daemon is well typed, for any number of stories, tasks,
\* runs and clients.
THEOREM TypeCorrect == Spec => []TypeOK
BY InitType, NextType, PTL DEF Spec
-----------------------------------------------------------------------------
(***************************************************************************)
(* Exit codes.  ExitCodesAreTrue is inductive: an exit code only enters a  *)
(* row from a process that has ended, and a row is only reused when no     *)
(* tick holds what it said before.                                         *)
(***************************************************************************)

\* A row that is started anew was free, so no tick has read it.
LEMMA LaunchKeepsExitCodes ==
    ASSUME TypeOK, ExitCodesAreTrue, NEW t \in Task, NEW ts, NEW a, NEW b,
           NEW pipe \in {"wait", "log"}, Launch(t, ts, a, b, pipe),
           UNCHANGED todo
    PROVE  ExitCodesAreTrue'
<1>1. CASE UNCHANGED run
      BY <1>1 DEF ExitCodesAreTrue
<1>2. CASE StartAgent(t, pipe)
      BY <1>2 DEF StartAgent, ExitCodesAreTrue, TypeOK, RunRow, Entry
<1>3. QED BY <1>1, <1>2 DEF Launch

\* A process ends the way it ended, if it had ended before: its row may be
\* rewritten as long as no success and no exit code 0 is added.
LEMMA ExitKeepsExitCodes ==
    ASSUME TypeOK, ExitCodesAreTrue, NEW r \in Run, NEW outcome \in Outcome,
           Ends(r, outcome), run[r].status # "free", todo' \subseteq todo,
           NEW row \in RunRow, run' = [run EXCEPT ![r] = row],
           row.proc = outcome, row.status # "free",
           row.status # "succeeded" \/ row.status = run[r].status,
           row.code # "zero" \/ row.code = run[r].code
    PROVE  ExitCodesAreTrue'
<1>1. run[r] \in RunRow
      BY DEF TypeOK
<1>2. run[r].proc # "live" => outcome = run[r].proc
      BY DEF Ends
<1>3. QED BY <1>1, <1>2 DEF ExitCodesAreTrue, TypeOK, Entry

\* Stopping agents writes no exit code.
LEMMA StopRunsKeepsExitCodes ==
    ASSUME TypeOK, ExitCodesAreTrue, NEW R \in SUBSET Running, NEW S,
           StopRuns(R, S)
    PROVE  ExitCodesAreTrue'
<1>1. \A r \in Run :
         /\ Closed(run[r], "cancelled", "null").status = "cancelled"
         /\ Closed(run[r], "cancelled", "null").code = "null"
         /\ Closed(run[r], "cancelled", "null").proc = run[r].proc
      BY ClosedRow DEF TypeOK
<1>2. run' = [r \in Run |-> IF r \in R THEN Closed(run[r], "cancelled", "null")
                           ELSE run[r]]
      BY DEF StopRuns
<1>3. UNCHANGED todo
      BY DEF StopRuns, tick
<1>4. QED BY <1>1, <1>2, <1>3 DEF ExitCodesAreTrue, TypeOK, Entry

\* The second half of a command writes no exit code.
LEMMA RespondKeepsExitCodes ==
    ASSUME TypeOK, ExitCodesAreTrue, NEW c \in Client, Respond(c)
    PROVE  ExitCodesAreTrue'
<1>1. call[c].task \in Task
      BY DEF TypeOK, Call
<1>2. ASSUME NEW ts, NEW s \in Story, NEW n \in NextPending(ts, s)
      PROVE  n \in Task
      BY <1>2, FirstWithType DEF NextPending, TasksOf
<1>3. call[c].story \in Story
      BY DEF TypeOK, Call
<1>4. CASE /\ Retry(c) \/ Skip(c) \/ ContinueFailed(c)
                       \/ ContinueCancelled(c)
           /\ UNCHANGED run
      BY <1>4 DEF Retry, Skip, ContinueFailed, ContinueCancelled, agents,
                  tick, ExitCodesAreTrue
<1>5. ASSUME NEW t \in Task, NEW ts, NEW a, NEW b,
             NEW pipe \in {"wait", "log"}, Launch(t, ts, a, b, pipe),
             UNCHANGED tick
      PROVE  ExitCodesAreTrue'
      BY <1>5, LaunchKeepsExitCodes DEF tick
<1>6. CASE Retry(c)
      BY <1>1, <1>4, <1>5, <1>6 DEF Retry
<1>7. CASE Skip(c)
      BY <1>2, <1>3, <1>4, <1>5, <1>7 DEF Skip
<1>8. CASE ContinueFailed(c)
      BY <1>2, <1>3, <1>4, <1>5, <1>8 DEF ContinueFailed
<1>9. CASE ContinueCancelled(c)
      BY <1>4, <1>9 DEF ContinueCancelled, agents
<1>10. CASE Stop(c) \/ Cancel(c)
  <2>1. /\ {r \in Running : run[r].task.story = call[c].story}
              \in SUBSET Running
        /\ {} \in SUBSET Running
        OBVIOUS
  <2>2. QED BY <1>10, <2>1, StopRunsKeepsExitCodes DEF Stop, Cancel
<1>11. QED BY <1>6, <1>7, <1>8, <1>9, <1>10 DEF Respond

\* Every step keeps exit codes true.
LEMMA NextKeepsExitCodes ==
    ASSUME TypeOK, ExitCodesAreTrue, [Next]_vars
    PROVE  ExitCodesAreTrue'
<1> USE DEF agents, tick
<1>1. CASE TickBegin
      BY <1>1 DEF TickBegin, ExitCodesAreTrue, Running, Settled, FreeRow,
                  TypeOK, RunRow
<1>2. CASE ReapAlive
      BY <1>2 DEF ReapAlive, ExitCodesAreTrue
<1>3. CASE ReapSucceeded \/ ReapFailed
  <2>1. PICK e \in todo, status \in {"succeeded", "failed"},
             code \in {"null", "zero", "nonzero"} :
           /\ todo' = todo \ {e}
           /\ run' = [run EXCEPT ![e.run] = Closed(@, status, code)]
           /\ status = "succeeded" \/ code = "zero" => e.code = "zero"
        BY <1>3 DEF ReapSucceeded, ReapFailed, Succeeded, TypeOK, Entry
  <2>2. e.run \in Run /\ run[e.run] \in RunRow
        BY DEF TypeOK, Entry
  <2>3. /\ Closed(run[e.run], status, code).proc = run[e.run].proc
        /\ Closed(run[e.run], status, code).status = status
        /\ Closed(run[e.run], status, code).code = code
        BY <2>2, ClosedRow
  <2>4. QED BY <2>1, <2>2, <2>3 DEF ExitCodesAreTrue, TypeOK, Entry
<1>4. CASE AdvanceStory
      BY <1>4 DEF AdvanceStory, ExitCodesAreTrue
<1>5. CASE FailStory
      BY <1>5 DEF FailStory, ExitCodesAreTrue
<1>6. ASSUME NEW late \in SUBSET Running, CheckTimeouts(late)
      PROVE  ExitCodesAreTrue'
      BY <1>6 DEF CheckTimeouts, ExitCodesAreTrue, Running
<1>7. CASE TimeOut
  <2>1. PICK e \in todo, outcome \in Outcome :
           /\ Ends(e.run, outcome)
           /\ todo' = todo \ {e}
           /\ run' = [run EXCEPT ![e.run] =
                         Closed(Exited(@, outcome), "failed", "null")]
        BY <1>7 DEF TimeOut
  <2>2. e.run \in Run /\ run[e.run] \in RunRow
        /\ run[e.run].status # "free"
        BY DEF TypeOK, Entry, ExitCodesAreTrue
  <2> DEFINE row == Closed(Exited(run[e.run], outcome), "failed", "null")
  <2>3. Exited(run[e.run], outcome) \in RunRow
        /\ Exited(run[e.run], outcome).proc = outcome
        BY <2>2, ExitedRow
  <2>4. /\ row \in RunRow /\ row.proc = outcome
        /\ row.status = "failed" /\ row.code = "null"
        BY <2>3, ClosedRow
  <2>5. run' = [run EXCEPT ![e.run] = row] /\ todo' \subseteq todo
        BY <2>1
  <2> HIDE DEF row
  <2>6. QED BY <2>1, <2>2, <2>4, <2>5, ExitKeepsExitCodes
<1>8. CASE Schedule
      BY <1>8 DEF Schedule, ExitCodesAreTrue
<1>9. CASE StartNextTask
  <2>1. PICK p \in progress :
           \/ Launch(p.task, taskStatus, taskStatus[p.task], "failed",
                     "wait")
           \/ UNCHANGED run
        BY <1>9 DEF StartNextTask
  <2>2. p.task \in Task /\ UNCHANGED todo
        BY <1>9 DEF StartNextTask, TypeOK, ProgressAction
  <2>3. CASE UNCHANGED run
        BY <2>2, <2>3 DEF ExitCodesAreTrue
  <2>4. QED BY <2>1, <2>2, <2>3, LaunchKeepsExitCodes
<1>10. CASE CompleteStory \/ UpdateEpicStatus \/ MarkStoryReady \/ TickEnd
       BY <1>10 DEF CompleteStory, UpdateEpicStatus, MarkStoryReady, TickEnd,
                    ExitCodesAreTrue
<1>11. CASE StartStory
  <2>1. UNCHANGED todo
        BY <1>11 DEF StartStory
  <2>2. CASE UNCHANGED run
        BY <2>1, <2>2 DEF ExitCodesAreTrue
  <2>3. ASSUME NEW s \in Story, NEW n \in NextPending(taskStatus, s),
               Launch(n, [taskStatus EXCEPT ![n] = "in_progress"],
                      "in_progress", "failed", "wait")
        PROVE  ExitCodesAreTrue'
    <3>1. n \in Task
          BY FirstWithType DEF NextPending, TasksOf
    <3>2. QED BY <2>1, <2>3, <3>1, LaunchKeepsExitCodes
  <2>4. QED BY <1>11, <2>2, <2>3
            DEF StartStory, StartStoryFails, StartStoryWorks, TypeOK
<1>12. CASE AgentExit
  <2>1. PICK r \in Used, outcome \in Outcome :
           /\ Ends(r, outcome)
           /\ run' = [run EXCEPT ![r] = Exited(@, outcome)]
        BY <1>12 DEF AgentExit
  <2>2. r \in Run /\ run[r] \in RunRow /\ run[r].status # "free"
        BY DEF Used, TypeOK
  <2>3. todo' \subseteq todo
        BY <1>12 DEF AgentExit
  <2> DEFINE row == Exited(run[r], outcome)
  <2>4. /\ row \in RunRow /\ row.proc = outcome
        /\ row.status = run[r].status /\ row.code = run[r].code
        BY <2>2, ExitedRow
  <2>5. run' = [run EXCEPT ![r] = row]
        BY <2>1
  <2> HIDE DEF row
  <2>6. QED BY <2>1, <2>2, <2>3, <2>4, <2>5, ExitKeepsExitCodes
<1>13. CASE WriteExitCode
  <2>1. PICK r \in Used : /\ run[r].proc # "live"
                          /\ run' = [run EXCEPT ![r] = Waited(@)]
        BY <1>13 DEF WriteExitCode
  <2>2. r \in Run /\ run[r] \in RunRow /\ UNCHANGED todo
        BY <1>13 DEF WriteExitCode, Used, TypeOK
  <2>3. /\ Waited(run[r]).status = run[r].status
        /\ Waited(run[r]).proc = run[r].proc
        /\ Waited(run[r]).code = "zero" => run[r].proc \in {"pass", "quiet"}
        BY <2>1, <2>2, WaitedRow DEF RunRow, Outcome
  <2>4. QED BY <2>1, <2>2, <2>3 DEF ExitCodesAreTrue, TypeOK, Entry
<1>14. ASSUME NEW c \in Client, Respond(c)
       PROVE  ExitCodesAreTrue'
       BY <1>14, RespondKeepsExitCodes
<1>15. CASE StopAll
       BY <1>15, StopRunsKeepsExitCodes DEF StopAll
<1>16. ASSUME NEW c \in Client, BeginTaskCommand(c) \/ BeginStoryCommand(c)
       PROVE  ExitCodesAreTrue'
       BY <1>16 DEF BeginTaskCommand, BeginStoryCommand, ExitCodesAreTrue
<1>17. ASSUME NEW b \in BOOLEAN, SetExecutionEnabled(b) \/ CleanWorktrees(b)
       PROVE  ExitCodesAreTrue'
       BY <1>17 DEF SetExecutionEnabled, CleanWorktrees, ExitCodesAreTrue
<1>18. CASE Crash
       BY <1>18 DEF Crash, ExitCodesAreTrue, TypeOK, RunRow
<1>19. CASE Recover
  <2>1. \A r \in Run : /\ Closed(run[r], "failed", "null").status = "failed"
                       /\ Closed(run[r], "failed", "null").code = "null"
                       /\ Closed(run[r], "failed", "null").proc = run[r].proc
        BY ClosedRow DEF TypeOK
  <2>2. QED BY <1>19, <2>1 DEF Recover, Orphaned, ExitCodesAreTrue, TypeOK, Entry
<1>20. CASE UNCHANGED vars
       BY <1>20 DEF vars, ExitCodesAreTrue
<1>21. CASE SchedulerStep
       BY <1>1, <1>2, <1>3, <1>4, <1>5, <1>6, <1>7, <1>8, <1>9, <1>10,
          <1>11, <1>21 DEF SchedulerStep
<1>22. CASE CommandStep
       BY <1>14, <1>15, <1>16, <1>17, <1>22 DEF CommandStep
<1>23. QED
       BY <1>12, <1>13, <1>18, <1>19, <1>20, <1>21, <1>22
       DEF Next, AgentStep

\* A run that is recorded as succeeded has ended with exit code 0, whatever
\* commands, crashes and late exit codes come in between.
THEOREM SuccessIsTrue == Spec => []SuccessIsExitZero
<1>1. Init => ExitCodesAreTrue
      BY DEF Init, ExitCodesAreTrue, FreeRow
<1>2. TypeOK /\ ExitCodesAreTrue => SuccessIsExitZero
      BY DEF ExitCodesAreTrue, SuccessIsExitZero, Used
<1>3. QED BY <1>1, <1>2, InitType, NextType, NextKeepsExitCodes, PTL DEF Spec
-----------------------------------------------------------------------------
(***************************************************************************)
(* TaskOwnership and VerdictIsFinal.  The inductive invariant is           *)
(* OwnershipInv.  A tick acts on what it read some steps earlier, so the   *)
(* invariant says that these readings are still true: what is left in todo *)
(* is running, a task that progress is to start is in progress and waits   *)
(* for its agent.  A command finds its task as it read it, and works on no *)
(* task that the tick has to do with.                                      *)
(***************************************************************************)

\* The three parts of the invariant only look at this state.
LEMMA OwnershipUnchanged ==
    ASSUME OwnershipInv, UNCHANGED <<taskStatus, run, tick, call>>
    PROVE  OwnershipInv'
BY DEF OwnershipInv, TaskOwnership, TickIsUpToDate, CommandIsAlone, Running,
       Idle, tick

\* Ownership survives when runs are closed, if the tasks of the others stay
\* in progress.
LEMMA ClosingKeepsOwnership ==
    ASSUME TaskOwnership, Running' \subseteq Running,
           \A r \in Running' : /\ run'[r].task = run[r].task
                               /\ taskStatus'[run[r].task] = "in_progress"
    PROVE  TaskOwnership'
BY DEF TaskOwnership

\* Starting an agent, or failing to, touches no other task and no other agent.
LEMMA LaunchLeavesOthers ==
    ASSUME TypeOK, NEW t \in Task, NEW ts \in [Task -> TaskStatus],
           NEW a, NEW b, NEW pipe, Launch(t, ts, a, b, pipe)
    PROVE  /\ \A u \in Task : u # t => taskStatus'[u] = ts[u]
           /\ taskStatus'[t] \in {ts[t], a, b}
           /\ \A r \in Running : run'[r] = run[r]
           /\ Running \subseteq Running'
           /\ \A r \in Running' \ Running : run'[r].task = t
<1>1. CASE StartAgent(t, pipe) /\ taskStatus' = ts
      BY <1>1 DEF StartAgent, Running, TypeOK
<1>2. CASE /\ UNCHANGED run
           /\ \E st \in {a, b} : taskStatus' = [ts EXCEPT ![t] = st]
      BY <1>2 DEF Running
<1>3. QED BY <1>1, <1>2 DEF Launch

\* A task in progress that nobody works on may get an agent.
LEMMA LaunchKeepsOwnership ==
    ASSUME TypeOK, TaskOwnership, NEW t \in Task,
           NEW ts \in [Task -> TaskStatus], NEW a \in TaskStatus,
           NEW b \in TaskStatus, NEW pipe \in {"wait", "log"},
           Launch(t, ts, a, b, pipe),
           ts[t] = "in_progress",
           \A r \in Running : run[r].task # t,
           \A u \in Task : taskStatus[u] = "in_progress" =>
                              ts[u] = "in_progress"
    PROVE  /\ TaskOwnership'
           /\ \A u \in Task : u # t /\ taskStatus[u] = "in_progress" =>
                                 taskStatus'[u] = "in_progress"
           /\ \A r \in Running' : run'[r].task # t =>
                 r \in Running /\ run'[r].task = run[r].task
<1>1. \A r \in Running : run[r].task \in Task
      BY DEF Running, TypeOK, RunRow
<1>2. CASE StartAgent(t, pipe) /\ taskStatus' = ts
  <2>1. PICK q \in Run :
           /\ run[q].status = "free"
           /\ run' = [run EXCEPT ![q] =
                         [task |-> t, status |-> "running", code |-> "null",
                          proc |-> "live", pipe |-> pipe]]
        BY <1>2 DEF StartAgent
  <2>2. /\ Running' = Running \cup {q}
        /\ run'[q].task = t
        /\ \A r \in Running : run'[r].task = run[r].task
        BY <2>1 DEF Running, TypeOK
  <2>3. QED BY <1>1, <1>2, <2>2 DEF TaskOwnership
<1>3. CASE /\ UNCHANGED run
           /\ \E st \in TaskStatus : taskStatus' = [ts EXCEPT ![t] = st]
  <2>1. Running' = Running
        BY <1>3 DEF Running
  <2>2. \A u \in Task : u # t => taskStatus'[u] = ts[u]
        BY <1>3
  <2>3. QED BY <1>1, <1>3, <2>1, <2>2 DEF TaskOwnership
<1>4. QED BY <1>2, <1>3 DEF Launch
-----------------------------------------------------------------------------
(***************************************************************************)
(* The steps of the scheduler loop.                                        *)
(***************************************************************************)

\* A tick leaves the calls as they are, and the failed tasks they are about.
LEMMA TickKeepsCommands ==
    ASSUME TypeOK, CommandIsAlone, pc \notin {"idle", "down"},
           pc' # "down", UNCHANGED call,
           \A t \in Task : taskStatus[t] = "failed" =>
                              taskStatus'[t] = "failed"
    PROVE  CommandIsAlone'
BY DEF CommandIsAlone, Idle, TypeOK, Call

\* Closing a run that the tick has read, and finishing its task.
LEMMA VerdictKeepsOwnership ==
    ASSUME TypeOK, OwnershipInv, NEW e \in todo, NEW row \in RunRow,
           NEW st \in TaskStatus, pc \in {"reap", "timeouts"},
           row.status # "running",
           todo' = todo \ {e},
           run' = [run EXCEPT ![e.run] = row],
           taskStatus' = [taskStatus EXCEPT ![run[e.run].task] = st],
           UNCHANGED <<pc, progress, call>>
    PROVE  OwnershipInv'
<1>1. e.run \in Running /\ \A f \in todo : f.run \in Run
      BY DEF OwnershipInv, TickIsUpToDate, Running, TypeOK, Entry
<1>2. /\ Running' = Running \ {e.run}
      /\ \A r \in Running' : run'[r].task = run[r].task
      BY <1>1 DEF Running, TypeOK
<1>3. \A r \in Running : run[r].task \in Task
      BY DEF Running, TypeOK, RunRow
<1>4. TaskOwnership'
  <2>1. \A r \in Running' : taskStatus'[run[r].task] = "in_progress"
        BY <1>1, <1>2, <1>3 DEF OwnershipInv, TaskOwnership, TypeOK
  <2>2. QED BY <1>2, <2>1, ClosingKeepsOwnership DEF OwnershipInv
<1>5. TickIsUpToDate'
  <2>1. \A f \in todo' : /\ run'[f.run].status = "running"
                         /\ \A g \in todo' : g.run = f.run => g = f
        BY <1>1 DEF OwnershipInv, TickIsUpToDate, TypeOK
  <2>2. ASSUME NEW p \in progress, p.kind = "start"
        PROVE  /\ taskStatus'[p.task] = "in_progress"
               /\ \A r \in Running' : run'[r].task # p.task
    <3>1. /\ taskStatus[p.task] = "in_progress" /\ p.task \in Task
          /\ \A r \in Running : run[r].task # p.task
          BY <2>2 DEF OwnershipInv, TickIsUpToDate, TypeOK, ProgressAction
    <3>2. QED BY <1>1, <1>2, <3>1 DEF TypeOK
  <2>3. QED BY <2>1, <2>2 DEF OwnershipInv, TickIsUpToDate
<1>6. CommandIsAlone'
  <2>1. taskStatus[run[e.run].task] = "in_progress"
        BY <1>1 DEF OwnershipInv, TaskOwnership
  <2>2. \A t \in Task : taskStatus[t] = "failed" =>
                            taskStatus'[t] = "failed"
        BY <2>1 DEF TypeOK
  <2>3. QED BY <2>2, TickKeepsCommands DEF OwnershipInv
<1>7. QED BY <1>4, <1>5, <1>6 DEF OwnershipInv

\* The story moves on: its next task was pending, so nobody worked on it.
LEMMA AdvanceKeepsOwnership ==
    ASSUME TypeOK, OwnershipInv, AdvanceStory
    PROVE  OwnershipInv'
<1> USE DEF agents
<1>1. PICK v \in verdict :
         \/ \E n \in NextTask(taskStatus, v.task) :
               /\ taskStatus' = [taskStatus EXCEPT ![n] = "in_progress"]
               /\ progress' = progress \cup
                     {[by |-> v.by, kind |-> "start", task |-> n]}
         \/ /\ progress' = progress \cup
                  {[by |-> v.by, kind |-> "complete", task |-> v.task]}
            /\ UNCHANGED taskStatus
         \/ UNCHANGED <<taskStatus, progress>>
      BY DEF AdvanceStory
<1>2. pc \notin {"idle", "down", "execute"} /\ verdict' = {}
      BY DEF AdvanceStory, OwnershipInv, TickIsUpToDate
<1>3. UNCHANGED <<run, pc, todo, call>> /\ Running' = Running
      BY DEF AdvanceStory, Running
<1>4. CommandIsAlone'
  <2>1. NextTask(taskStatus, v.task)
           \subseteq {t \in Task : taskStatus[t] = "pending"}
        BY NextTaskType DEF TypeOK, Verdict
  <2>2. \A t \in Task : taskStatus[t] = "failed" =>
                            taskStatus'[t] = "failed"
        BY <1>1, <2>1 DEF TypeOK
  <2>3. QED BY <1>2, <1>3, <2>2, TickKeepsCommands DEF OwnershipInv
<1>5. \A e \in todo' : /\ run'[e.run].status = "running"
                       /\ \A f \in todo' : f.run = e.run => f = e
      BY <1>3 DEF OwnershipInv, TickIsUpToDate
<1>6. ASSUME NEW n \in NextTask(taskStatus, v.task),
             taskStatus' = [taskStatus EXCEPT ![n] = "in_progress"],
             progress' = progress \cup
                {[by |-> v.by, kind |-> "start", task |-> n]}
      PROVE  OwnershipInv'
  <2>1. n \in Task /\ taskStatus[n] = "pending"
        BY NextTaskType DEF TypeOK, Verdict
  <2>2. \A r \in Running : run[r].task \in Task /\ run[r].task # n
        BY <2>1 DEF OwnershipInv, TaskOwnership, Running, TypeOK, RunRow
  <2>3. TaskOwnership'
        BY <1>3, <1>6, <2>2 DEF OwnershipInv, TaskOwnership, TypeOK
  <2>4. ASSUME NEW p \in progress', p.kind = "start"
        PROVE  /\ taskStatus'[p.task] = "in_progress"
               /\ \A r \in Running' : run'[r].task # p.task
               /\ \A q \in progress' :
                     q.kind = "start" /\ q.task = p.task => q = p
    <3>1. \A q \in progress : q.kind = "start" =>
             /\ q.task \in Task
             /\ q.task # n
             /\ taskStatus[q.task] = "in_progress"
             /\ \A r \in Running : run[r].task # q.task
          BY <2>1 DEF OwnershipInv, TickIsUpToDate, TypeOK, ProgressAction
    <3>2. p \in progress \/ p = [by |-> v.by, kind |-> "start", task |-> n]
          BY <1>6
    <3>3. taskStatus'[p.task] = "in_progress"
          BY <1>6, <2>1, <2>4, <3>1, <3>2 DEF TypeOK
    <3>4. \A r \in Running' : run'[r].task # p.task
          BY <1>3, <2>2, <2>4, <3>1, <3>2
    <3>5. \A q \in progress' :
             q.kind = "start" /\ q.task = p.task => q = p
          BY <1>6, <2>4, <3>1, <3>2 DEF OwnershipInv, TickIsUpToDate
    <3>6. QED BY <3>3, <3>4, <3>5
  <2>5. QED BY <1>2, <1>3, <1>4, <1>5, <2>3, <2>4
            DEF OwnershipInv, TickIsUpToDate
<1>7. ASSUME UNCHANGED taskStatus,
             \A p \in progress' : p.kind = "start" => p \in progress
      PROVE  OwnershipInv'
  <2>1. TaskOwnership'
        BY <1>3, <1>7 DEF OwnershipInv, TaskOwnership
  <2>2. TickIsUpToDate'
        BY <1>2, <1>3, <1>5, <1>7 DEF OwnershipInv, TickIsUpToDate
  <2>3. QED BY <1>4, <2>1, <2>2 DEF OwnershipInv
<1>8. QED BY <1>1, <1>6, <1>7

\* The task that waited for its agent gets it.
LEMMA StartNextTaskKeepsOwnership ==
    ASSUME TypeOK, OwnershipInv, StartNextTask
    PROVE  OwnershipInv'
<1>1. PICK p \in progress :
         /\ p.kind = "start"
         /\ progress' = progress \ {p}
         /\ \/ Launch(p.task, taskStatus, taskStatus[p.task], "failed",
                      "wait")
            \/ UNCHANGED <<taskStatus, run>>
      BY DEF StartNextTask
<1>2. /\ pc = "execute" /\ todo = {} /\ verdict = {}
      /\ UNCHANGED <<pc, todo, verdict, call>>
      BY DEF StartNextTask, OwnershipInv, TickIsUpToDate
<1>3. ASSUME \A t \in Task : t # p.task => taskStatus'[t] = taskStatus[t]
      PROVE  CommandIsAlone'
  <2>1. \A t \in Task : taskStatus[t] = "failed" =>
                            taskStatus'[t] = "failed"
        BY <1>1, <1>3 DEF OwnershipInv, TickIsUpToDate
  <2>2. QED BY <1>2, <2>1, TickKeepsCommands DEF OwnershipInv
<1>4. /\ p.task \in Task /\ taskStatus[p.task] = "in_progress"
      /\ \A r \in Running : run[r].task # p.task
      /\ \A q \in progress' : q.kind = "start" =>
            q.task \in Task /\ q.task # p.task
      BY <1>1 DEF OwnershipInv, TickIsUpToDate, TypeOK, ProgressAction
<1>5. CASE UNCHANGED <<taskStatus, run>>
  <2>1. TaskOwnership' /\ Running' = Running
        BY <1>5 DEF OwnershipInv, TaskOwnership, Running
  <2>2. QED BY <1>1, <1>2, <1>3, <1>5, <2>1
            DEF OwnershipInv, TickIsUpToDate
<1>6. CASE Launch(p.task, taskStatus, taskStatus[p.task], "failed", "wait")
  <2>1. /\ TaskOwnership'
        /\ \A u \in Task : u # p.task /\ taskStatus[u] = "in_progress" =>
                              taskStatus'[u] = "in_progress"
        /\ \A r \in Running' : run'[r].task # p.task =>
              r \in Running /\ run'[r].task = run[r].task
        BY <1>4, <1>6, LaunchKeepsOwnership
           DEF OwnershipInv, TypeOK, TaskStatus
  <2>2. \A q \in progress' : q.kind = "start" =>
           /\ taskStatus'[q.task] = "in_progress"
           /\ \A r \in Running' : run'[r].task # q.task
        BY <1>1, <1>4, <2>1 DEF OwnershipInv, TickIsUpToDate
  <2>3. \A t \in Task : t # p.task => taskStatus'[t] = taskStatus[t]
        BY <1>4, <1>6, LaunchLeavesOthers DEF TypeOK
  <2>4. QED BY <1>1, <1>2, <1>3, <2>1, <2>2, <2>3
            DEF OwnershipInv, TickIsUpToDate
<1>7. QED BY <1>1, <1>5, <1>6

\* The first task of a story that starts was pending.
LEMMA StartStoryKeepsOwnership ==
    ASSUME TypeOK, OwnershipInv, StartStory
    PROVE  OwnershipInv'
<1>1. PICK s \in plan.start :
         \/ UNCHANGED <<taskStatus, run>>
         \/ \E n \in NextPending(taskStatus, s) :
               Launch(n, [taskStatus EXCEPT ![n] = "in_progress"],
                      "in_progress", "failed", "wait")
      BY DEF StartStory, StartStoryFails, StartStoryWorks
<1>2. /\ pc = "execute" /\ todo = {} /\ verdict = {} /\ progress = {}
      /\ UNCHANGED <<pc, todo, verdict, progress, call>>
      BY DEF StartStory, OwnershipInv, TickIsUpToDate
<1>3. ASSUME \A t \in Task : taskStatus[t] = "failed" =>
                                taskStatus'[t] = "failed"
      PROVE  CommandIsAlone'
      BY <1>2, <1>3, TickKeepsCommands DEF OwnershipInv
<1>4. CASE UNCHANGED <<taskStatus, run>>
      BY <1>2, <1>3, <1>4
      DEF OwnershipInv, TaskOwnership, TickIsUpToDate, Running
<1>5. ASSUME NEW n \in NextPending(taskStatus, s),
             Launch(n, [taskStatus EXCEPT ![n] = "in_progress"],
                    "in_progress", "failed", "wait")
      PROVE  OwnershipInv'
  <2>1. n \in Task /\ taskStatus[n] = "pending"
        BY FirstWithType DEF NextPending, TasksOf, TypeOK
  <2>2. TaskOwnership'
    <3> DEFINE ts == [taskStatus EXCEPT ![n] = "in_progress"]
    <3>1. /\ ts \in [Task -> TaskStatus] /\ ts[n] = "in_progress"
          /\ \A u \in Task : taskStatus[u] = "in_progress" =>
                               ts[u] = "in_progress"
          BY <2>1 DEF TypeOK, TaskStatus
    <3>2. \A r \in Running : run[r].task # n
          BY <2>1 DEF OwnershipInv, TaskOwnership
    <3>3. Launch(n, ts, "in_progress", "failed", "wait")
          BY <1>5
    <3> HIDE DEF ts
    <3>4. QED BY <2>1, <3>1, <3>2, <3>3, LaunchKeepsOwnership
              DEF OwnershipInv, TaskStatus
  <2>3. \A t \in Task : taskStatus[t] = "failed" =>
                            taskStatus'[t] = "failed"
    <3> DEFINE ts == [taskStatus EXCEPT ![n] = "in_progress"]
    <3>1. ts \in [Task -> TaskStatus]
          BY DEF TypeOK, TaskStatus
    <3>2. \A t \in Task : t # n => ts[t] = taskStatus[t]
          BY DEF TypeOK
    <3>3. Launch(n, ts, "in_progress", "failed", "wait")
          BY <1>5
    <3> HIDE DEF ts
    <3>4. QED BY <2>1, <3>1, <3>2, <3>3, LaunchLeavesOthers
  <2>4. QED BY <1>2, <1>3, <2>2, <2>3 DEF OwnershipInv, TickIsUpToDate
<1>6. QED BY <1>1, <1>4, <1>5

\* The steps of the scheduler loop keep the invariant.
LEMMA SchedulerKeepsOwnership ==
    ASSUME TypeOK, OwnershipInv, SchedulerStep
    PROVE  OwnershipInv'
<1> USE DEF workItems, agents, tick
<1>1. CASE TickBegin
  <2>1. Overlap \/ \A c \in Client : Idle(c)
        BY <1>1 DEF TickBegin
  <2>2. /\ Running' = Running
        /\ \A r \in Running : run'[r] = run[r]
        BY <1>1 DEF TickBegin, Running, Settled, FreeRow, TypeOK
  <2>3. /\ progress = {} /\ verdict = {} /\ pc' = "reap"
        /\ UNCHANGED <<progress, verdict, call, taskStatus>>
        /\ todo' = {[run |-> r, code |-> run[r].code] : r \in Running}
        BY <1>1 DEF TickBegin, OwnershipInv, TickIsUpToDate
  <2>4. TaskOwnership'
        BY <2>2, <2>3 DEF OwnershipInv, TaskOwnership
  <2>5. TickIsUpToDate'
        BY <2>2, <2>3 DEF TickIsUpToDate, Running
  <2>6. CommandIsAlone'
        BY <2>1, <2>3 DEF OwnershipInv, CommandIsAlone, Idle
  <2>7. QED BY <2>4, <2>5, <2>6 DEF OwnershipInv
<1>2. CASE ReapAlive
      BY <1>2 DEF ReapAlive, OwnershipInv, TaskOwnership, TickIsUpToDate,
                  CommandIsAlone, Running, Idle
<1>3. CASE ReapSucceeded \/ ReapFailed
  <2>1. PICK e \in todo, status \in {"succeeded", "failed"},
             code \in {"null", "zero", "nonzero"},
             st \in {"done", "failed"} :
           /\ todo' = todo \ {e}
           /\ run' = [run EXCEPT ![e.run] = Closed(@, status, code)]
           /\ taskStatus' = [taskStatus EXCEPT ![run[e.run].task] = st]
        BY <1>3 DEF ReapSucceeded, ReapFailed, TypeOK, Entry
  <2>2. run[e.run] \in RunRow
        BY DEF TypeOK, Entry
  <2> DEFINE row == Closed(run[e.run], status, code)
  <2>3. row \in RunRow /\ row.status # "running"
        BY <2>2, ClosedRow
  <2>4. run' = [run EXCEPT ![e.run] = row] /\ st \in TaskStatus
        BY <2>1 DEF TaskStatus
  <2>5. pc = "reap" /\ UNCHANGED <<pc, progress, call>>
        BY <1>3 DEF ReapSucceeded, ReapFailed
  <2> HIDE DEF row
  <2>6. QED BY <2>1, <2>3, <2>4, <2>5, VerdictKeepsOwnership
<1>4. CASE AdvanceStory
      BY <1>4, AdvanceKeepsOwnership
<1>5. CASE FailStory
      BY <1>5 DEF FailStory, OwnershipInv, TaskOwnership, TickIsUpToDate,
                  CommandIsAlone, Running, Idle
<1>6. ASSUME NEW late \in SUBSET Running, CheckTimeouts(late)
      PROVE  OwnershipInv'
  <2>1. /\ pc = "reap" /\ pc' = "timeouts" /\ Running' = Running
        /\ UNCHANGED <<run, taskStatus, progress, call>>
        /\ todo' = {[run |-> r, code |-> run[r].code] : r \in late}
        BY <1>6 DEF CheckTimeouts, Running
  <2>2. TaskOwnership'
        BY <2>1 DEF OwnershipInv, TaskOwnership
  <2>3. TickIsUpToDate'
        BY <2>1 DEF OwnershipInv, TickIsUpToDate, Running
  <2>4. QED BY <2>1, <2>2, <2>3, TickKeepsCommands DEF OwnershipInv
<1>7. CASE TimeOut
  <2>1. PICK e \in todo, outcome \in Outcome :
           /\ todo' = todo \ {e}
           /\ run' = [run EXCEPT ![e.run] =
                         Closed(Exited(@, outcome), "failed", "null")]
           /\ taskStatus' = [taskStatus EXCEPT ![run[e.run].task] = "failed"]
        BY <1>7 DEF TimeOut
  <2>2. run[e.run] \in RunRow
        BY DEF TypeOK, Entry
  <2> DEFINE row == Closed(Exited(run[e.run], outcome), "failed", "null")
  <2>3. row \in RunRow /\ row.status # "running"
    <3>1. Exited(run[e.run], outcome) \in RunRow
          BY <2>2, ExitedRow
    <3>2. QED BY <3>1, ClosedRow
  <2>4. run' = [run EXCEPT ![e.run] = row] /\ "failed" \in TaskStatus
        BY <2>1 DEF TaskStatus
  <2>5. pc = "timeouts" /\ UNCHANGED <<pc, progress, call>>
        BY <1>7 DEF TimeOut
  <2> HIDE DEF row
  <2>6. QED BY <2>1, <2>3, <2>4, <2>5, VerdictKeepsOwnership
<1>8. CASE Schedule
      BY <1>8 DEF Schedule, OwnershipInv, TaskOwnership, TickIsUpToDate,
                  CommandIsAlone, Running, Idle
<1>9. CASE StartNextTask
      BY <1>9, StartNextTaskKeepsOwnership
<1>10. CASE CompleteStory
       BY <1>10 DEF CompleteStory, OwnershipInv, TaskOwnership,
                    TickIsUpToDate, CommandIsAlone, Running, Idle
<1>11. CASE UpdateEpicStatus \/ MarkStoryReady \/ TickEnd
       BY <1>11 DEF UpdateEpicStatus, MarkStoryReady, TickEnd, OwnershipInv,
                    TaskOwnership, TickIsUpToDate, CommandIsAlone, Running,
                    Idle
<1>12. CASE StartStory
       BY <1>12, StartStoryKeepsOwnership
<1>13. QED
       BY <1>1, <1>2, <1>3, <1>4, <1>5, <1>6, <1>7, <1>8, <1>9, <1>10,
          <1>11, <1>12 DEF SchedulerStep
-----------------------------------------------------------------------------
(***************************************************************************)
(* Agents, commands and restarts.                                          *)
(***************************************************************************)

\* A process that ends and an exit code that comes in change no status.
LEMMA AgentKeepsOwnership ==
    ASSUME TypeOK, OwnershipInv, AgentStep
    PROVE  OwnershipInv'
<1> USE DEF workItems, tick
<1>1. PICK r \in Used, row \in RunRow :
         /\ run' = [run EXCEPT ![r] = row]
         /\ row.task = run[r].task /\ row.status = run[r].status
  <2>1. ASSUME NEW r \in Used
        PROVE  /\ run[r] \in RunRow
               /\ Waited(run[r]) \in RunRow
               /\ Waited(run[r]).task = run[r].task
               /\ Waited(run[r]).status = run[r].status
        BY WaitedRow DEF Used, TypeOK
  <2>2. ASSUME NEW r \in Used, NEW outcome \in Outcome
        PROVE  /\ Exited(run[r], outcome) \in RunRow
               /\ Exited(run[r], outcome).task = run[r].task
               /\ Exited(run[r], outcome).status = run[r].status
        BY <2>1, ExitedRow
  <2>3. CASE AgentExit
        BY <2>2, <2>3 DEF AgentExit
  <2>4. CASE WriteExitCode
        BY <2>1, <2>4 DEF WriteExitCode
  <2>5. QED BY <2>3, <2>4 DEF AgentStep
<1>2. /\ Running' = Running
      /\ \A q \in Run : /\ run'[q].task = run[q].task
                        /\ run'[q].status = run[q].status
      BY <1>1 DEF Running, Used, TypeOK
<1>3. UNCHANGED <<taskStatus, pc, todo, verdict, progress, call>>
      BY DEF AgentStep, AgentExit, WriteExitCode
<1>4. \A e \in todo : e.run \in Run
      BY DEF TypeOK, Entry
<1>5. TaskOwnership'
      BY <1>2, <1>3 DEF OwnershipInv, TaskOwnership, Running
<1>6. TickIsUpToDate'
      BY <1>2, <1>3, <1>4 DEF OwnershipInv, TickIsUpToDate, Running
<1>7. CommandIsAlone'
      BY <1>3 DEF OwnershipInv, CommandIsAlone, Idle
<1>8. QED BY <1>5, <1>6, <1>7 DEF OwnershipInv

\* exec.stop takes the task of every agent it stops, and no other agent has
\* the same task.
LEMMA StopRunsKeepsOwnership ==
    ASSUME TypeOK, OwnershipInv, NEW R \in SUBSET Running, NEW S,
           StopRuns(R, S)
    PROVE  TaskOwnership'
<1>1. \A r \in Run :
         /\ Closed(run[r], "cancelled", "null").task = run[r].task
         /\ Closed(run[r], "cancelled", "null").status = "cancelled"
      BY ClosedRow DEF TypeOK
<1>2. run' = [r \in Run |-> IF r \in R
                           THEN Closed(run[r], "cancelled", "null")
                           ELSE run[r]]
      BY DEF StopRuns
<1>3. /\ Running' = Running \ R
      /\ \A r \in Running' : run'[r].task = run[r].task
      BY <1>1, <1>2 DEF Running
<1>4. ASSUME NEW r \in Running \ R
      PROVE  taskStatus'[run[r].task] = "in_progress"
  <2>1. /\ run[r].task \in Task
        /\ taskStatus[run[r].task] = "in_progress"
        /\ \A q \in R : run[q].task # run[r].task
        BY <1>4 DEF OwnershipInv, TaskOwnership, Running, TypeOK, RunRow
  <2>2. QED BY <2>1 DEF StopRuns
<1>5. QED BY <1>3, <1>4, ClosingKeepsOwnership DEF OwnershipInv

\* What a command that stops nobody does to those at work: they keep agent and
\* status, and who is added works on a task that nobody worked on.
WorkGoesOn ==
    /\ \A r \in Running : run'[r] = run[r]
    /\ \A u \in Task : taskStatus[u] = "in_progress" =>
                          taskStatus'[u] = "in_progress"
    /\ \A r \in Running' \ Running :
          taskStatus[run'[r].task] # "in_progress"

\* A tick in the middle of which that happens is not outdated by it.
LEMMA WorkGoesOnInTick ==
    ASSUME TypeOK, TickIsUpToDate, WorkGoesOn, UNCHANGED tick
    PROVE  TickIsUpToDate'
<1>1. \A e \in todo : e.run \in Running /\ run'[e.run].status = "running"
      BY DEF TickIsUpToDate, WorkGoesOn, Running, TypeOK, Entry
<1>2. ASSUME NEW p \in progress, p.kind = "start"
      PROVE  /\ taskStatus'[p.task] = "in_progress"
             /\ \A r \in Running' : run'[r].task # p.task
  <2>1. p.task \in Task /\ taskStatus[p.task] = "in_progress"
        BY <1>2 DEF TickIsUpToDate, TypeOK, ProgressAction
  <2>2. QED BY <1>2, <2>1 DEF TickIsUpToDate, WorkGoesOn
<1>3. QED BY <1>1, <1>2 DEF TickIsUpToDate, tick

\* A command that launches an agent does so for a task that was not in
\* progress, after writes that take no task out of progress.
LEMMA CommandLaunchKeepsOwnership ==
    ASSUME TypeOK, TaskOwnership, NEW t \in Task,
           NEW ts \in [Task -> TaskStatus],
           taskStatus[t] # "in_progress",
           \A u \in Task : taskStatus[u] = "in_progress" =>
                              ts[u] = "in_progress",
           NEW a \in TaskStatus, NEW b \in TaskStatus,
           NEW pipe \in {"wait", "log"},
           \/ Launch(t, [ts EXCEPT ![t] = "in_progress"], a, b, pipe)
           \/ /\ taskStatus' = [ts EXCEPT ![t] = "in_progress"]
              /\ UNCHANGED run
    PROVE  TaskOwnership' /\ WorkGoesOn
<1> DEFINE started == [ts EXCEPT ![t] = "in_progress"]
<1>1. /\ started \in [Task -> TaskStatus] /\ started[t] = "in_progress"
      /\ \A u \in Task : taskStatus[u] = "in_progress" =>
                           started[u] = "in_progress"
      BY DEF TaskStatus
<1>2. \A r \in Running : run[r].task \in Task /\ run[r].task # t
      BY DEF TaskOwnership, Running, TypeOK, RunRow
<1>3. CASE Launch(t, started, a, b, pipe)
  <2> HIDE DEF started
  <2>1. TaskOwnership'
        BY <1>1, <1>2, <1>3, LaunchKeepsOwnership
  <2>2. WorkGoesOn
        BY <1>1, <1>3, LaunchLeavesOthers DEF WorkGoesOn
  <2>3. QED BY <2>1, <2>2
<1>4. CASE taskStatus' = started /\ UNCHANGED run
  <2> HIDE DEF started
  <2>1. TaskOwnership'
        BY <1>1, <1>2, <1>4 DEF TaskOwnership, Running
  <2>2. WorkGoesOn
        BY <1>1, <1>4 DEF WorkGoesOn, Running
  <2>3. QED BY <2>1, <2>2
<1>5. QED BY <1>3, <1>4

\* The second half of a command leaves every agent its task.
LEMMA RespondKeepsOwnership ==
    ASSUME TypeOK, OwnershipInv, NEW c \in Client, Respond(c)
    PROVE  TaskOwnership' /\ (WorkGoesOn \/ call[c].op \in {"stop", "cancel"})
<1> DEFINE s == call[c].story
           t == call[c].task
           KeepsProgress(ts) ==
              /\ ts \in [Task -> TaskStatus]
              /\ \A u \in Task : taskStatus[u] = "in_progress" <=>
                                    ts[u] = "in_progress"
<1>1. s \in Story /\ t \in Task
      BY DEF TypeOK, Call
<1>2. TaskOwnership /\ KeepsProgress(taskStatus)
      BY DEF OwnershipInv, TypeOK
<1>3. ASSUME NEW ts, KeepsProgress(ts), taskStatus' = ts, UNCHANGED run
      PROVE  TaskOwnership' /\ WorkGoesOn
      BY <1>2, <1>3 DEF TaskOwnership, WorkGoesOn, Running, TypeOK, RunRow
<1>4. ASSUME NEW ts, KeepsProgress(ts), NEW n \in NextPending(ts, s)
      PROVE  n \in Task /\ taskStatus[n] # "in_progress"
      BY <1>1, <1>4, FirstWithType DEF NextPending, TasksOf
<1>5. CASE Retry(c)
  <2>1. taskStatus[t] = "failed"
        BY <1>5 DEF Retry, OwnershipInv, CommandIsAlone
  <2>2. \/ Launch(t, [taskStatus EXCEPT ![t] = "in_progress"],
                  "in_progress", "failed", "wait")
        \/ /\ taskStatus' = [taskStatus EXCEPT ![t] = "in_progress"]
           /\ UNCHANGED run
        BY <1>5 DEF Retry
  <2>3. QED BY <1>1, <1>2, <2>1, <2>2, CommandLaunchKeepsOwnership
            DEF TaskStatus
<1>6. CASE Skip(c)
  <2> DEFINE ts == Skipped(taskStatus, t)
  <2>1. KeepsProgress(ts)
    <3>1. taskStatus[t] = "failed"
          BY <1>6 DEF Skip, OwnershipInv, CommandIsAlone
    <3>2. QED BY <1>1, <3>1, SkippedKeepsProgress DEF TypeOK
  <2>2. \/ \E n \in NextPending(ts, s) :
              \/ Launch(n, [ts EXCEPT ![n] = "in_progress"],
                        "in_progress", "pending", "log")
              \/ /\ taskStatus' = [ts EXCEPT ![n] = "in_progress"]
                 /\ UNCHANGED run
        \/ taskStatus' = ts /\ UNCHANGED run
        BY <1>6 DEF Skip
  <2> HIDE DEF ts
  <2>3. QED BY <1>2, <1>3, <1>4, <2>1, <2>2, CommandLaunchKeepsOwnership
            DEF TaskStatus
<1>7. CASE ContinueFailed(c)
  <2>1. PICK ts : /\ KeepsProgress(ts)
                  /\ \/ \E n \in NextPending(ts, s) :
                           \/ Launch(n, [ts EXCEPT ![n] = "in_progress"],
                                     "pending", "pending", "wait")
                           \/ /\ taskStatus' =
                                    [ts EXCEPT ![n] = "in_progress"]
                              /\ UNCHANGED run
                     \/ taskStatus' = ts /\ UNCHANGED run
    <3>1. \A u \in FirstWith(taskStatus, s, "failed") :
             KeepsProgress(Skipped(taskStatus, u))
      <4>1. ASSUME NEW u \in FirstWith(taskStatus, s, "failed")
            PROVE  u \in Task /\ taskStatus[u] = "failed"
            BY <1>1, FirstWithType DEF TasksOf
      <4>2. QED BY <4>1, SkippedKeepsProgress DEF TypeOK
    <3> HIDE DEF KeepsProgress
    <3>2. QED BY <1>2, <1>7, <3>1 DEF ContinueFailed
  <2>2. QED BY <1>2, <1>3, <1>4, <2>1, CommandLaunchKeepsOwnership
            DEF TaskStatus
<1>8. CASE ContinueCancelled(c)
  <2>1. UNCHANGED run
        BY <1>8 DEF ContinueCancelled, agents
  <2>2. \A u \in Task : taskStatus[u] = "in_progress" =>
                            taskStatus'[u] = "in_progress"
        BY <1>8 DEF ContinueCancelled, Rewrite
  <2>3. QED BY <1>2, <2>1, <2>2
            DEF TaskOwnership, WorkGoesOn, Running, TypeOK, RunRow
<1>9. CASE Stop(c) \/ Cancel(c)
  <2>1. /\ {r \in Running : run[r].task.story = call[c].story}
              \in SUBSET Running
        /\ {} \in SUBSET Running
        OBVIOUS
  <2>2. TaskOwnership'
        BY <1>9, <2>1, StopRunsKeepsOwnership DEF Stop, Cancel
  <2>3. QED BY <1>9, <2>2 DEF Stop, Cancel
<1>10. QED BY <1>5, <1>6, <1>7, <1>8, <1>9 DEF Respond

\* Commands keep the invariant: they find the tick between two rounds, or they
\* leave alone what it has to do with.
LEMMA CommandKeepsOwnership ==
    ASSUME CommandsTakeTurns, TypeOK, OwnershipInv, CommandStep
    PROVE  OwnershipInv'
<1> USE DEF workItems, agents, tick
<1>1. ASSUME pc = "idle", UNCHANGED <<pc, todo, verdict, progress>>
      PROVE  TickIsUpToDate'
      BY <1>1 DEF OwnershipInv, TickIsUpToDate
<1>2. ASSUME NEW b \in BOOLEAN, SetExecutionEnabled(b) \/ CleanWorktrees(b)
      PROVE  OwnershipInv'
      BY <1>2, OwnershipUnchanged DEF SetExecutionEnabled, CleanWorktrees
<1>3. CASE StopAll
  <2>1. TaskOwnership'
        BY <1>3, StopRunsKeepsOwnership DEF StopAll
  <2>2. /\ pc = "idle" /\ ~Overlap /\ \A c \in Client : Idle(c)
        /\ UNCHANGED <<pc, todo, verdict, progress, call>>
        BY <1>3 DEF StopAll, StopRuns, CommandsMayRun, CommandsTakeTurns
  <2>3. CommandIsAlone'
        BY <2>2 DEF CommandIsAlone, Idle
  <2>4. QED BY <1>1, <2>1, <2>2, <2>3 DEF OwnershipInv
<1>4. ASSUME NEW c \in Client, BeginTaskCommand(c) \/ BeginStoryCommand(c)
      PROVE  OwnershipInv'
  <2>1. /\ pc = "idle" \/ (Overlap /\ pc # "down")
        /\ \A d \in Client : Idle(d) \/ d = c
        /\ UNCHANGED <<pc, todo, verdict, progress, taskStatus, run>>
        BY <1>4 DEF BeginTaskCommand, BeginStoryCommand, CommandsMayRun,
                    CommandsTakeTurns
  <2>2. TaskOwnership' /\ TickIsUpToDate'
        BY <2>1 DEF OwnershipInv, TaskOwnership, TickIsUpToDate, Running
  <2>3. PICK k \in Call :
           /\ call' = [call EXCEPT ![c] = k]
           /\ k.op \in {"retry", "skip"} =>
                 taskStatus[k.task] = "failed" /\ k.story = k.task.story
           /\ Overlap => k.op \in {"retry", "skip"}
    <3>1. CASE BeginTaskCommand(c)
      <4>1. \A op \in {"retry", "skip"} : Accepts(op) = {"failed"}
            BY DEF Accepts
      <4>2. PICK op \in {"retry", "skip"}, u \in Task :
               /\ taskStatus[u] \in Accepts(op)
               /\ call' = [call EXCEPT ![c] =
                              [op |-> op, story |-> u.story, task |-> u,
                               seen |-> storyStatus[u.story],
                               tree |-> worktree[u.story]]]
            BY <3>1 DEF BeginTaskCommand
      <4>3. [op |-> op, story |-> u.story, task |-> u,
             seen |-> storyStatus[u.story], tree |-> worktree[u.story]]
               \in Call
            BY DEF Call, TypeOK, Task
      <4>4. QED BY <4>1, <4>2, <4>3
    <3>2. CASE BeginStoryCommand(c)
      <4>1. ~Overlap
            BY <3>2 DEF BeginStoryCommand, CommandsTakeTurns
      <4>2. QED BY <3>2, <4>1, NoTaskType DEF BeginStoryCommand, Call, TypeOK
    <3>3. QED BY <1>4, <3>1, <3>2
  <2>4. /\ call'[c] = k
        /\ \A d \in Client : d # c => Idle(d) /\ call'[d] = call[d]
        BY <2>1, <2>3 DEF TypeOK
  <2>5. CommandIsAlone'
        BY <2>1, <2>3, <2>4 DEF CommandIsAlone, Idle
  <2>6. QED BY <2>2, <2>5 DEF OwnershipInv
<1>5. ASSUME NEW c \in Client, Respond(c)
      PROVE  OwnershipInv'
  <2>1. ~Idle(c) /\ call' = [call EXCEPT ![c] = NoCall]
        /\ UNCHANGED <<pc, todo, verdict, progress, plan>>
        BY <1>5 DEF Respond, Retry, Skip, ContinueFailed, ContinueCancelled,
                    Stop, Cancel, StopRuns, Answer, Idle
  <2>2. /\ pc = "idle" \/ (Overlap /\ pc # "down")
        /\ \A d \in Client : ~Idle(d) => d = c
        /\ Overlap => call[c].op \in {"none", "retry", "skip"}
        BY <2>1 DEF OwnershipInv, CommandIsAlone
  <2>3. TaskOwnership' /\ (WorkGoesOn \/ call[c].op \in {"stop", "cancel"})
        BY <1>5, RespondKeepsOwnership
  <2>4. TickIsUpToDate'
    <3>1. CASE pc = "idle"
          BY <1>1, <2>1, <3>1
    <3>2. CASE pc # "idle"
          BY <2>1, <2>2, <2>3, <3>2, WorkGoesOnInTick DEF OwnershipInv
    <3>3. QED BY <3>1, <3>2
  <2>5. \A d \in Client : call'[d].op = "none"
        BY <2>1, <2>2 DEF CommandIsAlone, Idle, NoCall, TypeOK, Call
  <2>6. CommandIsAlone'
        BY <2>5 DEF CommandIsAlone, Idle
  <2>7. QED BY <2>3, <2>4, <2>6 DEF OwnershipInv
<1>6. QED BY <1>2, <1>3, <1>4, <1>5 DEF CommandStep

\* A crash forgets all that was read; recovery takes the task of no survivor.
LEMMA RestartKeepsOwnership ==
    ASSUME TypeOK, OwnershipInv, Crash \/ Recover
    PROVE  OwnershipInv'
<1> USE DEF workItems
<1>1. CASE Crash
  <2>1. \A r \in Run : /\ run'[r].status = run[r].status
                       /\ run'[r].task = run[r].task
        BY <1>1 DEF Crash, TypeOK, RunRow
  <2>2. TaskOwnership'
        BY <1>1, <2>1 DEF Crash, OwnershipInv, TaskOwnership, Running
  <2>3. TickIsUpToDate' /\ CommandIsAlone'
        BY <1>1 DEF Crash, TickIsUpToDate, CommandIsAlone, Idle, NoCall
  <2>4. QED BY <2>2, <2>3 DEF OwnershipInv
<1>2. CASE Recover
  <2> DEFINE gone == {r \in Running : run[r].proc # "live"}
  <2>1. \A r \in Run :
           /\ Closed(run[r], "failed", "null").task = run[r].task
           /\ Closed(run[r], "failed", "null").status = "failed"
        BY ClosedRow DEF TypeOK
  <2>2. /\ Running' = Running \ gone
        /\ \A r \in Running' : run'[r].task = run[r].task
        BY <1>2, <2>1 DEF Recover, Orphaned, Running
  <2>3. ASSUME NEW r \in Running \ gone
        PROVE  taskStatus'[run[r].task] = "in_progress"
    <3>1. /\ run[r].task \in Task
          /\ taskStatus[run[r].task] = "in_progress"
          /\ \A q \in gone : run[q].task # run[r].task
          BY <2>3 DEF OwnershipInv, TaskOwnership, Running, TypeOK, RunRow
    <3>2. run[r].task \in {run[q].task : q \in Running \ gone}
          OBVIOUS
    <3>3. QED BY <1>2, <3>1, <3>2 DEF Recover, Orphaned
  <2>4. TaskOwnership'
        BY <2>2, <2>3, ClosingKeepsOwnership DEF OwnershipInv
  <2>5. /\ pc = "down" /\ pc' = "idle"
        /\ UNCHANGED <<todo, verdict, progress, call>>
        BY <1>2 DEF Recover, Orphaned
  <2>6. TickIsUpToDate'
        BY <2>5 DEF OwnershipInv, TickIsUpToDate
  <2>7. CommandIsAlone'
        BY <2>5 DEF OwnershipInv, CommandIsAlone, Idle, TypeOK, Call
  <2>8. QED BY <2>4, <2>6, <2>7 DEF OwnershipInv
<1>3. QED BY <1>1, <1>2
-----------------------------------------------------------------------------
\* The initial state has no agents and no commands.
LEMMA InitOwnership == Init => OwnershipInv
BY DEF Init, OwnershipInv, TaskOwnership, TickIsUpToDate, CommandIsAlone,
       Running, FreeRow, Idle, NoCall

\* Every step keeps the invariant.
LEMMA NextKeepsOwnership ==
    ASSUME CommandsTakeTurns, TypeOK, OwnershipInv, [Next]_vars
    PROVE  OwnershipInv'
<1>1. CASE UNCHANGED vars
      BY <1>1, OwnershipUnchanged DEF vars, workItems, agents
<1>2. QED
      BY <1>1, SchedulerKeepsOwnership, AgentKeepsOwnership,
         CommandKeepsOwnership, RestartKeepsOwnership DEF Next

\* When commands take turns, what a tick or a command has read of agents and
\* their tasks is still so when it acts on it, and no agent is lost.
THEOREM NobodyLosesAnAgent ==
    ASSUME CommandsTakeTurns
    PROVE  Spec => []OwnershipInv
<1>1. TypeOK /\ OwnershipInv /\ [Next]_vars => OwnershipInv'
      BY NextKeepsOwnership
<1>2. QED BY <1>1, InitType, NextType, InitOwnership, PTL DEF Spec

\* When commands take turns, a task with a running agent is in progress and the
\* agent is the only one on it, for any number of stories, tasks, agents and
\* clients, whatever fails.
THEOREM AgentsOwnTheirTasks ==
    ASSUME CommandsTakeTurns
    PROVE  Spec => []TaskOwnership
<1>1. OwnershipInv => TaskOwnership
      BY DEF OwnershipInv
<1>2. QED BY <1>1, NobodyLosesAnAgent, PTL
-----------------------------------------------------------------------------
(***************************************************************************)
(* VerdictIsFinal, from the same invariant: the reaper and the timeouts    *)
(* only close runs that are still running.                                 *)
(***************************************************************************)

\* What a step may do to the status of a run that is over.
KeepsVerdicts ==
    \A r \in Used : run[r].status # "running" =>
       run'[r].status \in {"free", run[r].status}

\* An agent is started in a row that was free.
LEMMA LaunchKeepsVerdicts ==
    ASSUME TypeOK, NEW t, NEW ts, NEW a, NEW b, NEW pipe,
           Launch(t, ts, a, b, pipe)
    PROVE  KeepsVerdicts
BY DEF Launch, StartAgent, KeepsVerdicts, Used, TypeOK

\* Only a run that is running is closed.
LEMMA ClosingKeepsVerdicts ==
    ASSUME TypeOK, NEW r, run[r].status = "running", NEW row,
           run' = [run EXCEPT ![r] = row]
    PROVE  KeepsVerdicts
BY DEF KeepsVerdicts, Used, TypeOK

\* No step of the daemon or of an agent changes a verdict.
LEMMA NextKeepsVerdicts ==
    ASSUME TypeOK, OwnershipInv, [Next]_vars
    PROVE  KeepsVerdicts
<1> USE DEF workItems, agents, tick
<1>1. ASSUME UNCHANGED run
      PROVE  KeepsVerdicts
      BY <1>1 DEF KeepsVerdicts
<1>2. \A e \in todo : run[e.run].status = "running"
      BY DEF OwnershipInv, TickIsUpToDate
<1>3. CASE SchedulerStep
  <2>1. CASE TickBegin
        BY <2>1 DEF TickBegin, KeepsVerdicts, Used, FreeRow
  <2>2. CASE ReapSucceeded \/ ReapFailed \/ TimeOut
    <3>1. PICK e \in todo : \E row : run' = [run EXCEPT ![e.run] = row]
          BY <2>2 DEF ReapSucceeded, ReapFailed, TimeOut
    <3>2. QED BY <1>2, <3>1, ClosingKeepsVerdicts
  <2>3. CASE StartNextTask
        BY <1>1, <2>3, LaunchKeepsVerdicts DEF StartNextTask
  <2>4. CASE StartStory
        BY <1>1, <2>4, LaunchKeepsVerdicts
        DEF StartStory, StartStoryFails, StartStoryWorks
  <2>5. CASE \/ ReapAlive \/ AdvanceStory \/ FailStory \/ Schedule
             \/ \E late \in SUBSET Running : CheckTimeouts(late)
             \/ CompleteStory \/ UpdateEpicStatus \/ MarkStoryReady
             \/ TickEnd
        BY <1>1, <2>5 DEF ReapAlive, AdvanceStory, FailStory, Schedule,
           CheckTimeouts, CompleteStory, UpdateEpicStatus, MarkStoryReady,
           TickEnd
  <2>6. QED BY <1>3, <2>1, <2>2, <2>3, <2>4, <2>5 DEF SchedulerStep
<1>4. CASE AgentStep
  <2>1. PICK r \in Used : \E row : /\ run' = [run EXCEPT ![r] = row]
                                   /\ row.status = run[r].status
    <3>1. \A r \in Used : Waited(run[r]).status = run[r].status
          BY WaitedRow DEF Used, TypeOK
    <3>2. \A r \in Used, outcome \in Outcome :
             Exited(run[r], outcome).status = run[r].status
          BY ExitedRow DEF Used, TypeOK
    <3>3. QED BY <1>4, <3>1, <3>2 DEF AgentStep, AgentExit, WriteExitCode
  <2>2. QED BY <2>1 DEF KeepsVerdicts, Used, TypeOK
<1>5. ASSUME NEW R \in SUBSET Running, NEW S, StopRuns(R, S)
      PROVE  KeepsVerdicts
      BY <1>5 DEF StopRuns, KeepsVerdicts, Running, Used
<1>6. CASE CommandStep
  <2>1. ASSUME NEW c \in Client, Respond(c)
        PROVE  KeepsVerdicts
    <3>1. CASE Retry(c)
          BY <1>1, <3>1, LaunchKeepsVerdicts DEF Retry
    <3>2. CASE Skip(c)
          BY <1>1, <3>2, LaunchKeepsVerdicts DEF Skip
    <3>3. CASE ContinueFailed(c)
          BY <1>1, <3>3, LaunchKeepsVerdicts DEF ContinueFailed
    <3>4. CASE ContinueCancelled(c)
          BY <1>1, <3>4 DEF ContinueCancelled
    <3>5. CASE Stop(c) \/ Cancel(c)
      <4>1. /\ {r \in Running : run[r].task.story = call[c].story}
                  \in SUBSET Running
            /\ {} \in SUBSET Running
            OBVIOUS
      <4>2. QED BY <1>5, <3>5, <4>1 DEF Stop, Cancel
    <3>6. QED BY <2>1, <3>1, <3>2, <3>3, <3>4, <3>5 DEF Respond
  <2>2. CASE StopAll
        BY <1>5, <2>2 DEF StopAll
  <2>3. QED BY <1>1, <1>6, <2>1, <2>2
            DEF CommandStep, SetExecutionEnabled, CleanWorktrees,
                BeginTaskCommand, BeginStoryCommand
<1>7. CASE Crash
      BY <1>7 DEF Crash, KeepsVerdicts, Used, TypeOK, RunRow
<1>8. CASE Recover
      BY <1>8 DEF Recover, Orphaned, KeepsVerdicts, Running, Used
<1>9. QED BY <1>1, <1>3, <1>4, <1>6, <1>7, <1>8 DEF Next, vars

\* When commands take turns, the verdict on a run is final:
\* no reaper, timeout, command or recovery revises it.
THEOREM VerdictsAreFinal ==
    ASSUME CommandsTakeTurns
    PROVE  Spec => VerdictIsFinal
<1>1. TypeOK /\ OwnershipInv /\ [Next]_vars => OwnershipInv'
      BY NextKeepsOwnership
<1>2. TypeOK /\ OwnershipInv /\ [Next]_vars =>
         [\A r \in Used : run[r].status # "running" =>
             run'[r].status \in {"free", run[r].status}]_vars
      BY NextKeepsVerdicts DEF KeepsVerdicts
<1>3. QED BY <1>1, <1>2, InitType, NextType, InitOwnership, PTL
          DEF Spec, VerdictIsFinal
=============================================================================

----------------------------- MODULE Execution ------------------------------
(***************************************************************************)
(* The EXECUTE phase of nflow-daemon: the scheduler loop that reaps agent  *)
(* processes, advances stories and starts new ones; the exec.* and         *)
(* worktree.clean command handlers, which run on their own threads; the    *)
(* agent processes and the background tasks that watch them; a crash of    *)
(* the daemon and the recovery at its next start.                          *)
(*                                                                         *)
(* What is shared is the database.  Every statement is a transaction of    *)
(* its own and no lock spans two of them.  A step of this module is the    *)
(* work between two points where somebody else can interfere: a scheduler  *)
(* tick is one step per agent run or action, and a command that validates  *)
(* before it writes is two steps, the reads (Begin...) and the writes.     *)
(***************************************************************************)
EXTENDS WorkItems

CONSTANTS
    MaxParallel,    \* the scheduler's slots (3, hard-coded)
    Run,            \* rows of agent_runs the model can hold at a time (bound)
    Client,         \* commands that can be in progress at a time (bound)
    Ops,            \* the commands that clients issue
    Faults,         \* what can go wrong in the environment
    Overlap,        \* TRUE: commands run in parallel to the scheduler, as the
                    \* code has it; FALSE: only between ticks, one at a time
    LogName,        \* agent log files
    LogOf           \* LogOf[t]: the log file of task t

ASSUME MaxParallelAssumption == MaxParallel \in Nat

ASSUME RunAssumption == IsFiniteSet(Run)

ASSUME OpsAssumption ==
    Ops \subseteq {"run", "pause", "retry", "skip", "continue", "stop",
                   "stop_all", "cancel", "clean", "clean_all"}

ASSUME FaultsAssumption ==
    Faults \subseteq {"setup", "spawn", "worktree", "deliver", "timeout",
                      "crash"}

ASSUME OverlapAssumption == Overlap \in BOOLEAN

ASSUME LogAssumption == LogOf \in [Task -> LogName]

VARIABLES
    storyStatus,        \* work_items.status of the stories
    taskStatus,         \* work_items.status of the tasks
    epicStatus,         \* work_items.status of the epics
    worktree,           \* stories with a worktree_path (and the directory)
    mrUrl,              \* stories whose merge request exists
    executionEnabled,   \* projects.execution_enabled
    run,                \* agent_runs rows, with the processes behind them
    log,                \* log files from which success would be read
    pc,                 \* where the main task of the daemon is
    todo,               \* agent runs this tick has read and not handled yet
    verdict,            \* the run whose result is stored, but not yet what
                        \* follows from it for the story
    progress,           \* story progress actions collected by the reaper
    plan,               \* scheduler actions of this tick
    call                \* the command each client waits for

workItems == <<storyStatus, taskStatus, epicStatus, worktree, mrUrl>>
agents == <<run, log>>
tick == <<pc, todo, verdict, progress, plan>>
vars == <<workItems, executionEnabled, agents, tick, call>>

(***************************************************************************)
(* An agent run is a row and a process.  "code" is the exit_code column,   *)
(* which only the background task that waits for the child can fill in.    *)
(* "proc" is live, or how the process ended: pass (exit 0, with the commit *)
(* or the verdict that counts as success in its output), quiet (exit 0     *)
(* without), err (any other end).  A zombie counts as live: kill(pid, 0)   *)
(* sees it.  "pipe" is the background task: wait (it copies stdout to the  *)
(* log, then waits for the child), log (it only copies), lost (it died     *)
(* with the daemon), done.                                                 *)
(***************************************************************************)
Outcome == {"pass", "quiet", "err"}

RunRow ==
    [task : Task,
     status : {"free", "running", "succeeded", "failed", "cancelled"},
     code : {"null", "zero", "nonzero"},
     proc : {"live"} \cup Outcome,
     pipe : {"wait", "log", "lost", "done"}]

\* Fills a field that has no meaning.
NoTask == CHOOSE t \in Task : TRUE

FreeRow == [task |-> NoTask, status |-> "free", code |-> "null",
            proc |-> "err", pipe |-> "done"]

Entry == [run : Run, code : {"null", "zero", "nonzero"}]

ProgressAction == [by : Run, kind : {"start", "complete"}, task : Task]

Verdict == [by : Run, task : Task, ok : BOOLEAN]

NoPlan == [epics |-> {}, ready |-> {}, start |-> {}]

\* A command in progress, with the row of its story as it was read; task
\* commands have a target task.
Call ==
    [op : {"none", "retry", "skip", "continue", "stop", "cancel"},
     story : Story, task : Task, seen : StoryStatus, tree : BOOLEAN]

NoCall == [op |-> "none", story |-> NoTask.story, task |-> NoTask,
           seen |-> "pending", tree |-> FALSE]

TypeOK ==
    /\ storyStatus \in [Story -> StoryStatus]
    /\ taskStatus \in [Task -> TaskStatus]
    /\ epicStatus \in [Epic -> StoryStatus]
    /\ worktree \in [Story -> BOOLEAN]
    /\ mrUrl \in [Story -> BOOLEAN]
    /\ executionEnabled \in BOOLEAN
    /\ run \in [Run -> RunRow]
    /\ log \in [LogName -> BOOLEAN]
    /\ pc \in {"idle", "reap", "timeouts", "execute", "down"}
    /\ todo \subseteq Entry
    /\ verdict \subseteq Verdict
    /\ progress \subseteq ProgressAction
    /\ plan \in [epics : SUBSET (Epic \X StoryStatus),
                 ready : SUBSET Story,
                 start : SUBSET Story]
    /\ call \in [Client -> Call]

Init ==
    /\ storyStatus = [s \in Story |-> "pending"]
    /\ taskStatus = [t \in Task |-> "pending"]
    /\ epicStatus = [e \in Epic |-> "pending"]
    /\ worktree = [s \in Story |-> FALSE]
    /\ mrUrl = [s \in Story |-> FALSE]
    /\ executionEnabled = ("run" \notin Ops)
    /\ run = [r \in Run |-> FreeRow]
    /\ log = [l \in LogName |-> FALSE]
    /\ pc = "idle"
    /\ todo = {}
    /\ verdict = {}
    /\ progress = {}
    /\ plan = NoPlan
    /\ call = [c \in Client |-> NoCall]
-----------------------------------------------------------------------------
Running == {r \in Run : run[r].status = "running"}

Used == {r \in Run : run[r].status # "free"}

Idle(c) == call[c].op = "none"

\* A finished row whose process is gone.  Nobody looks at it again; an exit
\* code that still arrives goes into a column that is no longer read.
Settled(r) ==
    /\ run[r].status \in {"succeeded", "failed", "cancelled"}
    /\ run[r].proc # "live"

\* A row with its final status and exit code, and one whose process is over.
Closed(row, status, code) == [row EXCEPT !.status = status, !.code = code]

Exited(row, outcome) == [row EXCEPT !.proc = outcome]

\* A row whose process has been waited for.
Waited(row) ==
    [row EXCEPT !.pipe = "done",
                !.code = IF row.proc = "err" THEN "nonzero" ELSE "zero"]

\* Spawns an agent for task t and inserts its row.
StartAgent(t, pipe) ==
    \E r \in Run :
        /\ run[r].status = "free"
        /\ run' = [run EXCEPT ![r] =
                      [task |-> t, status |-> "running", code |-> "null",
                       proc |-> "live", pipe |-> pipe]]

\* Starts task t after the caller has written the statuses ts.  The caller
\* decides what becomes of the task if the preparation of the prompt fails
\* (onSetup) or the process cannot be spawned (onSpawn).
Launch(t, ts, onSetup, onSpawn, pipe) ==
    \/ /\ StartAgent(t, pipe)
       /\ taskStatus' = ts
    \/ /\ "setup" \in Faults
       /\ taskStatus' = [ts EXCEPT ![t] = onSetup]
       /\ UNCHANGED run
    \/ /\ "spawn" \in Faults
       /\ taskStatus' = [ts EXCEPT ![t] = onSpawn]
       /\ UNCHANGED run
-----------------------------------------------------------------------------
(***************************************************************************)
(* The scheduler tick: reap_finished_agents, check_agent_timeouts,         *)
(* schedule, execute_story_progress_actions, execute_actions.              *)
(***************************************************************************)

\* A tick starts and the reaper lists the running agents, with the exit
\* codes known so far.  Rows that are finished for good leave the model.
TickBegin ==
    /\ pc = "idle"
    /\ Overlap \/ \A c \in Client : Idle(c)
    /\ pc' = "reap"
    /\ todo' = {[run |-> r, code |-> run[r].code] : r \in Running}
    /\ run' = [r \in Run |-> IF Settled(r) THEN FreeRow ELSE run[r]]
    /\ UNCHANGED <<workItems, executionEnabled, log, verdict, progress, plan,
                   call>>

ReapAlive ==
    /\ pc = "reap"
    /\ \E e \in todo :
          /\ run[e.run].proc = "live"
          /\ todo' = todo \ {e}
    /\ UNCHANGED <<workItems, executionEnabled, agents, pc, verdict, progress,
                   plan, call>>

\* Mutant of Succeeded: the output alone decides.
SucceededByLog(e) == log[LogOf[run[e.run].task]]

\* The log of a task is read as a whole: output of earlier attempts counts.
Succeeded(e) == e.code = "zero" /\ log[LogOf[run[e.run].task]]

\* Mutant of NextTask: nothing is looked for behind a verify task.
NextTaskOfPair(ts, t) ==
    IF t.kind = "impl" /\ ts[PairedVerify(t)] = "pending"
    THEN {PairedVerify(t)} ELSE {}

\* What to start after task t: its verify task, else the next pending one.
NextTask(ts, t) ==
    IF t.kind = "impl" /\ ts[PairedVerify(t)] = "pending"
    THEN {PairedVerify(t)}
    ELSE NextPending(ts, t.story)

\* The reaper finds a dead agent that did its task.
ReapSucceeded ==
    /\ pc = "reap" /\ verdict = {}
    /\ \E e \in todo :
          LET t == run[e.run].task
          IN  /\ run[e.run].proc # "live"
              /\ Succeeded(e)
              /\ todo' = todo \ {e}
              /\ run' = [run EXCEPT ![e.run] = Closed(@, "succeeded", "zero")]
              /\ taskStatus' = [taskStatus EXCEPT ![t] = "done"]
              /\ verdict' = {[by |-> e.run, task |-> t, ok |-> TRUE]}
    /\ UNCHANGED <<storyStatus, epicStatus, worktree, mrUrl,
                   executionEnabled, log, pc, progress, plan, call>>

\* The reaper finds a dead agent that failed, or whose exit code nobody
\* has recorded (yet).
ReapFailed ==
    /\ pc = "reap" /\ verdict = {}
    /\ \E e \in todo :
          LET t == run[e.run].task
          IN  /\ run[e.run].proc # "live"
              /\ ~Succeeded(e)
              /\ todo' = todo \ {e}
              /\ run' = [run EXCEPT ![e.run] =
                            Closed(@, "failed", IF e.code = "null"
                                                THEN "nonzero" ELSE e.code)]
              /\ taskStatus' = [taskStatus EXCEPT ![t] = "failed"]
              /\ verdict' = {[by |-> e.run, task |-> t, ok |-> FALSE]}
    /\ UNCHANGED <<storyStatus, epicStatus, worktree, mrUrl,
                   executionEnabled, log, pc, progress, plan, call>>

\* After a task that is done, the story moves on to its next task or, with
\* none left, to done.
AdvanceStory ==
    /\ \E v \in verdict :
          LET s == v.task.story
              next == NextTask(taskStatus, v.task)
          IN  /\ v.ok
              /\ \/ \E n \in next :
                       /\ taskStatus' = [taskStatus EXCEPT
                                            ![n] = "in_progress"]
                       /\ progress' = progress \cup
                             {[by |-> v.by, kind |-> "start", task |-> n]}
                       /\ UNCHANGED storyStatus
                 \/ /\ next = {}
                    /\ AllFinished(taskStatus, s)
                    /\ storyStatus' = [storyStatus EXCEPT ![s] = "done"]
                    /\ progress' = progress \cup
                          {[by |-> v.by, kind |-> "complete", task |-> v.task]}
                    /\ UNCHANGED taskStatus
                 \/ /\ next = {}
                    /\ ~AllFinished(taskStatus, s)
                    /\ UNCHANGED <<taskStatus, storyStatus, progress>>
    /\ verdict' = {}
    /\ UNCHANGED <<epicStatus, worktree, mrUrl, executionEnabled, agents, pc,
                   todo, plan, call>>

\* A task that failed fails its story.
FailStory ==
    /\ \E v \in verdict :
          /\ ~v.ok
          /\ storyStatus' = [storyStatus EXCEPT ![v.task.story] = "failed"]
    /\ verdict' = {}
    /\ UNCHANGED <<taskStatus, epicStatus, worktree, mrUrl,
                   executionEnabled, agents, pc, todo, progress, plan, call>>

\* Reaping is over; the running agents are listed again, and those in late
\* have run for longer than max_time_per_task.
CheckTimeouts(late) ==
    /\ pc = "reap" /\ verdict = {}
    /\ todo = {}
    /\ late \subseteq Running
    /\ late # {} => "timeout" \in Faults
    /\ pc' = "timeouts"
    /\ todo' = {[run |-> r, code |-> run[r].code] : r \in late}
    /\ UNCHANGED <<workItems, executionEnabled, agents, verdict, progress,
                   plan, call>>

\* What an agent with log file l may have left in it when it is gone.
LogAfter(l, outcome) ==
    CASE outcome = "pass" -> {TRUE}
      [] outcome = "quiet" -> {log[l], FALSE}
      [] outcome = "err" -> BOOLEAN

\* The process of run r ends, if it has not ended before.
Ends(r, outcome) ==
    IF run[r].proc # "live"
    THEN outcome = run[r].proc /\ UNCHANGED log
    ELSE LET l == LogOf[run[r].task]
         IN  IF run[r].pipe = "lost"
             THEN UNCHANGED log
             ELSE \E evidence \in LogAfter(l, outcome) :
                     log' = [log EXCEPT ![l] = evidence]

\* SIGTERM, up to ten seconds of patience, SIGKILL; then the task fails.
TimeOut ==
    /\ pc = "timeouts" /\ verdict = {}
    /\ \E e \in todo, outcome \in Outcome :
          LET t == run[e.run].task
          IN  /\ Ends(e.run, outcome)
              /\ todo' = todo \ {e}
              /\ run' = [run EXCEPT ![e.run] =
                            Closed(Exited(@, outcome), "failed", "null")]
              /\ taskStatus' = [taskStatus EXCEPT ![t] = "failed"]
              /\ verdict' = {[by |-> e.run, task |-> t, ok |-> FALSE]}
    /\ UNCHANGED <<storyStatus, epicStatus, worktree, mrUrl,
                   executionEnabled, pc, progress, plan, call>>

\* Mutant of OutdatedEpics: an epic that has left pending is settled.
OutdatedPendingEpics ==
    {<<e, EpicStatus(storyStatus, e)>> :
        e \in {f \in Epic : /\ epicStatus[f] = "pending"
                             /\ EpicStatus(storyStatus, f) # "pending"}}

\* The epics whose stored status differs from what their stories say.
OutdatedEpics ==
    {<<e, EpicStatus(storyStatus, e)>> :
        e \in {f \in Epic : epicStatus[f] # EpicStatus(storyStatus, f)}}

\* The pure algorithm of nflow_core::scheduler on the rows as they are now.
SchedulePlan ==
    LET startable == {s \in Story : storyStatus[s] = "ready"}
        slots == MaxParallel - Cardinality(Running)
    IN  [epics |-> OutdatedEpics,
         ready |-> {s \in Story : /\ storyStatus[s] = "pending"
                                  /\ BlockersResolved(storyStatus, s)},
         start |-> {s \in startable :
                       Cardinality({u \in startable : u < s}) < slots}]

Schedule ==
    /\ pc = "timeouts" /\ verdict = {}
    /\ todo = {}
    /\ pc' = "execute"
    /\ plan' = IF executionEnabled THEN SchedulePlan ELSE NoPlan
    /\ UNCHANGED <<workItems, executionEnabled, agents, todo, verdict,
                   progress, call>>

\* start_task_execution for the next task of a story.  What happened to the
\* story and the task since they were picked is not looked at.
StartNextTask ==
    /\ pc = "execute"
    /\ \E p \in progress :
          /\ p.kind = "start"
          /\ progress' = progress \ {p}
          /\ IF worktree[p.task.story]
             THEN Launch(p.task, taskStatus, taskStatus[p.task], "failed",
                         "wait")
             ELSE UNCHANGED <<taskStatus, run>>
    /\ UNCHANGED <<storyStatus, epicStatus, worktree, mrUrl,
                   executionEnabled, log, pc, todo, verdict, plan, call>>

\* Rebase, branch, push, merge request; a story that is already done falls
\* back to failed when one of them does not work.
CompleteStory ==
    /\ pc = "execute"
    /\ \E p \in progress :
          LET s == p.task.story
          IN  /\ p.kind = "complete"
              /\ progress' = progress \ {p}
              /\ \/ /\ worktree[s]
                    /\ mrUrl' = [mrUrl EXCEPT ![s] = TRUE]
                    /\ UNCHANGED storyStatus
                 \/ /\ ~worktree[s] \/ "deliver" \in Faults
                    /\ storyStatus' = [storyStatus EXCEPT ![s] = "failed"]
                    /\ UNCHANGED mrUrl
    /\ UNCHANGED <<taskStatus, epicStatus, worktree, executionEnabled, agents,
                   pc, todo, verdict, plan, call>>

UpdateEpicStatus ==
    /\ pc = "execute"
    /\ progress = {}
    /\ \E u \in plan.epics :
          /\ epicStatus' = [epicStatus EXCEPT ![u[1]] = u[2]]
          /\ plan' = [plan EXCEPT !.epics = @ \ {u}]
    /\ UNCHANGED <<storyStatus, taskStatus, worktree, mrUrl,
                   executionEnabled, agents, pc, todo, verdict, progress,
                   call>>

MarkStoryReady ==
    /\ pc = "execute"
    /\ progress = {} /\ plan.epics = {}
    /\ \E s \in plan.ready :
          /\ \A u \in plan.ready : s <= u
          /\ storyStatus' = [storyStatus EXCEPT ![s] = "ready"]
          /\ plan' = [plan EXCEPT !.ready = @ \ {s}]
    /\ UNCHANGED <<taskStatus, epicStatus, worktree, mrUrl, executionEnabled,
                   agents, pc, todo, verdict, progress, call>>

\* git refuses a worktree that exists already.
StartStoryFails(s) ==
    /\ worktree[s] \/ "worktree" \in Faults
    /\ storyStatus' = [storyStatus EXCEPT ![s] = "failed"]
    /\ UNCHANGED <<taskStatus, worktree, run>>

StartStoryWorks(s) ==
    LET next == NextPending(taskStatus, s)
    IN  /\ ~worktree[s]
        /\ worktree' = [worktree EXCEPT ![s] = TRUE]
        /\ storyStatus' = [storyStatus EXCEPT ![s] = "in_progress"]
        /\ \/ \E n \in next :
                 Launch(n, [taskStatus EXCEPT ![n] = "in_progress"],
                        "in_progress", "failed", "wait")
           \/ next = {} /\ UNCHANGED <<taskStatus, run>>

StartStory ==
    /\ pc = "execute"
    /\ progress = {} /\ plan.epics = {} /\ plan.ready = {}
    /\ \E s \in plan.start :
          /\ \A u \in plan.start : s <= u
          /\ plan' = [plan EXCEPT !.start = @ \ {s}]
          /\ StartStoryFails(s) \/ StartStoryWorks(s)
    /\ UNCHANGED <<epicStatus, mrUrl, executionEnabled, log, pc, todo,
                   verdict, progress, call>>

TickEnd ==
    /\ pc = "execute"
    /\ progress = {}
    /\ plan = NoPlan
    /\ pc' = "idle"
    /\ UNCHANGED <<workItems, executionEnabled, agents, todo, verdict,
                   progress, plan, call>>
-----------------------------------------------------------------------------
(***************************************************************************)
(* Agent processes and the background tasks behind their pipes.            *)
(***************************************************************************)

AgentExit ==
    /\ \E r \in Used, outcome \in Outcome :
          /\ run[r].proc = "live"
          /\ Ends(r, outcome)
          /\ run' = [run EXCEPT ![r] = Exited(@, outcome)]
    /\ UNCHANGED <<workItems, executionEnabled, tick, call>>

\* Mutant of WriteExitCode: the exit code decides over the run.
WriteExitCodeAndStatus ==
    /\ pc # "down"
    /\ \E r \in Used :
          /\ run[r].proc # "live"
          /\ run[r].pipe = "wait"
          /\ run' = [run EXCEPT ![r] =
                        Closed(Waited(@), IF run[r].proc = "err"
                                          THEN "failed" ELSE "succeeded",
                               "null")]
    /\ UNCHANGED <<workItems, executionEnabled, log, tick, call>>

\* The background task has waited for the child and stores its exit code.
WriteExitCode ==
    /\ pc # "down"
    /\ \E r \in Used :
          /\ run[r].proc # "live"
          /\ run[r].pipe = "wait"
          /\ run' = [run EXCEPT ![r] = Waited(@)]
    /\ UNCHANGED <<workItems, executionEnabled, log, tick, call>>
-----------------------------------------------------------------------------
(***************************************************************************)
(* The command handlers.                                                   *)
(***************************************************************************)

CommandsMayRun ==
    /\ pc # "down"
    /\ Overlap \/ (pc = "idle" /\ \A c \in Client : Idle(c))

\* exec.run and exec.pause
SetExecutionEnabled(on) ==
    /\ CommandsMayRun
    /\ (IF on THEN "run" ELSE "pause") \in Ops
    /\ executionEnabled' = on
    /\ UNCHANGED <<workItems, agents, tick, call>>

\* Mutant of Accepts: the validation of commands is too permissive.
AcceptsMore(op) ==
    CASE op \in {"retry", "skip"} -> {"failed", "in_progress"}
      [] op = "continue" -> {"failed", "cancelled"}
      [] op = "stop" -> {"in_progress", "ready", "done"}
      [] op = "cancel" -> {"pending", "ready", "failed"}

\* The statuses of its target that a command accepts: of the task for
\* exec.retry and exec.skip, of the story for the others.
Accepts(op) ==
    CASE op \in {"retry", "skip"} -> {"failed"}
      [] op = "continue" -> {"failed", "cancelled"}
      [] op = "stop" -> {"in_progress", "ready"}
      [] op = "cancel" -> {"pending", "ready"}

\* exec.retry and exec.skip read the task and its story and validate.
BeginTaskCommand(c) ==
    /\ Idle(c)
    /\ CommandsMayRun
    /\ \E op \in Ops \cap {"retry", "skip"}, t \in Task :
          /\ taskStatus[t] \in Accepts(op)
          /\ call' = [call EXCEPT ![c] =
                         [op |-> op, story |-> t.story, task |-> t,
                          seen |-> storyStatus[t.story],
                          tree |-> worktree[t.story]]]
    /\ UNCHANGED <<workItems, executionEnabled, agents, tick>>

\* exec.continue, exec.stop <story> and exec.cancel read and validate.
BeginStoryCommand(c) ==
    /\ Idle(c)
    /\ CommandsMayRun
    /\ \E op \in Ops \cap {"continue", "stop", "cancel"}, s \in Story :
          /\ storyStatus[s] \in Accepts(op)
          /\ call' = [call EXCEPT ![c] =
                         [op |-> op, story |-> s, task |-> NoTask,
                          seen |-> storyStatus[s], tree |-> worktree[s]]]
    /\ UNCHANGED <<workItems, executionEnabled, agents, tick>>

\* The call of client c gets its answer.
Answer(c) == call' = [call EXCEPT ![c] = NoCall]

\* Story s is back in progress if the command saw it failed.
Revived(s, seen) ==
    IF seen = "failed" THEN [storyStatus EXCEPT ![s] = "in_progress"]
                       ELSE storyStatus

\* exec.retry: without a worktree the task stays in progress, agentless.
Retry(c) ==
    /\ pc # "down"
    /\ call[c].op = "retry"
    /\ LET t == call[c].task
           ts == [taskStatus EXCEPT ![t] = "in_progress"]
       IN  /\ storyStatus' = Revived(call[c].story, call[c].seen)
           /\ \/ /\ call[c].tree
                 /\ Launch(t, ts, "in_progress", "failed", "wait")
              \/ /\ ~call[c].tree
                 /\ taskStatus' = ts
                 /\ UNCHANGED run
    /\ Answer(c)
    /\ UNCHANGED <<epicStatus, worktree, mrUrl, executionEnabled, log, tick>>

\* A story without pending tasks is done when all of them are finished.
DoneIfFinished(ts, s) ==
    storyStatus' = IF AllFinished(ts, s)
                   THEN [storyStatus EXCEPT ![s] = "done"]
                   ELSE storyStatus

\* exec.skip: the background task of the next agent never waits for it.
Skip(c) ==
    /\ pc # "down"
    /\ call[c].op = "skip"
    /\ LET s == call[c].story
           ts == Skipped(taskStatus, call[c].task)
           next == NextPending(ts, s)
       IN  \/ \E n \in next :
                 LET started == [ts EXCEPT ![n] = "in_progress"]
                 IN  /\ storyStatus' = Revived(s, call[c].seen)
                     /\ \/ /\ call[c].tree
                           /\ Launch(n, started, "in_progress", "pending",
                                     "log")
                        \/ /\ ~call[c].tree
                           /\ taskStatus' = started
                           /\ UNCHANGED run
           \/ /\ next = {}
              /\ taskStatus' = ts
              /\ DoneIfFinished(ts, s)
              /\ UNCHANGED run
    /\ Answer(c)
    /\ UNCHANGED <<epicStatus, worktree, mrUrl, executionEnabled, log, tick>>

\* exec.continue on a failed story: its first failed task counts as done,
\* and the next pending one starts.
ContinueFailed(c) ==
    /\ pc # "down"
    /\ call[c].op = "continue" /\ call[c].seen = "failed"
    /\ LET s == call[c].story
           skip == FirstWith(taskStatus, s, "failed")
       IN  \E ts \in IF skip = {} THEN {taskStatus}
                     ELSE {Skipped(taskStatus, t) : t \in skip} :
              LET next == NextPending(ts, s)
              IN  \/ \E n \in next :
                        LET started == [ts EXCEPT ![n] = "in_progress"]
                        IN  /\ storyStatus' =
                                  [storyStatus EXCEPT ![s] = "in_progress"]
                            /\ \/ /\ call[c].tree
                                  /\ Launch(n, started, "pending", "pending",
                                            "wait")
                               \/ /\ ~call[c].tree
                                  /\ taskStatus' = started
                                  /\ UNCHANGED run
                  \/ /\ next = {}
                     /\ taskStatus' = ts
                     /\ DoneIfFinished(ts, s)
                     /\ UNCHANGED run
    /\ Answer(c)
    /\ UNCHANGED <<epicStatus, worktree, mrUrl, executionEnabled, log, tick>>

\* exec.continue on a cancelled story (with --force if others depend on it).
ContinueCancelled(c) ==
    /\ pc # "down"
    /\ call[c].op = "continue" /\ call[c].seen = "cancelled"
    /\ LET s == call[c].story
           ts == Rewrite(taskStatus, s, "cancelled", "pending")
           next == NextPending(ts, s)
           restored == IF BlockersResolved(storyStatus, s) THEN "ready"
                                                           ELSE "pending"
       IN  \/ /\ call[c].tree
              /\ storyStatus' = [storyStatus EXCEPT ![s] = "in_progress"]
              /\ taskStatus' = [t \in Task |-> IF t \in next
                                               THEN "in_progress" ELSE ts[t]]
           \/ /\ ~call[c].tree
              /\ storyStatus' = [storyStatus EXCEPT ![s] = restored]
              /\ taskStatus' = ts
    /\ Answer(c)
    /\ UNCHANGED <<epicStatus, worktree, mrUrl, executionEnabled, agents,
                   tick>>

\* Mutant of StopRuns: the agent runs are left as they are.
StopRunsKeepRows(R, S) ==
    /\ taskStatus' =
          [t \in Task |->
              IF \E r \in R : run[r].task = t THEN "failed"
              ELSE IF t.story \in S /\ taskStatus[t] = "pending"
                   THEN "cancelled"
                   ELSE taskStatus[t]]
    /\ storyStatus' = [s \in Story |-> IF s \in S THEN "cancelled"
                                                  ELSE storyStatus[s]]
    /\ UNCHANGED <<run, epicStatus, worktree, mrUrl, executionEnabled, log,
                   tick>>

\* SIGTERM for the agents of runs R, whose tasks fail, and the end of the
\* stories S: they and their pending tasks are cancelled.
StopRuns(R, S) ==
    /\ run' = [r \in Run |-> IF r \in R
                             THEN Closed(run[r], "cancelled", "null")
                             ELSE run[r]]
    /\ taskStatus' =
          [t \in Task |->
              IF \E r \in R : run[r].task = t THEN "failed"
              ELSE IF t.story \in S /\ taskStatus[t] = "pending"
                   THEN "cancelled"
                   ELSE taskStatus[t]]
    /\ storyStatus' = [s \in Story |-> IF s \in S THEN "cancelled"
                                                  ELSE storyStatus[s]]
    /\ UNCHANGED <<epicStatus, worktree, mrUrl, executionEnabled, log, tick>>

Stop(c) ==
    /\ pc # "down"
    /\ call[c].op = "stop"
    /\ StopRuns({r \in Running : run[r].task.story = call[c].story},
                {call[c].story})
    /\ Answer(c)

\* No process to terminate: only the story and its pending tasks.
Cancel(c) ==
    /\ pc # "down"
    /\ call[c].op = "cancel"
    /\ StopRuns({}, {call[c].story})
    /\ Answer(c)

\* exec.stop --all, or for the project
StopAll ==
    /\ CommandsMayRun
    /\ "stop_all" \in Ops
    /\ StopRuns(Running, {run[r].task.story : r \in Running})
    /\ UNCHANGED call

\* Mutant of CleanWorktrees: every story that has started is cleaned.
CleanStartedWorktrees(all) ==
    /\ CommandsMayRun
    /\ (IF all THEN "clean_all" ELSE "clean") \in Ops
    /\ worktree' = [s \in Story |-> /\ worktree[s]
                                    /\ ~all
                                    /\ storyStatus[s] \in {"ready", "pending"}]
    /\ UNCHANGED <<storyStatus, taskStatus, epicStatus, mrUrl,
                   executionEnabled, agents, tick, call>>

\* worktree.clean, and worktree.clean --all
CleanWorktrees(all) ==
    /\ CommandsMayRun
    /\ (IF all THEN "clean_all" ELSE "clean") \in Ops
    /\ worktree' = [s \in Story |-> /\ worktree[s]
                                    /\ ~all
                                    /\ storyStatus[s] \notin Finished]
    /\ UNCHANGED <<storyStatus, taskStatus, epicStatus, mrUrl,
                   executionEnabled, agents, tick, call>>
-----------------------------------------------------------------------------
(***************************************************************************)
(* The daemon process ends, in the middle of anything; its children live   *)
(* on, but nobody reads their pipes.  At the next start, recovery fails    *)
(* the runs whose process is gone and the tasks in progress without a run. *)
(***************************************************************************)

Crash ==
    /\ "crash" \in Faults
    /\ pc # "down"
    /\ pc' = "down"
    /\ todo' = {} /\ verdict' = {} /\ progress' = {} /\ plan' = NoPlan
    /\ call' = [c \in Client |-> NoCall]
    /\ run' = [r \in Run |-> IF r \in Used /\ run[r].pipe # "done"
                             THEN [run[r] EXCEPT !.pipe = "lost"]
                             ELSE run[r]]
    /\ UNCHANGED <<workItems, executionEnabled, log>>

\* Mutant of Orphaned: agents that survived the daemon are overlooked.
OrphanedOrAdopted(t) == taskStatus[t] = "in_progress"

\* A task in progress without an agent that survived the daemon.
Orphaned(t) ==
    /\ taskStatus[t] = "in_progress"
    /\ \A r \in Running : run[r].task = t => run[r].proc # "live"

Recover ==
    /\ pc = "down"
    /\ pc' = "idle"
    /\ LET gone == {r \in Running : run[r].proc # "live"}
       IN  /\ run' = [r \in Run |-> IF r \in gone
                                    THEN Closed(run[r], "failed", "null")
                                    ELSE run[r]]
           /\ taskStatus' =
                 [t \in Task |->
                     IF Orphaned(t) \/ \E r \in gone : run[r].task = t
                     THEN "failed"
                     ELSE taskStatus[t]]
    /\ UNCHANGED <<storyStatus, epicStatus, worktree, mrUrl,
                   executionEnabled, log, todo, verdict, progress, plan, call>>
-----------------------------------------------------------------------------
SchedulerStep ==
    \/ TickBegin \/ ReapAlive \/ ReapSucceeded \/ ReapFailed
    \/ AdvanceStory \/ FailStory
    \/ \E late \in SUBSET Running : CheckTimeouts(late)
    \/ TimeOut \/ Schedule
    \/ StartNextTask \/ CompleteStory
    \/ UpdateEpicStatus \/ MarkStoryReady \/ StartStory \/ TickEnd

AgentStep == AgentExit \/ WriteExitCode

\* The second half of a command.
Respond(c) ==
    \/ Retry(c) \/ Skip(c) \/ ContinueFailed(c) \/ ContinueCancelled(c)
    \/ Stop(c) \/ Cancel(c)

CommandStep ==
    \/ \E on \in BOOLEAN : SetExecutionEnabled(on)
    \/ \E all \in BOOLEAN : CleanWorktrees(all)
    \/ StopAll
    \/ \E c \in Client :
          BeginTaskCommand(c) \/ BeginStoryCommand(c) \/ Respond(c)

Next == SchedulerStep \/ AgentStep \/ CommandStep \/ Crash \/ Recover

Spec == Init /\ [][Next]_vars

\* The timer keeps ticking, so the main task of the daemon goes on; the wall
\* clock passes every limit, so a tick comes that finds a run late.  Nothing
\* is assumed of agents: one may run forever.
Fairness ==
    /\ WF_vars(SchedulerStep)
    /\ \A r \in Run :
          SF_vars(\E late \in SUBSET Running :
                     r \in late /\ CheckTimeouts(late))

FairSpec == Spec /\ Fairness

-----------------------------------------------------------------------------
(***************************************************************************)
(* Properties.                                                             *)
(***************************************************************************)

\* A task whose agent run is recorded as running is in progress, and no two
\* running runs work on one task: reaper, timeouts, recovery and commands
\* never take a task from under its agent, nor start a second one on it.
TaskOwnership ==
    \A r \in Running :
        /\ taskStatus[run[r].task] = "in_progress"
        /\ \A q \in Running : run[q].task = run[r].task => q = r

\* A story that is done has no unfinished task, whoever declared it done:
\* the reaper, exec.skip or exec.continue.
DoneMeansFinished ==
    \A t \in Task :
        storyStatus[t.story] = "done" =>
            taskStatus[t] \in {"done", "cancelled"}

\* A story whose merge request exists is done and stays done: nothing
\* restarts, fails or cancels it once it is delivered.
DeliveredIsDone == \A s \in Story : mrUrl[s] => storyStatus[s] = "done"

\* A run is recorded as succeeded only if its process has ended with exit
\* code 0, whatever commands, crashes and late exit codes come in between.
SuccessIsExitZero ==
    \A r \in Used :
        run[r].status = "succeeded" => run[r].proc \in {"pass", "quiet"}

\* The verdict on a run is final: a run that succeeded, failed or was
\* cancelled is never given another status.
VerdictIsFinal ==
    [][\A r \in Used : run[r].status # "running" =>
          run'[r].status \in {"free", run[r].status}]_vars

\* An agent that works has its worktree: worktree.clean takes it from nobody.
AgentsHaveWorktree == \A r \in Running : worktree[run[r].task.story]

\* At most one agent works in the worktree of a story.
OneAgentPerStory ==
    \A q, r \in Running : run[q].task.story = run[r].task.story => q = r

\* While a task is in progress, every task before it in its story has been
\* done or cancelled: implementation and verification alternate.
TasksInOrder ==
    \A t, u \in Task :
        /\ taskStatus[t] = "in_progress"
        /\ u.story = t.story /\ SortOrder(u) < SortOrder(t)
        => taskStatus[u] \in Finished

\* While a story runs, no work is left or taken up again on a story it depends
\* on, not even on one that could not be delivered after all.
DependenciesRespected ==
    \A s \in Story :
        storyStatus[s] = "in_progress" =>
            \A b \in Blockers[s] : AllFinished(taskStatus, b)

\* No story is started by the scheduler while the project is paused.
PausedStartsNothing ==
    [][~executionEnabled =>
          \A s \in Story : storyStatus[s] = "ready" =>
             storyStatus'[s] # "in_progress"]_vars

\* Statuses only change as the state machine of work items allows.
Lifecycle ==
    INSTANCE WorkItemLifecycle WITH story <- storyStatus, task <- taskStatus

FollowsLifecycle == Lifecycle!Spec

\* Statuses only change as the state machine allows, or by a departure from it
\* that is listed there.
KeepsToLifecycle == Lifecycle!WideSpec

\* Once execution stays enabled, every story is done or failed at last, or
\* waits for a story that failed.
EveryStorySettles ==
    \A s \in Story :
        <>[]executionEnabled =>
            <>[](\/ storyStatus[s] \in {"done", "failed"}
                 \/ ~BlockersResolved(storyStatus, s))

\* Once execution stays enabled, every epic gets the status that follows from
\* its stories, and keeps it.
EpicFollowsStories ==
    \A e \in Epic :
        <>[]executionEnabled =>
            <>[](epicStatus[e] = EpicStatus(storyStatus, e))
-----------------------------------------------------------------------------
(***************************************************************************)
(* Inductive strengthenings of the invariants above.                       *)
(***************************************************************************)

\* Exit code 0 is only ever claimed for processes that ended with it: in the
\* rows, and in what a tick has read from rows that are still in use.
ExitCodesAreTrue ==
    /\ \A r \in Run :
          run[r].status = "succeeded" \/ run[r].code = "zero" =>
             run[r].proc \in {"pass", "quiet"}
    /\ \A e \in todo :
          /\ run[e.run].status # "free"
          /\ e.code = "zero" => run[e.run].proc \in {"pass", "quiet"}

\* What a tick has read and decided is still true when it acts on it: runs it
\* has not handled are running, tasks it is to start wait for their agent.
TickIsUpToDate ==
    /\ \A e \in todo :
          /\ run[e.run].status = "running"
          /\ \A f \in todo : f.run = e.run => f = e
    /\ \A p \in progress :
          p.kind = "start" =>
             /\ taskStatus[p.task] = "in_progress"
             /\ \A r \in Running : run[r].task # p.task
             /\ \A q \in progress :
                   q.kind = "start" /\ q.task = p.task => q = p
    /\ pc \in {"idle", "down", "execute"} => todo = {} /\ verdict = {}
    /\ pc \in {"idle", "down"} => progress = {}

\* Either commands run between two ticks, as docs/daemon.md promises, or they
\* race the scheduler, but not each other, and none of them stops, cancels or
\* continues a story.
CommandsTakeTurns ==
    \/ ~Overlap
    \/ /\ \A c, d \in Client : c = d
       /\ Ops \subseteq {"run", "pause", "retry", "skip", "clean",
                         "clean_all"}

\* A command works alone, on the task it has read.
CommandIsAlone ==
    \A c \in Client :
        /\ ~Idle(c) => /\ pc = "idle" \/ (Overlap /\ pc # "down")
                       /\ \A d \in Client : ~Idle(d) => d = c
        /\ call[c].op \in {"retry", "skip"} =>
              /\ taskStatus[call[c].task] = "failed"
              /\ call[c].story = call[c].task.story
        /\ Overlap => call[c].op \in {"none", "retry", "skip"}

\* Nobody loses track of an agent.
OwnershipInv == TaskOwnership /\ TickIsUpToDate /\ CommandIsAlone

\* The stories that a tick is about to make ready or to start still wait for
\* that, and only the last part of a tick has a plan.
PlanIsUpToDate ==
    /\ \A s \in plan.ready : storyStatus[s] = "pending"
    /\ \A s \in plan.start : storyStatus[s] = "ready"
    /\ pc # "execute" => plan = NoPlan

\* What a command has read of the status of its story still holds.
CallIsUpToDate ==
    \A c \in Client : ~Idle(c) =>
        /\ call[c].op \in Ops
        /\ ~Overlap \/ call[c].seen = "failed" =>
              storyStatus[call[c].story] = call[c].seen
        /\ call[c].op \in {"continue", "stop", "cancel"} =>
              call[c].seen \in Accepts(call[c].op)

\* Nobody stops a story.
Unstopped == Ops \cap {"stop", "stop_all"} = {}

\* A story is worked off from the first task to the last: behind finished
\* tasks there is at most one that is neither finished nor pending.
TasksInSequence ==
    \A t, u \in Task :
        /\ u.story = t.story /\ SortOrder(u) < SortOrder(t)
        /\ taskStatus[t] # "pending"
        => taskStatus[u] \in Finished

\* The status of a story says what its tasks may be in.
StatusFitsTasks ==
    \A t \in Task :
        /\ storyStatus[t.story] \in {"pending", "ready"} =>
              taskStatus[t] = "pending"
        /\ storyStatus[t.story] = "cancelled" => taskStatus[t] = "cancelled"
        /\ ~Overlap /\ storyStatus[t.story] = "failed" =>
              taskStatus[t] # "in_progress"

\* Between the two steps of the reaper, and until it is delivered, nobody works
\* for a story or finds something to do for it.
VerdictFitsTasks ==
    /\ \A v \in verdict :
          /\ taskStatus[v.task] \notin {"pending", "cancelled"}
          /\ ~Overlap => storyStatus[v.task.story] # "failed"
          /\ \A t \in TasksOf(v.task.story) :
                /\ v.ok => taskStatus[t] # "failed"
                /\ v.ok \/ ~Overlap => taskStatus[t] # "in_progress"
    /\ \A p \in progress : p.kind = "complete" =>
          AllFinished(taskStatus, p.task.story)

\* As long as no story is stopped, its tasks are worked off in their order.
SequenceInv ==
    /\ PlanIsUpToDate /\ CallIsUpToDate
    /\ TasksInSequence /\ StatusFitsTasks /\ VerdictFitsTasks

\* A story that is reaped or waits to be delivered has not been delivered, and
\* it is delivered once.
DeliveryIsUpToDate ==
    /\ \A v \in verdict :
          /\ ~mrUrl[v.task.story]
          /\ v.ok => storyStatus[v.task.story] # "done"
          /\ \A p \in progress :
                p.kind = "complete" => p.task.story # v.task.story
    /\ \A p \in progress : p.kind = "complete" =>
          /\ storyStatus[p.task.story] = "done"
          /\ ~mrUrl[p.task.story]
          /\ \A q \in progress :
                q.kind = "complete" /\ q.task.story = p.task.story => q = p

\* What is done is finished and what is delivered is done.
DeliveryInv ==
    /\ PlanIsUpToDate /\ CallIsUpToDate
    /\ DoneMeansFinished /\ DeliveredIsDone /\ DeliveryIsUpToDate

\* A command that has seen a worktree finds it.
WorktreeInv ==
    /\ AgentsHaveWorktree
    /\ \A c \in Client :
          ~Idle(c) /\ call[c].tree => worktree[call[c].story]

\* The work that story s waits for is finished.
BlockersFinished(s) == \A b \in Blockers[s] : AllFinished(taskStatus, b)

\* The stories that a tick is about to make ready wait for nobody.
ReadinessInv == \A s \in plan.ready : BlockersFinished(s)

\* Neither does a story that has got past pending.
DependencyInv ==
    /\ ReadinessInv
    /\ \A s \in Story :
          storyStatus[s] \notin {"pending", "cancelled"} => BlockersFinished(s)
=============================================================================

# nflow, verified

nflow turns specifications into merge requests. A person writes specs with the
help of Claude (SPECIFY), Claude decomposes them into epics, stories and tasks
(PLAN), and a daemon works through the stories with Claude agents, each in a git
worktree of its own, and delivers every finished story as a merge request
(EXECUTE). A command line client and a terminal interface talk to the daemon
over a socket. This directory holds TLA+ models of the daemon and its clients,
the TLC configurations that check them on small instances, and theorems about
them with proofs that TLAPS checks for every instance.

The models are of the code as it is. Where the code and its documentation
disagree, the model follows the code, and section 6 shows the disagreement.

    tlc -workers 2 -config recovery.cfg MCExecution.tla      # a run
    tlapm ExecutionProofs.tla                                # the proofs

Source files are named below without their directory: `scheduler_loop.rs`,
`handlers.rs`, `recovery.rs`, `shutdown.rs`, `socket.rs`, `events.rs` and `db/`
are in `src/crates/nflow-daemon/src`, `work_item.rs`, `scheduler.rs`, `dag.rs`,
`spec.rs`, `config.rs` and `decomposition.rs` in `src/crates/nflow-core/src`,
`worktree.rs`, `branch.rs` and `mr.rs` in `src/crates/nflow-git/src`, `app.rs`,
`event.rs` and `ui.rs` in `src/crates/nflow-tui/src`. Documents are in
`src/docs`.

## 1. Inventory

### How the parts interact

One process, `nflow-daemon`, owns a SQLite database. Clients (CLI, TUI) send it
requests over a Unix socket; `socket.rs` hands each request to a blocking thread
(`handle_client_inner`), on which `handlers.rs` reads and writes the database.
The main task runs `scheduler_tick` every two seconds. Each agent is a child
process with a row in `agent_runs`, and a background task that copies its stdout
to a log file, waits for it and stores its exit code. Handlers, ticks and
background tasks each open a connection of their own; they share the database
and nothing else, and no transaction spans a check and the write it allows.
`docs/daemon.md` describes a daemon that serializes commands and ticks; the
code does not.

### Components

| component | state | operations | hard behaviour | what makes it correct |
|---|---|---|---|---|
| work items (`work_item.rs`, `db/work_items.rs`) | status of epics, stories, tasks; worktree, branch, merge request | `story_*` and `task_*` transitions; `auto_generate_verify_tasks`, `skip_task`, `get_next_pending_task`, `propagate_epic_status` | the daemon writes statuses directly, past the transitions | statuses follow the state machine; a done story has no open task; impl and verify alternate |
| scheduling algorithm (`scheduler.rs`) | none | `schedule` | works on a snapshot that is acted on later | respects dependencies, slots and pauses; epics follow their stories |
| scheduler loop (`scheduler_loop.rs`, `main.rs`) | the lists a tick has read | reap, time out, plan, start tasks and stories, complete stories | every list is stale when used; several writes for one event | an agent owns its task; a verdict is true and final; every story settles |
| agent processes (`runner.rs`, `platform.rs`, `db/agent_runs.rs`) | row, process, pipe, exit code, log | spawn, exit, copy, wait, terminate | exit code arrives after the exit; processes outlive the daemon | success means the process succeeded; one agent per worktree |
| exec commands (`handlers.rs`) | the row each has read | run, pause, retry, skip, continue, stop, cancel, worktree.clean; status, log, worktree.list only read | check, then act, on a thread of its own | done and delivered keep their meaning; nothing loses its agent or its worktree |
| crash recovery (`recovery.rs`) | none | stale runs, orphaned tasks, idle sessions, socket and PID file | a crash between any two writes | after it, every running agent owns its task again |
| delivery (`nflow-git`) | branches, worktrees, merge requests | fetch, rebase, push, open | one step of several fails | a delivered story is done |
| graceful shutdown (`shutdown.rs`, `daemon.rs`) | flag, PID file, socket | wait 60 s, SIGTERM, 10 s, SIGKILL, remove files | races the agents' own ends, and handlers that go on starting agents; writes nothing to the database | every agent it could know of is ended, files removed |
| dependency graph (`dag.rs`) | colours and stack, in-degrees and queue while it runs | `build_dag`, `topological_sort`, `detect_cycle`, `find_ready_stories`, `find_blocked_stories` | graph algorithms | a cycle is found exactly if there is one; the order respects every edge |
| spec sessions (`spec.rs`, `db/specs.rs`, `handlers.rs` 334 to 1431) | spec status, session_active, session id; spec files | new, answer, approve, reopen, deactivate, delete, resume; the task that streams a turn | a turn ends after its spec has changed; names are not unique | an active session can go on; nothing but its author moves a spec that no wave has |
| planning (`decomposition.rs`, `handlers.rs` 1432 to 2820) | session status, wave number, items | generate, feedback, approve, discard; the task that persists a plan; addresses of items | check, then act; item by item writes; a stream knows nothing of what has become of its wave | no more drafts and no more waves of one number than clients at work; a discarded wave stays discarded |
| socket server, events (`socket.rs`, `events.rs`) | the request being handled, streams, subscriptions, a channel of 256 events | handshake, request, stream, subscribe, broadcast | slow subscribers; a reply between events | answers belong to requests; events in order |
| logs of agents (`scheduler_loop.rs` 100 to 250, `stream.rs`, `evaluate.rs`, exec.log) | the log file of a task, its hash, HEAD | append, evaluate, reset, follow | attempts share a file; it is read while it grows | a verdict rests on the task's own lines; a retry loses no work |
| projects, configuration (`project.rs`, `config.rs`) | rows, directories, two files of settings, execution_enabled | init, delete, show, set, cleanup.logs | handlers on threads of their own, files without locks | sets do what they say; nothing is inherited |
| command line client (`nflow-cli`) | request ids, one connection | commands, streams, ensure_daemon, status, stop | timeouts, starts at the same time | every call returns, with its own answer |
| terminal interface (`nflow-tui`) | views, popups, trees, selections, ticks, offsets, three live views, one connection | keys, fetches, polls | events fetch everything anew between two keys; no line is compared with the request it belongs to | a key acts on what it was pressed for; lines are shown where they belong |
| prompts (`prompt.rs`) | none | render | data only | |
| mock-claude | none | stands for Claude in tests | | |

## 2. Plan

Done, the heart of the system first:

1. `WorkItems`: statuses and the pure helpers over tasks, stories and epics.
2. `Execution`: the EXECUTE phase, with everything that shares its database;
   `WorkItemLifecycle`, the abstract specification it refines.
3. `SpecSessions`: the SPECIFY phase, and `Planning` on top of it.
4. The data below the three phases: `DependencyGraph` (dag.rs loop by loop),
   `PlanItems` (a plan row by row), `AgentLog` (what a log holds and who reads
   it), `Delivery` (git, step by step), `ProjectFiles` (settings and logs).
5. The processes and the wire: `DaemonProcess`, `Connection`.
6. The terminal interface: `ExecuteView`, `Panels`, `Scrolling`, `LiveViews`.
7. Theorems: `Execution` and the refinement of `WorkItemLifecycle`, `Planning`
   with its sessions, `DependencyGraph`, `PlanItems`, `Connection`, `AgentLog`, `Delivery`,
   `ProjectFiles`, `DaemonProcess`; of the terminal interface `LiveViews`,
   `Scrolling`, `Panels` and `ExecuteView`.

Left:

8. Theorems about what the runs do not ask for: DependenciesAsPlanned and TasksAlternate
   of `PlanItems`, SomethingHighlighted and SpecIsOfProject of `Panels`.
9. The composition of `Delivery` with `Execution` (`Execution` has a delivery that
   works or fails) and of plan.discard with a tick (`Planning` has only a
   summary of the execution).

Modules that share no state are checked in one run, each behaviour in one of
them (`MCPlans`, `MCScreen`, `MCStreams`, `MCProjects`); `MCDaemon` has two scenes of one
module.

## 3. Modules

| module | models |
|---|---|
| `WorkItems` | constants of a project (stories, pairs of tasks, epics, dependencies), status values, helpers of `work_item.rs` and `dag.rs` |
| `WorkItemLifecycle` | the state machine that `work_item.rs` defines: the abstract specification |
| `Execution` | scheduler loop, agent processes, commands, crash and recovery; properties |
| `SpecSessions` | spec rows, turns, spec.* commands, their reset at a restart |
| `Planning` | waves, plans, streams, plan.* commands over `SpecSessions`; properties |
| `DependencyGraph` | `build_dag`, `detect_cycle`, `topological_sort`, `find_ready_stories` |
| `PlanItems` | a plan row by row: ids, dependencies, verify tasks; addresses and who finds what by them |
| `AgentLog` | a log file: the agents that print, the task that copies, the reaper, exec.retry's reset, exec.log --follow |
| `Delivery` | worktrees, branches, remote, merge requests: starting and delivering stories, worktree.clean, project.delete |
| `ProjectFiles` | project.init and delete, config.set and show, cleanup.logs over one project's files |
| `DaemonProcess` | daemons and clients, the PID, socket and lock files, graceful shutdown |
| `Connection` | one connection: requests, streams, events, and the two clients' ways of reading |
| `ExecuteView` | the interface's keys and sub-views, the tree with selection, filter and popup |
| `Panels` | the list of specs and the dialogs of the plan view |
| `Scrolling` | pager, logs and output pane |
| `LiveViews` | dialogue, output pane and log view, with lines that come over one connection |
| `DocumentedBehaviour`, `DocumentedPlanning` | what docs and comments say of EXECUTE, SPECIFY and PLAN and the code does not do (the other modules end with such a part) |
| `MCExecution`, `MCPlanning`, `MCPlans`, `MCScreen`, `MCStreams`, `MCDaemon`, `MCProjects` | values of constants, symmetry, and which modules are checked in one run |
| `ExecutionProofs` | theorems about types, exit codes, agents and their tasks, verdicts |
| `StoryProofs` | on these: order of tasks, done and delivered stories, worktrees |
| `LifecycleProofs` | on these: dependencies, the refinement of `WorkItemLifecycle` |
| `PlanningProofs` | theorems about `DependencyGraph`, `PlanItems`, `Planning` and its `SpecSessions` |
| `DaemonProofs` | theorems about `DaemonProcess` |
| `StreamsProofs` | theorems about `Connection` and `AgentLog` |
| `ProjectsProofs` | theorems about `ProjectFiles` and `Delivery` |
| `ScreenProofs` | theorems about `ExecuteView`, `Panels`, `Scrolling` and `LiveViews` |

### State of `Execution` and the code

| variable | code |
|---|---|
| `storyStatus`, `taskStatus`, `epicStatus` | `work_items.status` |
| `worktree` | `work_items.worktree_path` is set, and the directory exists |
| `mrUrl` | a merge request has been opened for the story |
| `executionEnabled` | `projects.execution_enabled` |
| `run` | rows of `agent_runs`, each with its process and its background task |
| `log` | whether a log file holds what counts as success |
| `pc`, `todo`, `verdict`, `progress`, `plan` | the main task: where it is in `scheduler_tick`, and the vectors it holds |
| `call` | a command between its checks and its writes, with the rows it has read |

A story is a number, and numbers are priorities (session, then sort_order). All
stories have the same pairs of tasks: an impl task and the verify task generated
for it. Ids, titles, timestamps, prompts and branches are left out.

### Actions of `Execution` and the code

| actions | code |
|---|---|
| `TickBegin`, `ReapAlive`, `ReapSucceeded`, `ReapFailed` | `reap_finished_agents`: the list, then one run at a time |
| `AdvanceStory`, `FailStory` | `determine_story_progress` for the run just reaped |
| `CheckTimeouts`, `TimeOut` | `check_agent_timeouts`, with the ten seconds before SIGKILL |
| `Schedule` | `schedule` on rows read now |
| `StartNextTask`, `CompleteStory` | `execute_story_progress_actions`, `start_task_execution`, `execute_complete_story` |
| `UpdateEpicStatus`, `MarkStoryReady`, `StartStory`, `TickEnd` | `execute_actions`, `execute_start_story` |
| `AgentExit`, `WriteExitCode` | the process, and the background task of `start_task_execution` or `spawn_agent_for_task` |
| `SetExecutionEnabled`, `StopAll`, `CleanWorktrees` | commands that check nothing they later rely on |
| `BeginTaskCommand` then `Retry` or `Skip` | `handle_exec_retry`, `handle_exec_skip`: reads, then writes |
| `BeginStoryCommand` then `ContinueFailed`, `ContinueCancelled`, `Stop`, `Cancel` | the same for stories |
| `Crash`, `Recover` | the process ends at any point; `recover_stale_agents`, `fail_orphaned_in_progress_items` |

`Overlap = TRUE` is the code: commands run whenever they like. `Overlap = FALSE`
lets a command run only between two ticks and alone, which is what
`docs/daemon.md` promises; what holds only then is a property the daemon would
have if it kept the promise, and the runs and theorems say which setting they
use. Background tasks and agents interleave freely in both.

`Ops` and `Faults` choose the commands clients issue and what can go wrong
(`setup`: the prompt cannot be prepared, `spawn`: the process cannot be started,
`worktree`: git refuses one, `deliver`: a step of the delivery fails,
`timeout`: an agent exceeds max_time_per_task, `crash`).

### State of `SpecSessions` and `Planning` and the code

| variable | code |
|---|---|
| `spec` | rows of `specs`, by insertion: name, status, session_active, whether claude_session_id is set |
| `file` | the spec file of a name exists (rows with one name share it) |
| `turn` | tasks in `stream_claude_spec_session` |
| `wave` | rows of `decomposition_sessions`: status, wave_number, whether claude_session_id is set |
| `link` | rows of `decomposition_specs` |
| `plans` | the work items of a wave, one entry for what one stream inserted |
| `stream` | tasks in `stream_claude_decompose`, with the specs they were given |
| `call`, `planCall` | a spec.* or plan.* command between its checks and its writes, with what it has read |

| actions | code |
|---|---|
| `BeginNew`, `FinishNew`; `Answer` | `handle_spec_new`, `handle_spec_answer` |
| `BeginSpecCommand`, then `FinishResume` or `FinishSpecCommand` | `handle_spec_resume`; `handle_spec_approve`, `_reopen`, `_deactivate`, `_delete` |
| `TurnFailsToSpawn`, `TurnSpawns`, `TurnEnds`, `StoreTurn` | `stream_claude_spec_session`: a turn looks for the file and then writes the row |
| `WriteSpecFile` | Claude writes the file, while a turn listens |
| `BeginGenerate`, `FinishGenerate` | `handle_plan_generate` up to the wave number, and from the insertion of the wave |
| `BeginPlanCommand`, then `FinishFeedback`, `FinishApprove` or `FinishDiscard` | `handle_plan_feedback`, `_approve`, `_discard` |
| `StreamFailsToSpawn`, `StreamSpawns`, `StreamEnds`, `InsertPlan`, `MarkSpecs` | `stream_claude_decompose`, `build_and_persist_work_items` |
| `Execute` | what ticks and exec commands do to the stories of a wave, in summary |
| `Restart` | a crash and `reset_all_active_spec_sessions` |

`SpecFaults` and `PlanFaults` choose what can go wrong (`prompt`: the prompt
cannot be rendered, `spawn`: Claude cannot be started, `no_id`: a turn ends
without a session id, `crash`; `twice`: a spec is named twice, `no_plan`: no
result or no session id, `bad_plan`: an unknown dependency or a cycle).

### The data below the phases

| module, variable | code |
|---|---|
| `DependencyGraph`: `items`, `session`, `deps` | the arguments of `build_dag`; `deps` stands for the maps `forward` and `reverse` |
| `color`, `stack`, `todo`, `report` | the colours of `detect_cycle`, the calls of its `dfs` that have not returned, the neighbours each still has to look at, the path it returns |
| `inDegree`, `queue`, `sorted` | the locals of `topological_sort` |
| `PlanItems`: `rows`, `links` | rows of `work_items` and `dependencies` of the waves |
| `writer` | the plan that the stream of each wave writes, how far `build_and_persist_work_items` is with its dependencies (with the rows, `rows` says), and how it ended |
| `AgentLog`: `status`, `hash`, `head` | the rows of the tasks, HEAD of the worktree |
| `file`, `agent`, `follower` | the log file of a task; a run's row, process, pipe and background task; one exec.log --follow with its two readers |
| `Delivery`: `project`, `status`, `tree`, `mrUrl`, `finished` | rows: projects, stories, worktree_path, mr_url, all tasks done |
| `folder`, `local`, `remote`, `mergeRequest`, `base` | what git and the forge hold: directories, branches, merge requests |
| `job`, `due`, `plan`, `removing` | where the tick is in a start or a delivery and what it still has to do; worktrees a command has listed and not removed yet |
| `ProjectFiles`: `named`, `dirs`, `config`, `age` | rows with the name, the directories, the two `config.toml`, the age of each log |
| `client`, `env` | the commands under way; NFLOW_MAX_PARALLEL |

| actions | code |
|---|---|
| `BuildDag`; `EnterRoot`, `Visit`, `Return`; `Accept`, `SortNext`, `SortEnd` | the checks of `build_dag`; the loop of `detect_cycle` and one turn of `dfs`'s loop; `topological_sort` |
| `Decompose`, `InsertItem`, `InsertDependency`, `Validate`, `Feedback`, `Crash` | `stream_claude_decompose`, one insertion each of `build_and_persist_work_items`, `handle_plan_feedback`'s deletion |
| `AgentCommits`, `AgentConcludes`, `AgentExits` | the Claude process: a commit, a result line, its end |
| `CopyLine`, `WaitForChild`, `StoreExitCode` | the background task of `start_task_execution` |
| `Start`, `Reap`, `TimeOut` | the scheduler: `parse_log_file`, `extract_commit_info`, `evaluate_*_result` |
| `Retry`, `Skip`; `BeginFollow`, `SendLine`, `HistoryEnds`, `SeekEnd`, `NothingCame` | `handle_exec_retry` with its reset, `handle_exec_skip`; `handle_exec_log` |
| `CreateWorktree`, `StoreWorktree` | `execute_start_story` before and after git |
| `Rebase`, `CreateBranch`, `Push`, `Request`, `StoreUrl` | `execute_complete_story`, one call of git or of the forge each, each of which can fail |
| `Clean`, `Delete`, `RemoveWorktree` | worktree.clean and project.delete: the list, then one worktree at a time |
| `BeginInit`, `MakeDirs`, `InsertRow`; `BeginDelete`, `DeleteRow`, `RemoveDirs` | `handle_project_init`, `handle_project_delete` |
| `BeginSet`, `ReadConfig`, `Truncate`, `Write`, `Validate`; `BeginShow`, `Show` | `handle_config_set` (the file is written before it is validated), `handle_config_show` |
| `BeginCleanup`, `LookAt`, `Unlink` | `handle_cleanup_logs` |

`DependencyGraph` starts with any set of stories, waves and dependencies. The
code orders stories by random UUIDs; the model takes them in any order. A plan
of `PlanItems` is what Claude may answer: ids out of order, given twice or left
out, dependencies on nothing, on oneself, in a circle. Commits are kept as the
sequence (`AgentLog`) or set (`Delivery`) of those on top of the base branch;
git itself is external and modelled from how the code calls it.
`ProjectFiles` parses a file to the function of its keys; `u32` is counted
modulo the constant `U32`.

### Processes and the wire

| module, variable | code |
|---|---|
| `DaemonProcess`: `pidFile`, `socket`, `lock` | `~/.nflow/daemon.pid`, `daemon.sock`, `daemon.lock`: whose they are, or that they are empty |
| `phase`, `attached`, `flagged`, `collected` | where each daemon is between start and end; whether it has signal handlers; SHUTDOWN_FLAG; the agents it waits for |
| `running`, `spawned`, `recorded`, `client` | agent processes, those a daemon has started and not yet inserted in `agent_runs`, those that table has as running; where each client is in `ensure_daemon` or in `daemon_stop` |
| `Connection`: `sent`, `taken`, `serving`, `toClient` | the requests in the socket, those the loop has read, those with lines still to come, the lines on their way |
| `published`, `forwarder` | the event channel and the receiver of each forwarding task |
| `waiting`, `stream`, `subscribed`, `trouble`, `seen` | what the client waits for, and how a read ended that failed |

| actions | code |
|---|---|
| `CreatePidFile`, `WritePid`, `RemoveStaleSocket`, `CheckPidFile`, `CleanPidFile`, `Unlink`, the bind in `Startup`, `BindFails` | `write_pid_file`, `remove_stale_socket`, `cleanup_stale_pid_file`, `bind_socket` |
| `StartAgent`, `RecordAgent`, `AgentEnds` | a tick or, also during a shutdown, the thread of exec.retry, exec.skip or exec.continue: spawn, then `insert_agent_run` |
| `BeginShutdown`, `Drain`, `KillSurvivors`, `CloseSocket`, `ErasePid`, `Interrupt`, `Crash` | `graceful_shutdown`, signals with and without handlers |
| `Ensure`, `StartDaemon`, `LockTimeout`, `SocketAppears`, `SocketTimeout`, `Connect` | `ensure_daemon` of the clients, with the lock |
| `FindStale`, `RemoveStale`, `Stop`; `StartForeground` | `daemon_status`, `daemon_stop`; `nflow-daemon --foreground` |
| `Handshake`, `Take`, `Answer`, `StreamLine`, `Subscribe`, `Publish`, `Forward`, `Close` | `handle_client_inner`, `StreamSender`, `handle_subscribe`, `EventBus` |
| `SendCommand`, `ReadAnswer`, `GiveUp`, `SendStream`, `ReadLine`, `Poll`, `Tear`, `Abandon` | the two `socket_client.rs` |

A process can be interrupted between any two calls that touch a file. The variables
`orderly` and `missed` only serve the properties: no daemon was killed; the agents a
shutdown does not know of, since a handler starts them while it goes on, or their rows
are not there, or not read, when it begins. `Tear` is the line that
`try_read_streaming_line` loses when it times out in the middle. Full socket buffers and
the text of messages are left out.

### The terminal interface

| module, variable | code (`app.rs`) |
|---|---|
| `ExecuteView`: `project`, `view`, `open` | `App.project`, `current_view`, the fields that hold a sub-view |
| `tree`, `collapsed`, `selected`, `hideVerify`, `filter`, `confirm` | `ExecuteTreeState`, `FilterState`, `ConfirmState` |
| `Panels`: `list`, `pick`, `typed`, `panel`, `form` | `SpecsListState`, its filter, the sub-view, `PlanGenerateState` |
| `Scrolling`: `text`, `length`, `live`, `offset`, `height` | what is scrolled, whether it still grows, `scroll_offset`, the height of the area |
| `LiveViews`: `dialogue`, `pane`, `logs`, `listening`, `doing` | `SpecDialogueState`, `ExecuteOutputState`, `LogsViewState`, the subscription, the command a handler waits for |
| `requests`, `running`, `lines`, `events` | the connection |
| `request`, `asked`, `pressed` | the last key, or what it made the interface send |

`Key` of `ExecuteView` is `handle_key_event` with its order of precedence, each
disjunct one of its handlers; `DaemonEvent` is what an event makes
`handle_daemon_event` fetch. The actions of `Panels` are the handlers of
`handle_specs_key`, `handle_plan_key` and the dialogs. `PressInText` and
`PressInPane` are the scrolling keys with the height they guess, `Line`, `Stop`,
`Resize` what happens to the text meanwhile. In `LiveViews`, `LiveKey` are the
keys that send something, `PollAny` one round of polling in `event_loop`, `Serve`
the daemon. A tree is given by depths and kinds (`Shape`), what a query matches by
the constants `Titles` and `Matched`; letters, colours and layout are left out, and
of `ui.rs` only what is highlighted, scrolled or shown is modelled. Offsets and lines
are counted modulo `Wide` for u16.

### Abstractions to know about

* In `Execution` a step is the work between two points where something else that matters can
  interfere. The writes for one run in the reaper are two steps (run and task,
  then story); the reads of a command are one step, its writes another. A crash
  between the row of a run and its task, or inside the write half of a command,
  is not modelled, nor is one between spawning an agent and inserting its row.
* The tick acts on stories in the order of their numbers and on progress actions
  in any order (the code: the order of the running rows).
* A process that has exited and not been waited for counts as alive until
  `AgentExit` (as `kill(pid, 0)` sees it), so exit and reaping by `wait` are one
  step. A run whose background task never waits (`exec.skip`) leaves a zombie
  until the runtime collects it; `AgentExit` stands for that moment.
* A settled row (final status, process gone) is freed when a tick begins. No
  action reads one again, so this only bounds the model.
* exec.stop of a wave is exec.stop of its stories one after the other; --force
  of exec.continue is always available.
* A graceful shutdown writes nothing to the database and is, for it, the exit of
  all agents followed by a crash; `DaemonProcess` has its steps.
* In `Planning` a plan is inserted in one step and, if it is bad, left there in one
  step; `PlanItems` has the writes item by item. The writes of plan.discard and
  plan.feedback are one step each.
* spec.resume without a name takes the draft with the newest updated_at; the model
  takes any draft. auto_execute of plan.approve is exec.run of `Execution`.
* Claude goes on writing when a client leaves and its turn ends early; the model
  lets it write the file only while its turn listens, or over a crash.
* Failing database statements, reused PIDs, a failing `git reset` in exec.retry,
  and an agent that survives SIGKILL are not modelled.
* The FailStory action of the reaper is recorded by the code as a progress action
  that nothing executes; the model does not record it.

## 4. Passing runs

| run | instance | shows |
|---|---|---|
| `recovery` | overlap; 1 story, 2 pairs, 2 rows, 1 client; retry, skip, clean; setup, spawn, deliver, timeout, crash | TaskOwnership, TasksInOrder, DoneMeansFinished, SuccessIsExitZero, AgentsHaveWorktree, VerdictIsFinal: with a command racing every step of the tick and every late exit code, and with crashes anywhere |
| `stopping` | serial; 1 story, 1 pair, 2 rows; retry, continue, stop, stop --all, cancel, clean --all; crash | OwnershipInv (an inductive invariant of the proofs), DeliveredIsDone |
| `dependencies` | overlap; 3 stories, the last waits for two, 1 pair, 2 slots, 2 rows, 1 client; retry, skip, clean; spawn, deliver | DependenciesRespected, with a command racing every step of the tick and deliveries that fail when dependents are planned |
| `progress` | serial, fair; 2 stories in a chain and one epic, 2 pairs, 2 rows; run, pause; worktree, deliver, timeout | EveryStorySettles, EpicFollowsStories |
| `lifecycle` | serial; 2 stories in a chain, 1 pair, 2 rows; run, pause, retry, cancel; setup, timeout, crash | FollowsLifecycle: the daemon implements WorkItemLifecycle |
| `planning` | 2 clients; 1 spec, 1 turn, 2 waves, 1 stream, 1 plan in a wave; new, approve and all plan commands; all faults but no_id | DraftsPerClient, NumbersPerClient, DiscardedIsFinal |
| `plans` | 1 client; 2 specs, 2 names, 2 turns; all spec commands; crash | LooseSpecsFollowLifecycle |
| | every graph of at most 3 stories in 2 waves | CyclesAreFound, SortIsTopological, WaveNeverStalls |
| | 2 waves of one project; plans of 2 stories in 1 or 2 epics with 2 and 1 tasks | EveryItemIsReached |
| `screen` | a tree of 7 nodes, 2 projects, 2 queries | VisibleIsExact, SendsWhatWasConfirmed |
| | up to 2 specs of each of 2 projects, all dialogs | GeneratesApproved |
| | texts of up to 9 lines, a width of 8, 3 heights | KeysMoveAsNamed |
| | 2 specs, 1 task; 2 keys that send, 1 line and 1 refresh | LinesAreOwn, TurnsEnd |
| `streams` | 3 requests, streams of 1 line, 2 events, a channel of 1; either client | InSync, EventsInOrder, ClientReturns |
| | 3 tasks (two of them impl), 3 runs, 3 lines; retry, skip, silent and failing agents, timeouts; or retry and follow | VerdictByOwnOutput, DoneWorkIsKept, LinesInOrder |
| `daemon` | 3 daemons, 2 clients, no agents, 1 fault (kill, slow, or a daemon in the foreground) | OneDaemon, Served |
| | 3 daemons, 2 of them at a time, 1 client, 2 agents; 2 of slow starts, a database that cannot be read, and daemons in the foreground, the only ones that end by a shutdown | NothingIsLeft |
| `projects` | 3 stories with 2 names in 2 waves and 2 projects of one name, all commands, every step of git failing, crash | OneStoryPerBranch, DeliveredWhole, WorkSurvives |
| | 2 clients, 3 rows of projects, 2 sets, 2 logs | NothingIsInherited, SetsAreKept |

Together they fire every action. Each property is sensitive to a plausible bug:
the operators marked "Mutant of" replace the definition they name and TLC then
finds the property violated. A .cfg also names, as comments, further properties
of its modules that hold in the same instance: type invariants, and properties
that add less to the ones above.

**Bounds.** `Run` bounds the rows in use at a time, not their number over time,
because settled rows are reused; a story has one agent (OneAgentPerStory), and a
second row is needed while a cancelled agent is still ending. When no row is
free the start of an agent must wait, which the code never does: deadlock is
checked in the runs of `Execution` and none is found. Two pairs are the least for
which "the next task" can be in the same pair, in the next pair or missing; one
pair is enough where the order of tasks is not asked about. Stories interact
through dependencies, slots and epics only: two in a chain, three for a join and
for the choice of which to start. One client is enough for a command against the
tick; two clients race in `doc_two_retries`.

In `planning`, two clients are the least for two plan.generate that overlap, and two
waves for a second draft, a second number and a discarded wave beside a live one; one
stream suffices, since what it does late it does to a wave that a command has closed
before, and one spec because waves meet in one spec. In `plans`, two specs may have one name
or two, and two turns may belong to one spec. Three stories are the least for a
cycle that the search enters from outside; the theorems take any number. Two
epics, ids out of order, and two waves with the same ids are the cases in which an
address could find two rows or none.

In `screen`, the tree has a sibling after a nested node and a task after a
hidden one; nine lines of a width of eight are the least with which a u16 that wraps
and all three heights (lower than the keys guess, as high, higher) meet. In
`streams`, three requests are a stream, one given up and a third that could take
the answer of either; a channel of one makes any second event an overflow. Three
runs are a task, its failed verification and the retry. In `daemon`, three
process ids are one of a daemon that has died, with its files, and two that clients
may start at the same time; an id is used again when no file names it. With two
faults Served fails: see section 6. Of a shutdown, two agents are one that is collected
and one that is not, and the second daemon is one that starts while the first ends. In
`projects`, the third story has the number and title of the first and belongs to
the project that is initialised after the first was deleted, or to a later wave.
`MaxSpecs`, `MaxWaves`, `MaxPlans`, `MaxRequests`, `MaxEvents`, `MaxLines`,
`MaxRuns`, `MaxPrinted`, `MaxCommits`, `MaxBase`, `MaxRows`, `MaxSets`, `MaxAge`,
`MaxKeys`, `MaxText`, `MaxRefreshes`, `MaxTrouble` bound what the code lets grow: an
action that needs more stops there. Where that ends a behaviour for good the
configuration has CHECK_DEADLOCK FALSE (`streams`, `daemon`, `projects`); the
first two also end when every client has left.

**Settings.** The combinations of commands and faults are those for which the
property holds; what breaks it outside is in section 6. DoneMeansFinished,
TaskOwnership and the others of `recovery` need no serialization as long as the
commands are retry, skip and clean. DependenciesRespected holds with them, too, and
with deliveries that fail. It does not hold with exec.cancel racing the tick, with
exec.stop or with exec.continue: a story that is cancelled counts as resolved for its
dependents, and gets an agent all the same, keeps a task that failed, or is taken up
again. FollowsLifecycle does not hold with exec.stop and a retry afterwards (a cancelled
story gets in progress tasks, which `story_start`, `work_item.rs` line 194, does not
allow), nor with spawn faults or exec.skip in parallel; `lifecycle` has the largest set of
commands and faults that we found to stay inside it. With the others the daemon leaves
the state machine by the departures that `WorkItemLifecycle` lists (a story
is done by exec.skip though it had failed, is undone by a failed delivery, restored by
exec.continue, ...) and by no other: KeepsToLifecycle, which `dependencies` names
as a comment and section 5 proves.

A client of `planning` or `plans` waits for the answer to its command but not for the
turn or the stream it has started. `plans` has one; with two LooseSpecsFollowLifecycle
is not claimed. `planning` has two: what is documented, one draft wave and one wave of a
number, fails then (section 6), and DraftsPerClient and NumbersPerClient say what is
left of it, which with one client is what is documented. EveryItemIsReached is about one
project whose plans have distinct ids, which the code does not ensure; section 6 has
what happens otherwise. Several properties say in their definition what they are about:
LinesAreOwn while no request overtakes a stream, TurnsEnd without events, DeliveredWhole
and WorkSurvives for stories no command has interfered with, VerdictByOwnOutput for
tasks that were not skipped and whose agent printed something, NothingIsLeft when no
daemon was killed and about agents that a shutdown could know of, DiscardedIsFinal
unless a plan.approve had read the wave as a draft, SetsAreKept for sets that do not
overlap. In each case section 6 has what happens otherwise.

**Fairness.**

* `Execution` (`progress`, and `doc_resume` of section 6). The timer in `main.rs`
  fires every two seconds for as long as the daemon runs, and the tick's own
  loops are bounded by the rows they read: weak fairness of SchedulerStep. Time
  passes, so a run that goes on is found late by some tick, although any one
  tick may come too early: strong fairness of "a tick finds r late", for each
  run r. Nothing is assumed of agents, which may run forever, of background
  tasks, which may be slow, or of clients, which may never come back. The two
  properties are conditional on execution staying enabled at last, since a
  paused project rightly stands still.
* `Connection`: the tasks of the daemon and of a client that reads get to run
  (weak). A client that waits has a timeout (`command_timeout`), and that is
  what ClientReturns rests on: a daemon that handles one long request answers
  nothing else meanwhile. Nothing is assumed of what a client sends.
* `AgentLog`: tokio polls the stream of exec.log --follow (weak).
* `LiveViews`: the daemon's turns and follows end and a command is answered or
  times out (weak); `event_loop` polls once in every round, whatever keys are
  pressed, though a popup or another view may keep it from polling for a while
  (strong).
* `DaemonProcess`: processes run (weak), and a client that polls the lock every
  100 ms gets it at last when it is free again and again (strong). A client that
  failed is started anew by its user.

## 5. Theorems

| theorem | statement | assumes |
|---|---|---|
| `ExecutionProofs!TypeCorrect` | `Spec => []TypeOK` | the constants' assumptions |
| `ExecutionProofs!SuccessIsTrue` | `Spec => []SuccessIsExitZero` | the same: overlapping commands, crashes, all of Ops and Faults |
| `ExecutionProofs!NobodyLosesAnAgent` | `Spec => []OwnershipInv` | CommandsTakeTurns |
| `ExecutionProofs!AgentsOwnTheirTasks` | `Spec => []TaskOwnership` | CommandsTakeTurns |
| `ExecutionProofs!VerdictsAreFinal` | `Spec => VerdictIsFinal` | CommandsTakeTurns |
| `StoryProofs!DoneStoriesAreFinished` | `Spec => []DoneMeansFinished` | CommandsTakeTurns |
| `StoryProofs!DeliveredStoriesAreDone` | `Spec => []DeliveredIsDone` | CommandsTakeTurns |
| `StoryProofs!TasksRunInOrder` | `Spec => []TasksInOrder` | CommandsTakeTurns, Unstopped |
| `StoryProofs!AgentsWorkAlone` | `Spec => []OneAgentPerStory` | CommandsTakeTurns, Unstopped |
| `StoryProofs!AgentsKeepWorktrees` | `Spec => []AgentsHaveWorktree` | CommandsTakeTurns, Unstopped, no clean --all |
| `LifecycleProofs!DependenciesAreRespected` | `Spec => []DependenciesRespected` | CommandsTakeTurns, Unstopped, no exec.continue |
| `LifecycleProofs!DaemonKeepsToLifecycle` | `Spec => KeepsToLifecycle` | CommandsTakeTurns, Unstopped |
| `LifecycleProofs!DoneItemsAreFinished` | `Spec => []DoneIsFinished` (of WorkItemLifecycle) | the constants' assumptions |
| `LifecycleProofs!DoneItemsStayDone` | `Spec => DoneIsForever` (of WorkItemLifecycle) | the same |
| `LifecycleProofs!DoneTasksStayDone` | `Spec => Lifecycle!DoneTaskIsForever` (of Execution) | CommandsTakeTurns, Unstopped |
| `PlanningProofs!TypeCorrect` | `Spec => []TypeOK` (of Planning) | the constants' assumptions |
| `PlanningProofs!DraftsAreBounded` | `Spec => []DraftsPerClient` | the same: any clients whose commands overlap |
| `PlanningProofs!NumbersAreBounded` | `Spec => []NumbersPerClient` | the same |
| `PlanningProofs!DiscardIsFinal` | `Spec => DiscardedIsFinal` | the same |
| `PlanningProofs!LooseSpecsKeepToLifecycle` | `Spec => LooseSpecsFollowLifecycle` | one client |
| `PlanningProofs!GraphTypeCorrect` | `GraphSpec => []GraphTypeOK` | finitely many stories |
| `PlanningProofs!CyclesAreFoundExactly` | `GraphSpec => []CyclesAreFound` | the same |
| `PlanningProofs!PlansAreSorted` | `GraphSpec => []SortIsTopological` | the same |
| `PlanningProofs!WavesNeverStall` | `GraphSpec => []WaveNeverStalls` | the same |
| `PlanningProofs!NothingIsOutOfSight` | `ItemsSpec => []NothingIsHidden` | PlansAssumption: a plan is a list of epics with their stories |
| `StreamsProofs!TypeCorrect`, `LogTypeCorrect` | `Spec => []TypeOK`, `LogSpec => []LogTypeOK` | the constants' assumptions |
| `StreamsProofs!EventsComeInOrder` | `Spec => []EventsInOrder` | the same: either client, lost lines, full channels |
| `StreamsProofs!ClientStaysInSync` | `Spec => []InSync` | the same |
| `StreamsProofs!FollowersReadInOrder` | `LogSpec => []LinesInOrder` | the same |
| `StreamsProofs!VerdictsAreOwn` | `LogSpec => []VerdictByOwnOutput` | the same: attempts in one file, timeouts, skips |
| `StreamsProofs!CommittedWorkIsKept` | `LogSpec => []DoneWorkIsKept` | the same |
| `ProjectsProofs!TypeCorrect` | `Spec => []TypeOK` (of Delivery) | the same |
| `ProjectsProofs!BranchesHaveOneStory` | `Spec => []OneStoryPerBranch` | the same: all commands, every step of git failing, crashes |
| `ProjectsProofs!DeliveriesAreWhole` | `Spec => []DeliveredWhole` | the same |
| `ProjectsProofs!FinishedWorkSurvives` | `Spec => []WorkSurvives` | the same |
| `ProjectsProofs!SetsStay` | `FilesSpec => []SetsAreKept` | the same: any clients, crashes |
| `ProjectsProofs!NothingIsLeftBehind` | `FilesSpec => []NothingIsInherited` | the same |
| `DaemonProofs!TypeCorrect` | `Spec => []TypeOK` | the same |
| `DaemonProofs!ShutdownLeavesNothing` | `Spec => []NothingIsLeft` | the same: any daemons, clients, agents and faults |
| `DaemonProofs!OneDaemonStarts` | `Spec => []OneDaemon` | the same |
| `ScreenProofs!KeysReachOne` | `Spec => []OneSubView` (of ExecuteView) | the same: any tree and projects |
| `ScreenProofs!SendsConfirmed` | `Spec => SendsWhatWasConfirmed`, and what is sent is a question's | the same |
| `ScreenProofs!ListsAreExact` | `Spec => []VisibleIsExact` | the same |
| `ScreenProofs!SomethingIsSelected` | `Spec => []SelectionInRange` | the same |
| `ScreenProofs!PlansAreOfApproved` | `PanelsSpec => GeneratesApproved` | the same: any specs, projects and filters |
| `ScreenProofs!KeysMoveText` | `ScrollSpec => KeysMoveAsNamed` | the same: any heights, texts and widths of the counters |
| `ScreenProofs!ViewsShowTheirOwn` | `LiveSpec => []LinesAreOwn` | the same: any keys, events, streams, a lost connection |

They hold for every value of the constants that the modules' assumptions admit: any
number of stories, pairs, epics, slots, rows, clients and logs, of specs, waves,
plans and streams, of requests, events, lines, commits, projects, daemons and faults,
whatever names and numbers they share, and, where nothing else is said, any set of
commands and faults. What is assumed of the daemon's use is

* CommandsTakeTurns (`Execution`): a command runs between two ticks and alone, as
  `docs/daemon.md` says it does; or there is one client that waits for its answers, at
  any time, and it issues run, pause, retry, skip, clean and clean --all only. The
  second is the code as it is (`recovery`).
* Unstopped: no exec.stop, whose stories go on with tasks that are pending behind one
  that has failed (NothingRunsBehindFailure in section 6).

Each is needed: sections 4 and 6 name what TLC finds without it.

*SuccessIsTrue.* That a succeeded run ended with exit code 0 is not inductive:
the reaper believes the exit codes it read when the tick began. ExitCodesAreTrue
adds that a code of zero, in a row or in the tick's list, belongs to a process
that ended well, and that a row on the list is not freed and reused under it.

*NobodyLosesAnAgent, AgentsOwnTheirTasks.* What can go wrong is that a tick starts
an agent for a task that has one, or fails the task of another's agent. OwnershipInv
adds to TaskOwnership that the tick is up to date (a run on its list is still running
and is there once; a task it is about to start has no agent and is there once;
outside the tick the lists are empty) and that a command is alone (no other works, and
the task it retries or skips is failed as it was read). Each action preserves the
three together: a start finds a task without agent, since it was pending or failed
before and tasks with agents are in progress. With two clients `doc_two_retries`
violates it.

*VerdictsAreFinal.* By OwnershipInv, what the tick decides about is still
running when it decides. With overlap, exec.stop could cancel a run that the
reaper has on its list.

*TasksRunInOrder, AgentsWorkAlone.* SequenceInv says more than TasksInOrder: when a task
is not pending, all before it are finished (TasksInSequence); what the status of a story
and a verdict about to be acted on say of its tasks (StatusFitsTasks, VerdictFitsTasks);
and that the stories a tick will start and the rows a command has read are still as they
were (PlanIsUpToDate, CallIsUpToDate). So the task that is started, retried or skipped
is the first that is not finished. Two agents in one story would work on two tasks in
progress, one of which is before the other.

*DoneStoriesAreFinished, DeliveredStoriesAreDone.* A story is declared done by the tick,
by exec.skip and by exec.continue, each from tasks read earlier. DeliveryInv adds
DeliveryIsUpToDate: what is reaped has not been delivered and, if it succeeded, is of a
story that is not done; what waits to be delivered is done, not yet delivered, and on
the list once.

*AgentsKeepWorktrees.* WorktreeInv: every agent has its worktree and a command that has
seen one still finds it. worktree.clean takes those of stories that are done or
cancelled, and by the invariants before no agent works for these.

*DependenciesAreRespected.* The tick plans a start before it makes it, and what it has
planned from may change until then: a delivery fails, a command takes a story up again.
That a blocker is done or cancelled is therefore not what stays. DependencyInv says of
every story past pending, and of those a tick is about to make ready (ReadinessInv), that
the tasks of its blockers are finished; and finished work stays finished, though
a story may fail again: a task is only started that was pending or failed, and in a story
whose tasks are finished there is none. The tasks of a cancelled story are finished
because nobody stops one in the middle (Unstopped), and stay so because nobody continues it.

*DaemonKeepsToLifecycle, DoneTasksStayDone.* The daemon writes statuses without asking
`work_item.rs`. Every step is mapped to a step of the widened state machine or to none,
with the statuses mapped to themselves. The invariants of the theorems before make the
abstract guards true: which task is failed, started or skipped is known from
OwnershipInv and SequenceInv, that a story is completed with finished tasks from
DeliveryInv, that one is made ready behind finished blockers from ReadinessInv. The narrow
state machine FollowsLifecycle is only model-checked, in the setting in which it holds.
What holds of the abstract specification then holds of the daemon, and
DoneTasksStayDone is such a property; that done stories stay done holds of `work_item.rs`
(DoneItemsStayDone) and not of the daemon.

*DraftsAreBounded, NumbersAreBounded, DiscardIsFinal.* plan.generate looks for a
draft and computes its number in one step and opens the wave in a later one;
plan.approve reads the status and writes it later. WavesInv counts: the drafts there are
and the clients between the two steps are no more than the clients, and likewise the
waves of a number and the clients that hold it. A command that begins finds no draft and
no wave of its number, so that only the clients that have begun are counted; one that ends
turns a client into a wave. Turns, streams and the execution open no wave, and what is
discarded stays so since only a plan.approve that had read the draft, which the property
leaves out, writes a status over it.

*LooseSpecsKeepToLifecycle.* A command reads a spec and writes it later. LooseInv: what it
has read of a spec outside all waves is still its status, since turns write only
to specs that are drafts or leave their status alone, streams know specs of waves
only, and with one client no other command works.

*CyclesAreFoundExactly.* The code's search keeps a stack of calls and three
colours. GraphInv says what they mean: the stack is a path through the graph and
holds exactly the gray stories, each once (StackInv); what a story on the stack
has looked at is black or directly above it (TodoInv); a black story blocks only
black ones, and among black stories there is no cycle (BlackInv). A gray neighbour
then closes a path into a cycle, so what is rejected has one; when a story is turned
black it blocks none of the stories that were black before it, so that any set
of black stories still has one that waits for none of them; and when all are
black, nothing is left in which a cycle could be. "No cycle" is stated as "every
set of stories has one that waits for none of the set", which needs no
recursion and, for a finite set, is the same.

*PlansAreSorted.* The loop of `topological_sort` keeps in inDegree the number of
blockers that are not sorted yet, and in the queue those with none (SortInv).
When the queue is empty and stories are left, they are a set of which each
waits for another of the set, which an accepted graph has not; counting them
against the sorted sequence uses that it lists none twice.

*WavesNeverStall.* The stories that are neither done nor cancelled are such a set,
too: the one that waits for none of them is ready.

*EventsComeInOrder, ClientStaysInSync.* Answers, lines and events share one queue.
EventsInv: the queue holds only events the forwarding task is past, with rising numbers
and above those the client has seen, also when the channel has overflowed and the task
has skipped some. SyncInv is about the command line client, which gives up after its
first failure: as long as it has none, all that is handled or on its way belongs to its
last request and nothing follows an answer or the last line of a stream
(LastRequestOnly).

*FollowersReadInOrder, VerdictsAreOwn, CommittedWorkIsKept.* All attempts at a task
write one file, the reaper reads its last line, and a follower may sit between two lines.
FollowInv: what was told is before the line that comes next. RunsInv: one agent runs at a
time and its pipe is empty when its exit code is stored. OutputInv: what it printed last
is the last of the pipe or, if that is empty, of the file. So the verdict is about its
own output, and CreditInv keeps it so. For DoneWorkIsKept, StackInv: as long as each
agent commits its own work and nobody skips a task, the tasks are done one by one
(OneByOne), the commits of done tasks are below HEAD and each other in their order
(Stacked), and what the running agent has committed is on top of all of them (OnTop);
exec.retry resets to the commit of the last done task, which takes no other with it.

*BranchesHaveOneStory, DeliveriesAreWhole, FinishedWorkSurvives.* Worktree and branch are
named by the story's short id and title, which stories of other waves and projects
share. WorktreesInv: a worktree that a story knows is its own, what is to be removed
belongs to no story that is starting, and what was created and is not stored yet is empty. So
commits of two stories never meet in a place, and a delivery passes all of a
story's commits from place to place (BranchesInv: Owned, PassedOn). TickInv says what the
rows a tick has read still mean when it acts on them. SurvivalInv: a finished story
keeps its worktree until it has its merge request, unless a command has interfered (hurt).

*NothingIsOutOfSight.* ItemsInv: what is there of a wave is the beginning of the plan
its stream has, in the order of insertion. A story comes after its epic and a task after
its story, so that the row a row is part of is there, and both go together. That an
address finds the row is model-checked only, since nothing in the code keeps ids apart.

*SetsStay, NothingIsLeftBehind.* config.set reads a file, empties it and writes it.
SetsInv: what a set is about to write is what the sets of the file have asked for, with
its own key, from when it has read the file; another set, the removal of the
directory or the end of the daemon in between makes the file one of mixed. InheritedInv: the
keys and logs there are, and those that the sets under way are about to write, are of
rows that are there, until project.delete has removed its row, when the directory
goes next.

*ShutdownLeavesNothing, OneDaemonStarts.* OrderInv: as long as daemons end by a graceful
shutdown, a PID file or socket names a daemon that lives, and an agent is missed, or a
daemon that serves has it in hand or in the database, or one that shuts down has
collected it. So what is left by the last daemon was started while it shut down, or had
no row that it could read: an agent that exec.retry starts then outlives it, against
`docs/daemon.md` (AgentsAreEnded in section 6). StartInv: as long as nothing goes wrong,
at most one daemon lives, the lock is held while it starts, and the PID file names it
from when it has written it until it is found by its clients.

*KeysReachOne, SendsConfirmed.* A key is for the first sub-view that is open in a fixed
order, and what a handler closes or opens leaves one at most, the popup with its
question. Between the question and the answer the tree is fetched and the selection
moves, but no key that would change the question or the project gets through.

*ListsAreExact, SomethingIsSelected.* A node's ancestors, found parent by parent, are the
nodes above it after which all are deeper (AncestorsAreAbove, by induction on the place
in the tree). The walk back from a match marks just these; what is above a match
matches itself, so that what is skipped behind a collapsed node is what lies below it.
SelectionInv: the selection counts a node that is shown without a filter. A filter only takes
nodes away, collapsing keeps those up to the node that is collapsed, and hiding and fetching
clamp.

*PlansAreOfApproved.* PanelsInv: while the dialog is open, what it offers and what is ticked
in it is approved in the current project's list. No key fetches that list then, and a new
dialog has nothing ticked.

*KeysMoveText.* ScrollInv: in a text an offset is never past what the keys take for the
end. So each key's arithmetic, with its two heights, is a shift by at most what it
was named for.

*ViewsShowTheirOwn.* StreamsInv: as long as nothing is sent too early, at most one
stream is on its way (requested, being written, or with its last line unread), each view
that waits for lines waits for that one, and none is while a command waits for its
answer. Each step of the daemon keeps what is on its way; who reads a line and waits for
it gets one of its own or the last, after which nothing is on its way. The interface
compares nothing; that nothing is sent too early is all that keeps views apart, and
where it is the user's keys decide (AnswerReachesItsSpec in section 6).

The proofs are per action, each with the conjuncts the action can disturb; what
does not touch run, taskStatus or the tick is dealt with at once. The strengthenings are
defined at the end of the component's module, or with their proofs where they are about the
proofs only, and were checked with TLC before they were proved.

**Only model-checked.**

* Liveness under fairness is out of the prover's reach: EveryStorySettles,
  EpicFollowsStories, TurnsEnd, ClientReturns, Served.
* FollowsLifecycle, the narrow state machine in the setting in which it holds, and
  EveryItemIsReached.
* What holds with overlapping commands beyond CommandsTakeTurns, or with exec.stop beyond
  Unstopped, holds only for the instance of its run.

## 6. Where code and documentation disagree

Each line is a property that TLC finds violated with the configuration at the head of
its table; a configuration lists several, one of which is asked for at a time and the
others are comments. `doc_two_retries` is kept as a run.

`doc_execution`, `doc_resume`, `doc_slots`, `doc_stories`,
`doc_races`, `doc_two_retries` (module MCExecution):

| property | says | behaviour |
|---|---|---|
| PassingAgentIsCredited (`doc_execution`) | phases.md:531 | the agent exits with 0; the tick sees it gone before the background task stores the code; a missing code counts as 1 and the task fails (`scheduler_loop.rs` 288) |
| AgentAfterSkipIsCredited (`doc_resume`) | cli.md:348 | exec.skip starts the next task with a background task that never waits (`handlers.rs` 3871), so it fails whatever it does |
| SuccessIsEarned (`doc_stories`) | phases.md:519 | logs are named by short_id, which each wave numbers from 1; a task that commits nothing succeeds on the output of another (`scheduler_loop.rs` 1211) |
| SuccessIsEarned (`doc_execution`) | phases.md:528 | the log holds the commit of an earlier attempt, and a retry that commits nothing succeeds (`scheduler_loop.rs` 137) |
| DoneIsDelivered (`doc_execution`) | handlers.rs:3916, phases.md:606 | exec.skip of the last task, or exec.continue after a failed delivery (`handlers.rs` 4123), leaves the story done; no tick looks at it again and nothing is delivered |
| OneAgentPerTask (`doc_two_retries`) | daemon.md:296 | two clients retry one failed task: two agents in one worktree (`handlers.rs` 3184) |
| ResumedStoryRuns (`doc_resume`) | phases.md:660 | exec.stop, exec.continue: the story and its task are in progress for good, without an agent (`handlers.rs` 4181) |
| AdoptedAgentIsCredited (`doc_execution`) | daemon.md:276 | an agent that survives a crash is not read or waited for again, and is reaped as failed (`recovery.rs` 77) |
| SlotsAreRespected (`doc_slots`) | phases.md:714 | a tick starts the next task of one story and a new story: more agents than slots (`main.rs` 199: it is planned before the next tasks are started, `scheduler.rs` 188) |
| PausedStartsNoAgent (`doc_execution`) | cli.md:278 | a task reaped during a pause is followed by the next one (`scheduler_loop.rs` 618) |
| VerdictIsFinal (`doc_races`) | daemon.md:296 | exec.stop cancels a run that the reaper has on its list; the reaper writes its verdict over it (`scheduler_loop.rs` 323) |
| CancelledHasNoAgent (`doc_races`) | daemon.md:198 | exec.cancel after planning and before starting: a cancelled story with an agent, or one that is started all the same (`scheduler_loop.rs` 1457) |
| FailedHasNoAgent (`doc_races`) | data-model.md:246 | exec.retry between the reaper's writes of task and story: an agent works for a story that is then failed (`scheduler_loop.rs` 463) |
| NothingRunsBehindFailure (`doc_execution`) | phases.md:457 | exec.stop fails the running task, exec.continue goes on with the pending ones behind it (`handlers.rs` 4163) |
| RecoveryLeavesNoOrphan (`doc_execution`) | daemon.md:279 | recovery fails the task and leaves its story in progress (`recovery.rs` 162) |
| FinishedStoryIsCompleted (`doc_execution`) | recovery.rs:172 | a crash between the last task and its story: the list of stories to complete is computed and dropped (`main.rs` 130) |
| ReadyAfterDelivery (`doc_stories`) | data-model.md:244 | a story is done before it is delivered; its dependents are planned, then the delivery fails (`scheduler_loop.rs` 547) |
| CleanSparesActiveStories (`doc_execution`) | cli.md:441 | worktree.clean --all takes the worktree of a story in progress (`handlers.rs` 5271) |
| FailedTaskFailsStory (`doc_execution`) | phases.md:399 | a spawn that fails fails the task and leaves the story in progress (`scheduler_loop.rs` 1199) |

`doc_planning`, `doc_sessions` (module MCPlanning), `doc_addresses`
(MCPlans):

| property | says | behaviour |
|---|---|---|
| FreedSpecsAreUnassigned (`doc_planning`) | cli.md:259 | after plan.discard the specs are approved and still linked to the wave; plan.generate never offers them again (`db/specs.rs` 158) |
| DiscardSparesWork (`doc_planning`) | daemon.md:230 | a story starts between plan.discard's check and its deletion (`handlers.rs` 2767) |
| WaveNumbersAreDistinct (`doc_planning`) | data-model.md:182 | two clients generate; both read the same next number (`handlers.rs` 1565), and there is no unique index |
| OneDraftWave (`doc_planning`) | phases.md:369 | two clients generate; both find no draft (`handlers.rs` 1485) |
| SpecInOneWave (`doc_planning`) | phases.md:371 | a wave is approved before its plan is stored; its specs are still approved and can be named for the next wave (`handlers.rs` 1503) |
| DecomposedHasPlan (`doc_planning`) | data-model.md:38 | a wave is discarded while its stream is at work; the stream marks the specs as decomposed (`handlers.rs` 2097) |
| DeletedIsFinal (`doc_planning`) | data-model.md:39 | a spec is deleted while its wave is being generated; stream or discard bring it back (`handlers.rs` 2794) |
| OnePlanPerWave (`doc_planning`) | phases.md:329 | plan.feedback while the first stream is at work: both insert their plans (`handlers.rs` 2539) |
| OneActiveSession (`doc_sessions`) | phases.md:57 | a spec is approved during its turn, which activates it again when it ends; meanwhile another session was begun (`handlers.rs` 747) |
| OnlyDraftsTalk (`doc_sessions`) | cli.md:135, 148 | the same: an approved or deleted spec with an active session |
| SessionIdIsKept (`doc_sessions`) | handlers.rs:740 | a turn that finds the file written and has no session id clears the one of the previous turn (`handlers.rs` 744) |
| StoriesAnswer (`doc_addresses`) | data-model.md:306, cli.md:18 | a story's row holds W1-S1 itself, so that the address W1-S1 asks for S1 and finds nothing (`db/work_items.rs` 355) |
| EveryItemIsReached (`doc_addresses`) | data-model.md:306 | with a second project, or ids that Claude gave twice or left out, one address finds several rows and a command acts on any of them |

`doc_streams` (module MCStreams), `doc_interface` (Connection), `doc_daemon`
(DaemonProcess), `doc_projects` (MCProjects), `doc_screen` (MCScreen):

| property | says | behaviour |
|---|---|---|
| LastGoodCommitRemains (`doc_streams`) | cli.md:315 | a retry behind a skipped task resets the worktree to the base branch, past the commits of the tasks before (`handlers.rs` 3249) |
| DoneByOwnCommit (`doc_streams`, scene SilentAgents) | phases.md:528 | the hash that makes a task done is the last in its file, also one of an attempt that failed and was reset |
| NoLineIsMissed (`doc_streams`, scene Following) | cli.md:308 | the second reader of exec.log --follow begins at the end the file has then: lines written in between, and those after the reader gave up, are not sent (`handlers.rs` 5032, 5108) |
| StreamsEnd (`doc_interface`) | nflow-tui main.rs:187 | an event during a stream makes the interface send a command, which takes the stream's last line for its answer; the stream never ends |
| NoTwoDaemons (`doc_daemon`) | daemon.md:51 | the socket file of a daemon that crashed is taken for that of the new one, the lock is released too soon and a second daemon is started |
| AgentsAreEnded (`doc_daemon`) | daemon.md:262 to 268, shutdown.rs:163 | while a daemon shuts down its accept loop and its handlers go on; exec.retry, exec.skip or exec.continue starts an agent after the running ones were collected, and it outlives the daemon (`handlers.rs` 3470, 3829, 4804) |
| StopCleansUp (`doc_daemon`) | daemon.md:35 | in the background no signal handler is installed: `daemon stop` kills the daemon, and agents and files remain (`daemon.rs` 188) |
| Served (`doc_daemon`) | daemon.md:51 | a daemon in the foreground removes the socket of the one a client has just started and dies: that one runs on and nobody reaches it (`recovery.rs` 206); or a daemon dies between creating its PID file and writing it; clients take the empty file for a daemon that is not there, or a new one's for a stale one, and go on failing |
| CleanSparesActive (`doc_projects`) | cli.md:441, 444 | worktree.clean lists, then removes: exec.continue in between, and a story in progress loses its worktree (`handlers.rs` 5271) |
| NoSetIsLost (`doc_projects`) | config.md:70 | two config.set of one file read it before either writes it (`handlers.rs` 5838) |
| ProjectHasDirs (`doc_projects`) | setup.md:85 | project.init makes the directories while project.delete of its predecessor is about to remove them |
| AsksAboutHighlighted (`doc_screen`) | tui.md:231 | with a filter, s asks about another story than the highlighted one (`app.rs` 972, `ui.rs` 670) |
| OpensHighlightedLog (`doc_screen`) | tui.md:233 | the list of tasks highlights one task, Enter opens the log of another (`ui.rs` 1012) |
| ActsOnHighlighted (`doc_screen`) | tui.md:70 to 72 | with a filter, a key of the specs view acts on another spec than the highlighted one |
| ApprovedAreKept (`doc_screen`) | tui.md:72 | d deletes an approved spec without asking (`main.rs` 1140) |
| EndsAreReached (`doc_screen`) | tui.md:262 | in an area lower than the keys guess, and beyond 65,536 lines, g and G do not reach the ends (`event.rs` 306, 742, `ui.rs` 968, 1122) |
| PaneMovesAsNamed (`doc_screen`) | tui.md:262 | the output of a task that has ended is scrolled against its keys (`app.rs` 1286) |
| EndIsFollowed (`doc_screen`) | tui.md:262 | when a task ends, its output jumps to the first line |
| AnswerReachesItsSpec (`doc_screen`) | tui.md | after Esc in a dialogue whose turn is running the next dialogue takes the last line of that turn, and the answer typed there goes to the spec that was left (`main.rs` 313) |
| TurnsEndAnyhow (`doc_screen`) | nflow-tui main.rs:187 | the command an event makes the interface send takes the line that ends a turn, and the dialogue waits for good |

Seen while reading, without a property:

* exec.stop marks running tasks failed where data-model.md:272 says cancelled;
  phases.md:659 says that exec.continue takes tasks with a commit for done, the
  code does not look at commit_hash.
* The cycle reported for a story that depends on itself includes those before it on
  the path (`dag.rs` 185).
* The clients and the handlers do not agree on names: worktree.list and
  worktree.clean need `project` and are sent `project_name`; the client asks for
  `cleanup`, the daemon knows `cleanup.logs`; plan.feedback wants `message` and
  `wave_number`, the terminal interface sends `feedback`, the command line `wave`;
  config.set gets every value as a string; the command line's log does not name
  the project.
* cli.md:421 and config.md:94 say that cleanup deletes the logs of done stories, the
  code asks for an age or for all; `worktree clean --all` is all projects in cli.md:438
  and all stories of one in the code.
* Durations are multiplied without a check, and max_parallel is cut to 32 bits
  (`handlers.rs` 5587). config.set of a project's key answers `project` also where
  the environment hides it.
* The scheduler reads `Config::default()`: the settings of a project, cleanup_worktrees
  among them, have no effect on it. Clients honour NFLOW_SOCKET, the daemon does not.
* A wave whose graph is bad is passed over by the scheduler in silence
  (`scheduler_loop.rs` 155). Worktrees left by plan.discard keep later stories of the
  same name from starting.
* plan.approve reads the status of a wave and writes another later: a wave discarded in
  between is approved, without items (`handlers.rs` 2655).
* Agents that commands start
  publish no output events. The popup of plan details counts in the unfiltered list, and
  an event moves the selection to a running task.

## 7. Not modelled

* `SessionManager` of `nflow-claude`, `runner.rs` terminate and kill, `short_id.rs` and
  parts of `project.rs` and `decomposition.rs`: the daemon does not call them.
* In `worktree.rs`, list, prune and cleanup_all: only cleanup after completion would
  call them, which the daemon's default configuration never reaches.
* Prompt rendering, parsing of arguments, printing, drawing (`ui.rs` except as in
  section 3), text input: data that no state depends on. That a prompt cannot be
  rendered is a fault of `Execution` and `Planning`.
* Commands that only read: exec.status, plan.show (what they show is `PlanItems`),
  spec.list, spec.view, worktree.list.
* git, the forge and the Claude processes are external, and modelled by what the code
  expects of them and by how they can fail.
* A crash between spawning an agent and inserting its row, which leaves a process that
  nobody knows; failing database statements; full socket buffers; disks that are full.
* mock-claude, which stands for Claude in the tests.

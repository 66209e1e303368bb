------------------------ MODULE DocumentedBehaviour -------------------------
(***************************************************************************)
(* What the documentation and the comments of nflow say of the EXECUTE     *)
(* phase, where the code does something else.  Each property is checked by *)
(* a run of its own in which TLC finds it violated; the README tells the   *)
(* behaviours.                                                             *)
(***************************************************************************)
EXTENDS Execution

\* A run whose process ended well is recorded as failed, while its background
\* task is in one of the given states.
PassIsFailed(pipes) ==
    \E r \in Running : /\ run[r].proc = "pass" /\ run[r].pipe \in pipes
                       /\ run'[r].status = "failed"

\* docs/phases.md:531: a task whose agent exits with code 0 and leaves its
\* commit becomes done.
PassingAgentIsCredited == [][~PassIsFailed({"wait", "done"})]_vars

\* docs/cli.md:348: execution continues with the task after a skipped one,
\* whose agent can succeed like any other.
AgentAfterSkipIsCredited == [][~PassIsFailed({"log"})]_vars

\* docs/daemon.md:276: the daemon adopts the agents that survived its crash
\* and goes on reading their output.
AdoptedAgentIsCredited == [][~PassIsFailed({"lost"})]_vars

\* docs/phases.md:527 to 529: a run only counts as a success if the process
\* behind it ended well and left the commit itself.
SuccessIsEarned ==
    \A r \in Used : run[r].status = "succeeded" => run[r].proc = "pass"

\* docs/phases.md:714: max_parallel limits the agents that run at a time.
SlotsAreRespected == Cardinality(Running) <= MaxParallel

\* docs/phases.md:606 and handlers.rs:3904: a story that a command leaves
\* done is delivered by the next tick.
DoneIsDelivered ==
    [][pc = "execute" /\ pc' = "idle" =>
          \A s \in Story : storyStatus[s] = "done" => mrUrl[s]]_vars

\* docs/cli.md:278: the scheduler starts no agent while execution is paused.
PausedStartsNoAgent ==
    [][pc = "execute" /\ ~executionEnabled => Running' \subseteq Running]_vars

\* docs/daemon.md:198: commands and scheduling decisions cannot race, so a
\* story that was cancelled is not running.
CancelledHasNoAgent ==
    \A r \in Running : storyStatus[run[r].task.story] # "cancelled"

\* docs/daemon.md:287 and 296: commands are processed one after the other,
\* so two retries of a task do not start two agents.
OneAgentPerTask ==
    \A q, r \in Running : run[q].task = run[r].task => q = r

\* docs/data-model.md:246: retrying a task puts its failed story back in
\* progress, so no agent works for a failed story between two ticks.
FailedHasNoAgent ==
    pc = "idle" => \A r \in Running : storyStatus[run[r].task.story] # "failed"

\* docs/phases.md:457: every piece of work is tested before the next task
\* starts, so nothing runs behind a failed task.
NothingRunsBehindFailure ==
    \A t, u \in Task :
        /\ taskStatus[t] = "in_progress"
        /\ u.story = t.story /\ SortOrder(u) < SortOrder(t)
        => taskStatus[u] # "failed"

\* docs/phases.md:660: the scheduler resumes a cancelled story that
\* exec.continue has put back in progress.
ResumedStoryRuns ==
    \A s \in Story :
        storyStatus[s] = "in_progress" ~>
            \/ storyStatus[s] # "in_progress"
            \/ \E r \in Running : run[r].task.story = s

\* docs/daemon.md:279: recovery leaves no story in progress without an agent.
RecoveryLeavesNoOrphan ==
    [][pc = "down" /\ pc' = "idle" =>
          \A s \in Story : storyStatus'[s] = "in_progress" =>
             \E r \in Running' : run'[r].task.story = s]_vars

\* recovery.rs:171: a story whose tasks are finished when the daemon comes
\* back is completed, so the next tick does not leave it in progress.
FinishedStoryIsCompleted ==
    [][pc = "execute" /\ pc' = "idle" =>
          \A s \in Story : storyStatus[s] = "in_progress" =>
             ~AllFinished(taskStatus, s)]_vars

\* docs/data-model.md:242, 244 and 254: a story becomes ready when those it
\* depends on are done or cancelled, and one is done when its merge request
\* exists.
ReadyAfterDelivery ==
    \A s \in Story :
        storyStatus[s] \in {"ready", "in_progress"} =>
            \A b \in Blockers[s] : storyStatus[b] = "cancelled" \/ mrUrl[b]

\* docs/cli.md:441: worktree.clean only removes the worktrees of stories that
\* are done or cancelled, with --all as well.
CleanSparesActiveStories ==
    [][\A s \in Story :
          worktree[s] /\ ~worktree'[s] => storyStatus[s] \in Finished]_vars

\* docs/phases.md:399: a failed task fails its story.
FailedTaskFailsStory ==
    pc = "idle" =>
        \A t \in Task :
            taskStatus[t] = "failed" => storyStatus[t.story] # "in_progress"
=============================================================================

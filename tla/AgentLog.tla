------------------------------ MODULE AgentLog ------------------------------
(***************************************************************************)
(* The log file and the worktree of one story's agents.  An agent commits  *)
(* and prints stream-json lines into a pipe; a background task of the      *)
(* daemon copies them to the log file of the task, to which every attempt  *)
(* appends, waits for the child and stores its exit code; the reaper reads *)
(* the whole file for a verdict and for the hash of the last commit;       *)
(* exec.retry resets the worktree to such a hash; exec.log --follow reads  *)
(* the file while it grows.                                                *)
(*                                                                         *)
(* Execution has the same agents with logs that are evidence or not; here  *)
(* is what they hold.                                                      *)
(***************************************************************************)
EXTENDS Naturals, FiniteSets, Sequences, SequencesExt

CONSTANTS
    Task,       \* tasks of the story, by sort_order
    Impl,       \* those that are impl tasks; the others verify the one before
    MaxRuns,    \* agent runs (bound)
    MaxPrinted,   \* lines that the agents print (bound)
    MaxOfRun,   \* lines that one of them prints (bound)
    MaxIdle,    \* polls without a new line before exec.log gives up; 120
    Scenes      \* the commands that clients issue and what may go wrong; a
                \* behaviour has those of one scene (bound)

ASSUME AgentLogAssumption ==
    /\ Task \in SUBSET (Nat \ {0}) /\ Task # {} /\ Impl \subseteq Task
    /\ MaxRuns \in Nat /\ MaxPrinted \in Nat /\ MaxOfRun \in Nat /\ MaxIdle \in Nat \ {0}
    /\ Scenes \subseteq [ops : SUBSET {"retry", "skip", "follow"},
                         faults : SUBSET {"silent", "exit", "spawn", "timeout"}]

Run == 1..MaxRuns

VARIABLES
    scene,      \* the scene of this behaviour
    status,     \* work_items.status of the tasks
    hash,       \* work_items.commit_hash; NoCommit if NULL
    head,       \* HEAD of the worktree: the commits on top of the base
    file,       \* agent-logs/<short_id>.log
    agent,      \* agent runs: the row, the process and its background task
    follower,   \* exec.log --follow
    told,       \* history: positions of the lines told to the follower
    said,       \* history: what each run printed
    credited,   \* history: the run by which each task is done
    skipped,    \* history: tasks that are done because they were skipped
    late        \* history: tasks whose file got lines of a run that was over

agents == <<file, agent, said, late>>
items == <<status, hash, credited, skipped>>
output == <<file, said, late>>
reading == <<follower, told>>
logVars == <<scene, items, head, agents, reading>>

\* A commit is known by its history: the runs that made it and those below.
Commit == Seq(Run \X (1..MaxOfRun))

NoCommit == <<>>

\* Lines with a commit in a tool result, whose message has the tag of the
\* task or not, and result lines, which say that the verification passed.
LogLine == [kind : {"commit", "result"}, at : Commit, good : BOOLEAN]

AgentRow ==
    [task : Task,
     at : {"free", "live", "exited", "waited", "stored", "ended"},
     code : {"zero", "nonzero"},
     kept : BOOLEAN,        \* the background task has the child
     pipe : Seq(LogLine)]

FreeRow == [task |-> CHOOSE t \in Task : TRUE, at |-> "free", code |-> "zero",
            kept |-> TRUE, pipe |-> <<>>]

\* The row of an agent that begins.
NewRow(t, kept) ==
    [task |-> t, at |-> "live", code |-> "zero", kept |-> kept, pipe |-> <<>>]

Off == [task |-> CHOOSE t \in Task : TRUE, at |-> "off", next |-> 1, idle |-> 0]

LogTypeOK ==
    /\ scene \in Scenes
    /\ status \in [Task -> {"pending", "in_progress", "done", "failed", "cancelled"}]
    /\ hash \in [Task -> Commit]
    /\ head \in Commit
    /\ file \in [Task -> Seq(LogLine)]
    /\ agent \in [Run -> AgentRow]
    /\ follower \in [task : Task, at : {"off", "history", "gap", "tail"},
                     next : Nat \ {0}, idle : 0..MaxIdle]
    /\ told \in Seq(Nat)
    /\ said \in [Run -> Seq(LogLine)]
    /\ credited \in [Task -> 0..MaxRuns]
    /\ skipped \subseteq Task /\ late \subseteq Task

LogInit ==
    /\ scene \in Scenes
    /\ status = [t \in Task |-> "pending"]
    /\ hash = [t \in Task |-> NoCommit]
    /\ head = <<>>
    /\ file = [t \in Task |-> <<>>]
    /\ agent = [r \in Run |-> FreeRow]
    /\ follower = Off
    /\ told = <<>>
    /\ said = [r \in Run |-> <<>>]
    /\ credited = [t \in Task |-> 0]
    /\ skipped = {}
    /\ late = {}

-----------------------------------------------------------------------------
(* The agent and its background task *)

\* Runs whose row is running.
Running == {r \in Run : agent[r].at \in {"live", "exited", "waited", "stored"}}

\* The row that is inserted.
NewRun == CHOOSE r \in Run : agent[r].at = "free"

\* Spawns an agent for task t and inserts its row.
Spawn(t) ==
    /\ \E r \in Run : agent[r].at = "free"
    /\ agent' = [agent EXCEPT ![NewRun] = NewRow(t, TRUE)]

\* The tasks of a story run one after the other (get_next_pending_task).
Start(t) ==
    /\ Running = {}
    /\ status[t] = "pending"
    /\ \A u \in Task : u < t => status[u] \in {"done", "cancelled"}
    /\ status' = [status EXCEPT ![t] = "in_progress"]
    /\ Spawn(t)
    /\ UNCHANGED <<hash, credited, skipped, head, output, reading>>

Prints(r, line) ==
    /\ Len(said[r]) < MaxOfRun
    /\ Cardinality({p \in Run \X (1..MaxPrinted) : p[2] <= Len(said[p[1]])}) < MaxPrinted
    /\ said' = [said EXCEPT ![r] = Append(@, line)]
    /\ agent' = [agent EXCEPT ![r].pipe = Append(@, line)]

\* An agent commits, with or without the tag, and prints what git says.
AgentCommits(r) ==
    /\ agent[r].at = "live" /\ agent[r].task \in Impl
    /\ head' = Append(head, <<r, Len(said[r]) + 1>>)
    /\ \E tagged \in BOOLEAN :
           Prints(r, [kind |-> "commit", at |-> head', good |-> tagged])
    /\ UNCHANGED <<items, file, late, reading>>

AgentConcludes(r) ==
    /\ agent[r].at = "live" /\ agent[r].task \notin Impl
    /\ \E passed \in BOOLEAN :
           Prints(r, [kind |-> "result", at |-> NoCommit, good |-> passed])
    /\ UNCHANGED <<items, head, file, late, reading>>

\* An agent that reports no error has committed or concluded, unless it may be
\* silent.
AgentExits(r) ==
    /\ agent[r].at = "live"
    /\ \E code \in {"zero", "nonzero"} :
           /\ code = "zero" /\ said[r] = <<>> => "silent" \in scene.faults
           /\ code = "nonzero" => "exit" \in scene.faults
           /\ agent' = [agent EXCEPT ![r].at = "exited", ![r].code = code]
    /\ UNCHANGED <<items, head, output, reading>>

\* One line goes from the pipe to the end of the file.
CopyLine(r) ==
    /\ agent[r].at # "free" /\ agent[r].pipe # <<>>
    /\ file' = [file EXCEPT ![agent[r].task] = Append(@, Head(agent[r].pipe))]
    /\ agent' = [agent EXCEPT ![r].pipe = Tail(@)]
    /\ late' = IF agent[r].at = "ended" THEN late \cup {agent[r].task} ELSE late
    /\ UNCHANGED <<items, head, said, reading>>

\* stdout is read to its end before the child is waited for; a child that was
\* dropped is waited for by tokio.
Drained(r) == agent[r].kept => agent[r].pipe = <<>>

\* Until somebody waits for it, the child is a zombie and counts as alive.
WaitForChild(r) ==
    /\ agent[r].at = "exited"
    /\ Drained(r)
    /\ agent' = [agent EXCEPT ![r].at = "waited"]
    /\ UNCHANGED <<items, head, output, reading>>

StoreExitCode(r) ==
    /\ agent[r].at = "waited" /\ agent[r].kept
    /\ agent' = [agent EXCEPT ![r].at = "stored"]
    /\ UNCHANGED <<items, head, output, reading>>

-----------------------------------------------------------------------------
(* The reaper *)

\* Where the file has lines of a kind.
OfKind(kind, t) == {i \in DOMAIN file[t] : file[t][i].kind = kind}

\* Mutant of Found: the first line of the kind.
FoundFirst(kind, t) == file[t][Min(OfKind(kind, t))]

\* parse_log_file keeps the last commit and the last result.
Found(kind, t) == file[t][Max(OfKind(kind, t))]

KindFor(t) == IF t \in Impl THEN "commit" ELSE "result"

\* evaluate_impl_result and evaluate_verify_result
Succeeded(r) ==
    LET t == agent[r].task IN
    /\ agent[r].at = "stored" /\ agent[r].code = "zero"
    /\ OfKind(KindFor(t), t) # {}
    /\ Found(KindFor(t), t).good

\* A process that is gone.  An exit code that is not stored counts as 1.
Reap(r) ==
    LET t == agent[r].task IN
    /\ agent[r].at \in {"waited", "stored"}
    /\ agent' = [agent EXCEPT ![r].at = "ended"]
    /\ IF Succeeded(r)
       THEN /\ status' = [status EXCEPT ![t] = "done"]
            /\ hash' = IF t \in Impl THEN [hash EXCEPT ![t] = Found("commit", t).at]
                       ELSE hash
            /\ credited' = [credited EXCEPT ![t] = r]
       ELSE /\ status' = [status EXCEPT ![t] = "failed"]
            /\ UNCHANGED <<hash, credited>>
    /\ UNCHANGED <<skipped, head, output, reading>>

\* check_agent_timeouts: after SIGKILL nobody waits for the end of the output.
TimeOut(r) ==
    /\ "timeout" \in scene.faults
    /\ agent[r].at \in {"live", "exited"}
    /\ agent' = [agent EXCEPT ![r].at = "ended"]
    /\ status' = [status EXCEPT ![agent[r].task] = "failed"]
    /\ UNCHANGED <<hash, credited, skipped, head, output, reading>>

-----------------------------------------------------------------------------
(* Commands *)

DoneBefore(t) == {u \in Impl : u < t /\ status[u] = "done"}

\* max_by_key of the sort order.
LatestBefore(t) == CHOOSE u \in DoneBefore(t) : \A v \in DoneBefore(t) : v <= u

\* Mutant of ResetTo: always the base.
ResetToBase(t) == NoCommit

\* What the worktree of an impl task is reset to: the commit of the done impl
\* task before it, or the base if there is none or it has none.
ResetTo(t) == IF DoneBefore(t) = {} THEN NoCommit ELSE hash[LatestBefore(t)]

\* exec.retry
Retry(t) ==
    /\ "retry" \in scene.ops
    /\ status[t] = "failed" /\ Running = {}
    /\ head' = IF t \in Impl THEN ResetTo(t) ELSE head
    /\ \/ /\ status' = [status EXCEPT ![t] = "in_progress"]
          /\ Spawn(t)
       \/ /\ "spawn" \in scene.faults
          /\ UNCHANGED <<status, agent>>
    /\ UNCHANGED <<hash, credited, skipped, output, reading>>

\* The statuses after t was skipped: what would verify it is over.
AfterSkip(t) ==
    [u \in Task |->
        IF u = t THEN "done"
        ELSE IF t \in Impl /\ u = t + 1 /\ u \notin Impl /\ status[u] = "pending"
        THEN "cancelled" ELSE status[u]]

\* exec.skip: the next task is started with a child that is dropped. Where
\* spawning fails it stays pending.
Skip(t) ==
    /\ "skip" \in scene.ops
    /\ status[t] = "failed" /\ Running = {}
    /\ LET pending == {u \in Task : AfterSkip(t)[u] = "pending"}
       IN  \/ \E n \in pending :
                 /\ \A u \in pending : n <= u
                 /\ status' = [AfterSkip(t) EXCEPT ![n] = "in_progress"]
                 /\ \E r \in Run : agent[r].at = "free"
                 /\ agent' = [agent EXCEPT ![NewRun] = NewRow(n, FALSE)]
           \/ /\ pending = {} \/ "spawn" \in scene.faults
              /\ status' = AfterSkip(t)
              /\ UNCHANGED agent
    /\ skipped' = skipped \cup {t}
    /\ UNCHANGED <<hash, credited, head, output, reading>>

-----------------------------------------------------------------------------
(* exec.log --follow *)

BeginFollow(t) ==
    /\ "follow" \in scene.ops
    /\ follower.at = "off" /\ told = <<>>
    /\ \E r \in Run : agent[r].at # "free" /\ agent[r].task = t
    /\ follower' = [task |-> t, at |-> "history", next |-> 1, idle |-> 0]
    /\ told' = told
    /\ UNCHANGED <<items, head, agents>>

\* A line that is there is told.
SendLine ==
    /\ follower.at \in {"history", "tail"}
    /\ follower.next <= Len(file[follower.task])
    /\ told' = Append(told, follower.next)
    /\ follower' = [follower EXCEPT !.next = @ + 1, !.idle = 0]
    /\ UNCHANGED <<items, head, agents>>

\* The end of what was there: the file is opened again.
HistoryEnds ==
    /\ follower.at = "history"
    /\ follower.next > Len(file[follower.task])
    /\ follower' = [follower EXCEPT !.at = "gap"]
    /\ UNCHANGED <<items, head, agents, told>>

\* Mutant of EndOf: the new reader is left where it starts.
StartOf(lines) == 1

\* The length of the file when the new reader is positioned.
EndOf(lines) == Len(lines) + 1

SeekEnd ==
    /\ follower.at = "gap"
    /\ follower' = [follower EXCEPT !.at = "tail", !.next = EndOf(file[follower.task])]
    /\ UNCHANGED <<items, head, agents, told>>

\* Half a second in which nothing came.
OneMoreIdle(n) == n + 1

NothingCame ==
    /\ follower.at = "tail"
    /\ follower.next > Len(file[follower.task])
    /\ follower' = IF follower.idle < MaxIdle
                   THEN [follower EXCEPT !.idle = OneMoreIdle(@)]
                   ELSE [follower EXCEPT !.at = "off"]
    /\ UNCHANGED <<items, head, agents, told>>

ClientLeaves ==
    /\ follower.at # "off"
    /\ follower' = [follower EXCEPT !.at = "off"]
    /\ UNCHANGED <<items, head, agents, told>>

Follow == SendLine \/ HistoryEnds \/ SeekEnd \/ NothingCame

AgentStep ==
    \E r \in Run : AgentCommits(r) \/ AgentConcludes(r) \/ AgentExits(r)

Background == \E r \in Run : CopyLine(r) \/ WaitForChild(r) \/ StoreExitCode(r)

Scheduler ==
    \/ \E t \in Task : Start(t)
    \/ \E r \in Run : Reap(r) \/ TimeOut(r)

LogNext ==
    /\ scene' = scene
    /\ \/ AgentStep \/ Background \/ Scheduler
       \/ \E t \in Task : Retry(t) \/ Skip(t) \/ BeginFollow(t)
       \/ Follow \/ ClientLeaves

LogSpec == LogInit /\ [][LogNext]_logVars

\* Tokio polls the stream of exec.log again and again.
FairLogSpec == LogSpec /\ WF_logVars(scene' = scene /\ Follow)

-----------------------------------------------------------------------------
(* Properties *)

\* Runs that printed nothing of their own to be judged by.
Stale(t) == credited[t] # 0 /\ said[credited[t]] = <<>>

\* Every task that is done is done by output of its own.
OwnWork == skipped \cup late = {} /\ \A t \in Task : ~Stale(t)

\* A task is done by what the agent credited with it printed last, although the
\* file has the lines of earlier attempts too (parse_log_file); unless an agent
\* was killed whose output is still coming.
VerdictByOwnOutput ==
    \A t \in Task :
        LET own == IF credited[t] = 0 THEN <<>> ELSE said[credited[t]] IN
        status[t] = "done" /\ t \notin skipped \cup late /\ own # <<>>
            => /\ Last(own).good
               /\ t \in Impl => hash[t] = Last(own).at

\* No attempt loses what earlier tasks have committed: the commit of a task that
\* is done is HEAD or below it, whatever fails and is retried behind it
\* (handle_exec_retry), as long as every task is done by commits of its own.
DoneWorkIsKept ==
    OwnWork => \A t \in Impl : status[t] = "done" => IsPrefix(hash[t], head)

\* exec.log --follow sends no line twice and none before an earlier one, although
\* it reads the file with two readers.
LinesInOrder ==
    \A i, j \in DOMAIN told : i < j => told[i] < told[j]

\* exec.log --follow ends by itself.
FollowEnds == follower.at # "off" ~> follower.at = "off"

-----------------------------------------------------------------------------
(* What the documents say and the code does not do *)

\* "The last successful commit remains intact" (docs/cli.md:315).
LastGoodCommitRemains ==
    \A t \in Impl : status[t] = "done" /\ hash[t] # NoCommit /\ ~Stale(t)
        => IsPrefix(hash[t], head)

\* "New commit exists" (docs/phases.md:528).
DoneByOwnCommit ==
    \A t \in Impl : status[t] = "done" /\ t \notin skipped => ~Stale(t)

\* --follow follows the log like tail -f (docs/cli.md:308).
NoLineIsMissed ==
    \A i \in DOMAIN told : told[i] = i

-----------------------------------------------------------------------------
(* Inductive strengthenings of the invariants above *)

\* One agent of the story runs at a time, for a task in progress; its output is
\* of one kind and has been copied before its exit code is stored.
RunsInv ==
    /\ \A q, r \in Running : q = r
    /\ \A r \in Running : status[agent[r].task] = "in_progress"
    /\ \A r \in Run :
          /\ agent[r].at = "free" => said[r] = <<>> /\ agent[r].pipe = <<>>
          /\ agent[r].at \in {"waited", "stored"} /\ agent[r].kept => agent[r].pipe = <<>>
          /\ agent[r].at = "stored" => agent[r].kept
          /\ \A i \in DOMAIN said[r] : said[r][i].kind = KindFor(agent[r].task)

\* What an agent printed last comes at the end, of its pipe or else of the file.
OutputInv ==
    \A r \in Running : agent[r].task \notin late =>
        /\ agent[r].pipe # <<>> => said[r] # <<>> /\ Last(agent[r].pipe) = Last(said[r])
        /\ agent[r].pipe = <<>> /\ said[r] # <<>> =>
              /\ file[agent[r].task] # <<>>
              /\ Last(file[agent[r].task]) = Last(said[r])

\* A run that is credited has ended, and its task is done for good.
CreditInv ==
    /\ \A t \in Task :
          /\ credited[t] # 0 => status[t] = "done" /\ agent[credited[t]].at = "ended"
          /\ status[t] = "done" /\ t \notin skipped => credited[t] # 0
    /\ VerdictByOwnOutput

\* A task is not begun before those in front of it are done.
OneByOne ==
    /\ \A t \in Task : status[t] # "cancelled"
    /\ \A t, u \in Task : t < u /\ status[u] # "pending" => status[t] = "done"

\* The commit of a done task is below HEAD and below those of later done tasks.
Stacked ==
    \A t \in Impl : status[t] = "done" =>
        /\ IsPrefix(hash[t], head)
        /\ \A u \in Impl : t < u /\ status[u] = "done" => IsPrefix(hash[t], hash[u])

\* What the running agent has committed lies between those and HEAD.
OnTop ==
    \A r \in Running : agent[r].task \in Impl =>
        \A i \in DOMAIN said[r] :
            /\ IsPrefix(said[r][i].at, head)
            /\ \A t \in Impl : status[t] = "done" => IsPrefix(hash[t], said[r][i].at)

\* The commits of the tasks are a stack.
StackInv == OwnWork => OneByOne /\ Stacked /\ OnTop

\* The follower has been told of lines before the next one only, which is in the
\* file or the next to come.
FollowInv ==
    /\ follower.next <= Len(file[follower.task]) + 1
    /\ \A i \in DOMAIN told : told[i] < follower.next
    /\ LinesInOrder

=============================================================================

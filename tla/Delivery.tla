------------------------------ MODULE Delivery ------------------------------
(***************************************************************************)
(* What nflow-daemon does with git: the worktree a story is given when it  *)
(* starts, the commits its agents make there, the delivery of a finished   *)
(* story (rebase, branch, push, merge request) and the commands that take  *)
(* worktrees away, worktree.clean and project.delete.  They run on threads *)
(* of their own beside the scheduler, which starts and delivers stories    *)
(* one after the other.                                                    *)
(*                                                                         *)
(* Directories and branches are named by project, short id and title, so   *)
(* stories of different waves, and of a project that was deleted and       *)
(* initialised again, may share a name.                                    *)
(***************************************************************************)
EXTENDS Naturals, FiniteSets

CONSTANTS
    Project,        \* rows of projects
    ProjectName,    \* ProjectName[p]: two rows may have it one after the other
    First,          \* the projects that are there at the beginning
    Story,          \* rows of work_items
    ProjectOf,      \* ProjectOf[s]: its project
    ShortId,        \* ShortId[s]: its number in its wave
    Slug,           \* Slug[s]: what slugify makes of its title
    MaxCommits,     \* commits per story (bound)
    MaxBase,        \* times the base branch moves at the remote (bound)
    Ops,            \* the commands that clients issue
    Faults          \* what may fail

ASSUME DeliveryAssumption ==
    /\ ProjectOf \in [Story -> Project]
    /\ Story \subseteq DOMAIN ShortId \cap DOMAIN Slug
    /\ First \subseteq Project
    /\ MaxCommits \in Nat /\ MaxBase \in Nat
    /\ Ops \subseteq {"init", "delete", "clean", "stop", "retry", "continue"}
    /\ Faults \subseteq {"worktree", "rebase", "push", "mr", "task", "crash"}

VARIABLES
    project,    \* projects that have a row
    status,     \* work_items.status; "new" before there is a row, "gone" after
    tree,       \* stories with a worktree_path
    mrUrl,      \* stories with an mr_url
    finished,   \* stories whose tasks are all done
    folder,     \* the worktree directories, with their HEAD
    local,      \* branches of the repository
    remote,     \* branches at the remote
    mergeRequest,   \* branches with an open merge request
    base,       \* version of the base branch at the remote
    job,        \* the story the scheduler is starting or delivering
    due,        \* stories of this tick still to be delivered
    plan,       \* stories of this tick still to be started
    removing,   \* worktrees a client has listed and not removed yet
    work,       \* history: the commits made in the worktree of a story
    hurt        \* history: stories somebody interfered with

rows == <<project, status, tree, mrUrl, finished>>
git == <<folder, local, remote, mergeRequest, base>>
tick == <<job, due, plan>>
history == <<work, hurt>>
vars == <<rows, git, tick, removing, history>>

\* render_branch_template with the default template; branch and directory.
LabelOf ==
    [s \in Story |-> <<ProjectName[ProjectOf[s]], ShortId[s], Slug[s]>>]

Label == {LabelOf[s] : s \in Story}

Commit == Story \X (1..MaxCommits)

\* What a branch or the HEAD of a worktree holds: its own commits and the
\* version of the base branch below them.
Head == [commits : SUBSET Commit, base : 0..MaxBase]

None == [commits |-> {}, base |-> MaxBase + 1]

NoJob == [story |-> CHOOSE s \in Story : TRUE, at |-> "none"]

TypeOK ==
    /\ project \subseteq Project
    /\ status \in [Story -> {"new", "gone", "ready", "in_progress", "done",
                             "failed", "cancelled"}]
    /\ {tree, mrUrl, finished} \subseteq SUBSET {s \in Story : ProjectOf[s] \in project}
    /\ folder \in [Label -> Head \cup {None}]
    /\ local \in [Label -> Head \cup {None}]
    /\ remote \in [Label -> Head \cup {None}]
    /\ mergeRequest \subseteq Label
    /\ base \in 0..MaxBase
    /\ job \in [story : Story, at : {"none", "create", "store", "rebase",
                                     "branch", "push", "request", "url"}]
               \cup {NoJob}
    /\ due \subseteq Story /\ plan \subseteq Story
    /\ removing \subseteq Story \X {"clean", "delete"}
    /\ work \in [Story -> SUBSET Commit]
    /\ hurt \subseteq Story

Init ==
    /\ project = First
    /\ status = [s \in Story |-> IF ProjectOf[s] \in First THEN "ready" ELSE "new"]
    /\ tree = {} /\ mrUrl = {} /\ finished = {}
    /\ folder = [l \in Label |-> None]
    /\ local = [l \in Label |-> None]
    /\ remote = [l \in Label |-> None]
    /\ mergeRequest = {}
    /\ base = 0
    /\ job = NoJob
    /\ due = {} /\ plan = {}
    /\ removing = {}
    /\ work = [s \in Story |-> {}]
    /\ hurt = {}

Exists(place, s) == place[LabelOf[s]] # None

With(place, s, head) == [place EXCEPT ![LabelOf[s]] = head]

\* UPDATE work_items ... WHERE id: nothing happens to a row that is gone.
HasRow(s) == status[s] # "gone"

Updated(s, new) == IF HasRow(s) THEN [status EXCEPT ![s] = new] ELSE status

\* Stories the scheduler has taken up in this tick.
TakenUp == due \cup (IF job.at = "none" THEN {} ELSE {job.story})

-----------------------------------------------------------------------------
(* The agents of a story and the scheduler's tick *)

AgentCommits(s) ==
    /\ status[s] = "in_progress" /\ s \in tree /\ s \notin finished
    /\ Exists(folder, s)
    /\ \E n \in 1..MaxCommits :
           /\ <<s, n>> \notin work[s]
           /\ work' = [work EXCEPT ![s] = @ \cup {<<s, n>>}]
           /\ folder' = [folder EXCEPT ![LabelOf[s]].commits = @ \cup {<<s, n>>}]
    /\ UNCHANGED <<rows, local, remote, mergeRequest, base, tick, removing, hurt>>

\* The reaper finds the last task of the stories in F done and a task of those
\* in T failed; the ready stories in S are planned.
Tick ==
    /\ job = NoJob /\ due = {} /\ plan = {}
    /\ \E F, T, S \in SUBSET Story :
           /\ F \cup T \cup S # {} /\ F \cap T = {}
           /\ T # {} => "task" \in Faults
           /\ \A s \in F \cup T : status[s] = "in_progress" /\ s \in tree
           /\ \A s \in S : status[s] = "ready"
           /\ status' = [s \in Story |-> IF s \in F THEN "done"
                                         ELSE IF s \in T THEN "failed"
                                         ELSE status[s]]
           /\ finished' = finished \cup F
           /\ due' = F
           /\ plan' = S
    /\ UNCHANGED <<project, tree, mrUrl, git, job, removing, history>>

\* Progress actions come before the scheduler's actions.  Nothing happens for
\* rows that are gone.
TakeDue ==
    /\ job = NoJob
    /\ \E s \in due :
           /\ due' = due \ {s}
           /\ job' = IF HasRow(s) THEN [story |-> s, at |-> "rebase"] ELSE NoJob
    /\ UNCHANGED <<rows, git, plan, removing, history>>

TakePlanned ==
    /\ job = NoJob /\ due = {}
    /\ \E s \in plan :
           /\ plan' = plan \ {s}
           /\ job' = IF HasRow(s) THEN [story |-> s, at |-> "create"] ELSE NoJob
    /\ UNCHANGED <<rows, git, due, removing, history>>

GoesTo(at) == job' = [job EXCEPT !.at = at]

\* Mutant of Fails: the error is logged and no more.
FailsSilently ==
    /\ status' = status
    /\ job' = NoJob

\* fail_story_on_completion_error, and the same for a worktree.
Fails ==
    /\ status' = Updated(job.story, "failed")
    /\ job' = NoJob

-----------------------------------------------------------------------------
(* execute_start_story *)

\* Mutant of MayCreate: a directory that is there already is taken over.
MayCreateAnyhow(s) == TRUE

\* create_worktree refuses a path that exists.
MayCreate(s) == ~Exists(folder, s)

\* A worktree has a detached HEAD at the base branch.
CreateWorktree ==
    LET s == job.story IN
    /\ job.at = "create"
    /\ \/ /\ MayCreate(s)
          /\ folder' = IF Exists(folder, s) THEN folder
                       ELSE With(folder, s, [commits |-> {}, base |-> base])
          /\ work' = [work EXCEPT ![s] = {}]
          /\ GoesTo("store")
          /\ UNCHANGED status
       \/ /\ ~MayCreate(s) \/ "worktree" \in Faults
          /\ Fails
          /\ UNCHANGED <<folder, work>>
    /\ UNCHANGED <<project, tree, mrUrl, finished, local, remote, mergeRequest,
                   base, due, plan, removing, hurt>>

\* worktree_path, branch_name and the status, of a row that may be gone.
StoreWorktree ==
    LET s == job.story IN
    /\ job.at = "store"
    /\ tree' = IF HasRow(s) THEN tree \cup {s} ELSE tree
    /\ status' = Updated(s, "in_progress")
    /\ job' = NoJob
    /\ UNCHANGED <<project, mrUrl, finished, git, due, plan, removing, history>>

-----------------------------------------------------------------------------
(* execute_complete_story *)

\* fetch_and_rebase, in a worktree that must be there.  An abort of the rebase
\* leaves everything as it was.
Rebase ==
    LET s == job.story IN
    /\ job.at = "rebase"
    /\ \/ /\ s \in tree /\ Exists(folder, s)
          /\ folder' = [folder EXCEPT ![LabelOf[s]].base = base]
          /\ GoesTo("branch")
          /\ UNCHANGED status
       \/ /\ s \notin tree \/ ~Exists(folder, s) \/ "rebase" \in Faults
          /\ Fails
          /\ UNCHANGED folder
    /\ UNCHANGED <<project, tree, mrUrl, finished, local, remote, mergeRequest,
                   base, due, plan, removing, history>>

BranchedAt(s) == folder[LabelOf[s]]

\* create_branch: checkout -b wants a name that is new.
CreateBranch ==
    LET s == job.story IN
    /\ job.at = "branch"
    /\ IF Exists(folder, s) /\ ~Exists(local, s)
       THEN local' = With(local, s, BranchedAt(s)) /\ GoesTo("push") /\ UNCHANGED status
       ELSE Fails /\ UNCHANGED local
    /\ UNCHANGED <<project, tree, mrUrl, finished, folder, remote, mergeRequest,
                   base, due, plan, removing, history>>

\* push_branch: the remote takes a branch that is new or goes on from what it
\* has.
Push ==
    LET s == job.story
        l == LabelOf[s]
    IN  /\ job.at = "push"
        /\ \/ /\ Exists(folder, s)
              /\ \/ ~Exists(remote, s)
                 \/ remote[l].base = local[l].base /\ remote[l].commits \subseteq local[l].commits
              /\ remote' = With(remote, s, local[l])
              /\ GoesTo("request")
              /\ UNCHANGED status
           \/ /\ \/ ~Exists(folder, s) \/ "push" \in Faults
                 \/ Exists(remote, s) /\ ~(/\ remote[l].base = local[l].base
                                           /\ remote[l].commits \subseteq local[l].commits)
              /\ Fails
              /\ UNCHANGED remote
        /\ UNCHANGED <<project, tree, mrUrl, finished, folder, local, mergeRequest,
                       base, due, plan, removing, history>>

\* create_github_pr or create_gitlab_mr: an error may be reported for a merge
\* request that was made.
Request ==
    LET s == job.story
        l == LabelOf[s]
    IN  /\ job.at = "request"
        /\ \/ /\ Exists(folder, s) /\ l \notin mergeRequest
              /\ mergeRequest' = mergeRequest \cup {l}
              /\ GoesTo("url")
              /\ UNCHANGED status
           \/ /\ ~Exists(folder, s) \/ l \in mergeRequest \/ "mr" \in Faults
              /\ mergeRequest' \in {mergeRequest} \cup
                     (IF Exists(folder, s) THEN {mergeRequest \cup {l}} ELSE {})
              /\ Fails
        /\ UNCHANGED <<project, tree, mrUrl, finished, folder, local, remote, base,
                       due, plan, removing, history>>

\* update_story_mr; cleanup_worktrees is the default, FALSE.
StoreUrl ==
    LET s == job.story IN
    /\ job.at = "url"
    /\ mrUrl' = IF HasRow(s) THEN mrUrl \cup {s} ELSE mrUrl
    /\ job' = NoJob
    /\ UNCHANGED <<project, status, tree, finished, git, due, plan, removing, history>>

-----------------------------------------------------------------------------
(* Commands *)

\* exec.stop
Stop(s) ==
    /\ "stop" \in Ops
    /\ status[s] = "in_progress"
    /\ status' = [status EXCEPT ![s] = "cancelled"]
    /\ UNCHANGED <<project, tree, mrUrl, finished, git, tick, removing, history>>

\* exec.retry of the task that failed; for an impl task the worktree is reset to
\* what the tasks before it have committed, which are some of the commits.
Retry(s) ==
    /\ "retry" \in Ops
    /\ status[s] = "failed" /\ s \in tree /\ s \notin finished
    /\ Exists(folder, s)
    /\ status' = [status EXCEPT ![s] = "in_progress"]
    /\ \E lost \in SUBSET work[s] :
           /\ work' = [work EXCEPT ![s] = @ \ lost]
           /\ folder' = [folder EXCEPT ![LabelOf[s]].commits = @ \ lost]
    /\ UNCHANGED <<project, tree, mrUrl, finished, local, remote, mergeRequest,
                   base, tick, removing, hurt>>

\* exec.continue: a story whose delivery has failed is done without one; a
\* cancelled story goes on in its worktree, which worktree.clean may be about to
\* remove, or waits for a new one.
Continue(s) ==
    /\ "continue" \in Ops
    /\ \/ /\ status[s] = "failed" /\ s \in finished
          /\ status' = [status EXCEPT ![s] = "done"]
          /\ hurt' = hurt \cup {s}
       \/ /\ status[s] = "cancelled"
          /\ status' = [status EXCEPT ![s] = IF s \in tree THEN "in_progress" ELSE "ready"]
          /\ hurt' = IF <<s, "clean">> \in removing THEN hurt \cup {s} ELSE hurt
    /\ UNCHANGED <<project, tree, mrUrl, finished, git, tick, removing, work>>

\* Mutant of Cleanable: failed stories as well.
CleanableFailed(s) == s \in tree /\ status[s] \in {"done", "cancelled", "failed"}

Cleanable(s) == s \in tree /\ status[s] \in {"done", "cancelled"}

\* worktree.clean of p reads the stories and then handles one after the other.
\* It interferes with those that are being delivered.
Clean(p) ==
    /\ "clean" \in Ops
    /\ p \in project /\ removing = {}
    /\ LET listed == {s \in Story : ProjectOf[s] = p /\ Cleanable(s)}
       IN  /\ listed # {}
           /\ removing' = listed \X {"clean"}
           /\ hurt' = hurt \cup (listed \cap TakenUp)
    /\ UNCHANGED <<rows, git, tick, work>>

Listed(p) == {s \in tree : ProjectOf[s] = p}

\* project.delete, with force: the rows, and then the worktrees.
Delete(p) ==
    /\ "delete" \in Ops
    /\ p \in project /\ removing = {}
    /\ project' = project \ {p}
    /\ removing' = Listed(p) \X {"delete"}
    /\ status' = [s \in Story |-> IF ProjectOf[s] = p THEN "gone" ELSE status[s]]
    /\ tree' = {s \in tree : ProjectOf[s] # p}
    /\ mrUrl' = {s \in mrUrl : ProjectOf[s] # p}
    /\ finished' = {s \in finished : ProjectOf[s] # p}
    /\ hurt' = hurt \cup {s \in TakenUp : ProjectOf[s] = p}
    /\ UNCHANGED <<git, tick, work>>

\* clear_story_worktree, of worktree.clean.
Forgotten(s) == tree \ {s}

\* remove_worktree_sync
RemoveWorktree ==
    /\ \E r \in removing :
           /\ removing' = removing \ {r}
           /\ folder' = With(folder, r[1], None)
           /\ tree' = IF r[2] = "clean" THEN Forgotten(r[1]) ELSE tree
    /\ UNCHANGED <<project, status, mrUrl, finished, local, remote, mergeRequest,
                   base, tick, history>>

\* project.init, and a plan for the project.
InitProject(p) ==
    /\ "init" \in Ops
    /\ p \notin project \cup First
    /\ \A q \in project : ProjectName[q] # ProjectName[p]
    /\ \A s \in Story : ProjectOf[s] = p => status[s] = "new"
    /\ project' = project \cup {p}
    /\ status' = [s \in Story |-> IF ProjectOf[s] = p THEN "ready" ELSE status[s]]
    /\ UNCHANGED <<tree, mrUrl, finished, git, tick, removing, history>>

-----------------------------------------------------------------------------
(* Environment *)

BaseMoves ==
    /\ base < MaxBase
    /\ base' = base + 1
    /\ UNCHANGED <<rows, folder, local, remote, mergeRequest, tick, removing, history>>

\* The tick is lost.  Recovery leaves stories that are done as they are, and
\* fails those that were in progress, whose tasks are orphaned.
Crash ==
    /\ "crash" \in Faults
    /\ TakenUp \cup plan \cup {r[1] : r \in removing} # {}
    /\ hurt' = hurt \cup TakenUp \cup {r[1] : r \in removing}
    /\ job' = NoJob /\ due' = {} /\ plan' = {} /\ removing' = {}
    /\ UNCHANGED <<rows, git, work>>

Scheduler ==
    \/ Tick \/ TakeDue \/ TakePlanned
    \/ CreateWorktree \/ StoreWorktree
    \/ Rebase \/ CreateBranch \/ Push \/ Request \/ StoreUrl

Command ==
    \/ \E s \in Story : Stop(s) \/ Retry(s) \/ Continue(s)
    \/ \E p \in Project : Clean(p) \/ Delete(p) \/ InitProject(p)
    \/ RemoveWorktree

Next ==
    \/ Scheduler
    \/ Command
    \/ \E s \in Story : AgentCommits(s)
    \/ BaseMoves
    \/ Crash

Spec == Init /\ [][Next]_vars

-----------------------------------------------------------------------------
(* Properties *)

OwnersOf(place) == {c[1] : c \in place.commits}

\* A worktree and a branch hold the commits of one story, even if stories of
\* several waves or projects have the same name (worktree.rs create_worktree
\* refuses paths, branch.rs create_branch names that exist).
OneStoryPerBranch ==
    \A l \in Label : \A place \in {folder[l], local[l], remote[l]} :
        Cardinality(OwnersOf(place)) <= 1

\* A story has the URL of a merge request only if its branch at the remote
\* holds every commit made in its worktree (execute_complete_story).
MergeRequestIsComplete ==
    \A s \in mrUrl : /\ LabelOf[s] \in mergeRequest
                     /\ work[s] \subseteq remote[LabelOf[s]].commits

\* Between deliveries a story is done only if it has a merge request, unless
\* somebody interfered: every error of a delivery shows as failed.
DoneIsDelivered ==
    \A s \in Story \ hurt :
        status[s] = "done" /\ s \notin TakenUp => s \in mrUrl

\* The two together: what is done has been delivered, and what has been delivered
\* is all of it.
DeliveredWhole == DoneIsDelivered /\ MergeRequestIsComplete

\* The commits of a finished story are somewhere until its project is deleted,
\* unless somebody interfered: a failed delivery loses nothing.
WorkSurvives ==
    \A s \in finished \ hurt :
        work[s] \subseteq UNION {folder[LabelOf[s]].commits,
                                 local[LabelOf[s]].commits,
                                 remote[LabelOf[s]].commits}

\* A worktree that worktree.list shows is there and is the story's own.
ListedWorktreesExist ==
    \A s \in tree \ hurt :
        \/ Exists(folder, s) /\ OwnersOf(folder[LabelOf[s]]) \subseteq {s}
        \/ \E r \in removing : r[2] = "clean" /\ r[1] = s

\* A worktree belongs to a story, or to one that is being started or removed,
\* unless somebody interfered with one of that name.
NoWorktreeIsForgotten ==
    \A l \in Label : folder[l] # None =>
        \E s \in Story :
            /\ LabelOf[s] = l
            /\ s \in tree \cup hurt \cup {r[1] : r \in removing} \cup TakenUp

-----------------------------------------------------------------------------
(* What the documents say and the code does not do *)

\* worktree.clean takes no worktree from a story that is in progress or has
\* failed (docs/cli.md:441, :444).
CleanSparesActive ==
    [][\A r \in removing \ removing' :
           r[2] = "clean" /\ Exists(folder, r[1]) /\ ~Exists(folder', r[1])
               => status[r[1]] \notin {"in_progress", "failed"}]_vars

-----------------------------------------------------------------------------
(* Inductive strengthenings of the invariants above *)

\* A story that has a row has a project.
RowsInv ==
    \A s \in Story : status[s] \in {"new", "gone"} \/ ProjectOf[s] \in project

Delivering == job.at \in {"rebase", "branch", "push", "request", "url"}

\* What a tick has found finished or ready is so until its turn comes, or gone.
TickInv ==
    /\ \A s \in finished : status[s] \in {"done", "failed"}
    /\ mrUrl \subseteq finished
    /\ \A s \in plan : status[s] \in {"ready", "gone"}
    /\ \A s \in due : /\ status[s] \in {"done", "gone"}
                      /\ HasRow(s) => s \in finished
    /\ due \cap plan = {}
    /\ job.at # "none" => job.story \notin due \cup plan
    /\ job.at \in {"create", "store"} =>
          status[job.story] \in {"ready", "gone"} /\ due = {}
    /\ Delivering => /\ status[job.story] \in {"done", "gone"}
                     /\ HasRow(job.story) => job.story \in finished

\* A worktree that is known holds the work of its story, and no two stories have
\* the same.
KnownTrees ==
    \A s \in tree : /\ Exists(folder, s)
                    /\ OwnersOf(folder[LabelOf[s]]) \subseteq {s}
                    /\ work[s] \subseteq folder[LabelOf[s]].commits
                    /\ \A u \in tree : LabelOf[s] = LabelOf[u] => s = u

\* Worktrees to be removed are there and, if their story is gone, nobody's.
Removals ==
    \A r \in removing :
        /\ r[2] = "clean" => r[1] \in tree
        /\ r[2] = "delete" => /\ Exists(folder, r[1])
                              /\ \A s \in tree : LabelOf[s] # LabelOf[r[1]]
        /\ \A q \in removing : LabelOf[q[1]] = LabelOf[r[1]] => q = r

\* A worktree that was made and is not known yet is empty and nobody else's.
Starting ==
    job.at = "store" =>
        /\ Exists(folder, job.story)
        /\ folder[LabelOf[job.story]].commits = {} /\ work[job.story] = {}
        /\ \A s \in tree : LabelOf[s] # LabelOf[job.story]
        /\ \A r \in removing : LabelOf[r[1]] # LabelOf[job.story]

WorktreesInv == KnownTrees /\ Removals /\ Starting

\* The commits of a place are of one story.
OneOwner(place) == \A c, d \in place.commits : c[1] = d[1]

Owned ==
    \A l \in Label : OneOwner(folder[l]) /\ OneOwner(local[l]) /\ OneOwner(remote[l])

\* What is delivered passes from place to place as a whole.
PassedOn ==
    LET s == job.story
        l == LabelOf[s]
    IN  /\ job.at = "branch" =>
              /\ Exists(folder, s) => work[s] \subseteq folder[l].commits
              /\ \A u \in tree : LabelOf[u] = l => u = s
        /\ job.at = "push" => work[s] \subseteq local[l].commits
        /\ job.at \in {"request", "url"} => work[s] \subseteq remote[l].commits
        /\ job.at = "url" => l \in mergeRequest

BranchesInv == Owned /\ MergeRequestIsComplete /\ PassedOn

\* A finished story keeps its worktree until it has been delivered.
Unlost == finished \ hurt \subseteq tree \cup mrUrl

\* worktree.clean is about stories that are not being delivered.
CleanIsQuiet ==
    \A r \in removing : r[2] = "clean" /\ r[1] \notin hurt =>
        status[r[1]] \in {"done", "cancelled"} /\ r[1] \notin TakenUp

SurvivalInv == DoneIsDelivered /\ Unlost /\ CleanIsQuiet
=============================================================================

---------------------------- MODULE ProjectFiles ----------------------------
(***************************************************************************)
(* The files nflow-daemon keeps for a project name beside the database:    *)
(* ~/.nflow/projects/<name>/ with the agents' logs and config.toml, and    *)
(* the global config.toml below which it is layered.  project.init,        *)
(* project.delete, config.set, config.show and cleanup.logs are handled on *)
(* threads of their own and take no lock, so a handler is several steps.   *)
(*                                                                         *)
(* There is one name; the rows of projects that have it come one after the *)
(* other.  A partial configuration is a function of the keys that are set, *)
(* and a layer overrides those below it.                                   *)
(***************************************************************************)
EXTENDS Integers, FiniteSets

CONSTANTS
    Client,
    Log,            \* log files, named by the short ids of tasks
    MaxRows,        \* rows that get the name (bound)
    MaxSets,        \* config.set that write (bound)
    MaxAge,         \* age of a log that is not told from an older one (bound)
    U32,            \* integers are stored modulo 2^32, here modulo U32
    Asked,          \* keys and values that clients set
    Envs,           \* what the environment of the daemon may set
    Uses            \* sets of commands; a behaviour has those of one (bound)

File == {"global", "project"}

ASSUME ProjectFilesAssumption ==
    /\ MaxRows \in Nat /\ MaxSets \in Nat /\ MaxAge \in Nat /\ U32 \in Nat \ {0}
    /\ Asked \subseteq ({"max_parallel"} \X Int) \cup ({"git_provider"} \X STRING)
    /\ \A use \in Uses :
           use \subseteq {"init", "delete", "set", "show", "cleanup", "agents", "crash"}

VARIABLES
    use,        \* the commands of this behaviour
    env,        \* NFLOW_MAX_PARALLEL; the same as long as the daemon lives
    named,      \* rows of projects with the name
    lastRow,    \* the last row there was
    dirs,       \* specs/ and agent-logs/ are there
    config,     \* the two config.toml, as they are parsed
    age,        \* time since a log was written; -1 if it is not there
    client,     \* the commands under way
    setFor,     \* history: rows for which project keys were set
    logOf,      \* history: rows whose agents wrote the logs
    wanted,     \* history: the configuration that the sets ask for
    mixed,      \* history: files that two commands changed at the same time
    answer,     \* history: what the last command that wrote a file was told
    writes,     \* history: how many wrote
    shown       \* history: the last answer of config.show

files == <<dirs, config, age>>
asked == <<wanted, mixed, answer, writes>>
owners == <<setFor, logOf>>
filesVars == <<use, env, named, lastRow, files, client, owners, asked, shown>>

NoKeys == <<>>

Idle0 == [op |-> "none", at |-> "idle"]

Defaults == [max_parallel |-> 3, git_provider |-> "github"]

\* merge: the fields of the overlay where it has them.
Merged(base, overlay) ==
    [k \in DOMAIN base \cup DOMAIN overlay |->
        IF k \in DOMAIN overlay THEN overlay[k] ELSE base[k]]

\* resolve
Resolve(global, project) ==
    Merged(Merged(Merged(Defaults, global), project), env)

\* validate
Valid(key, value) ==
    IF key = "max_parallel" THEN value # 0 ELSE value \in {"github", "gitlab"}

\* set_partial_config_value: `as u32`.
Stored(key, value) == IF key = "max_parallel" THEN value % U32 ELSE value

\* as_u64 has no value for an integer below zero.
Storable(key, value) == key = "max_parallel" => value >= 0

Partial(c) ==
    /\ DOMAIN c \subseteq DOMAIN Defaults
    /\ "max_parallel" \in DOMAIN c => c["max_parallel"] \in 0..(U32 - 1)
    /\ "git_provider" \in DOMAIN c => c["git_provider"] \in STRING

FilesTypeOK ==
    /\ use \in Uses /\ env \in Envs
    /\ named \subseteq 1..lastRow /\ lastRow \in 0..MaxRows
    /\ dirs \in BOOLEAN
    /\ \A f \in File : Partial(config[f]) /\ Partial(wanted[f])
    /\ age \in [Log -> (-1)..MaxAge]
    /\ \A c \in Client :
           client[c].at \in {"idle", "dirs", "insert", "row", "remove", "read",
                             "truncate", "write", "validate", "reply", "look", "unlink"}
    /\ setFor \subseteq 1..MaxRows /\ logOf \in [Log -> 0..MaxRows]
    /\ mixed \subseteq File
    /\ answer \in [File -> {"ok", "error", "pending"}]
    /\ writes \in 0..MaxSets

FilesInit ==
    /\ use \in Uses /\ env \in Envs
    /\ named = {1} /\ lastRow = 1
    /\ dirs = TRUE
    /\ config = [f \in File |-> NoKeys]
    /\ age = [l \in Log |-> -1]
    /\ client = [c \in Client |-> Idle0]
    /\ setFor = {} /\ logOf = [l \in Log |-> 0]
    /\ wanted = config /\ mixed = {}
    /\ answer = [f \in File |-> "ok"] /\ writes = 0
    /\ shown = [value |-> Resolve(NoKeys, NoKeys), layer |-> NoKeys,
                global |-> NoKeys, project |-> NoKeys]

Begins(c, op, record) ==
    /\ op \in use
    /\ client[c].at = "idle"
    /\ client' = [client EXCEPT ![c] = Merged(record, [op |-> op])]

At(c, op, at) == client[c].op = op /\ client[c].at = at

GoesOn(c, at) == client' = [client EXCEPT ![c].at = at]

Ends(c) == client' = [client EXCEPT ![c] = Idle0]

-----------------------------------------------------------------------------
(* project.init and project.delete *)

\* project_name_exists, and create_project_dirs before the row is inserted.
BeginInit(c) ==
    /\ lastRow < MaxRows
    /\ named = {}
    /\ Begins(c, "init", [at |-> "dirs"])
    /\ UNCHANGED <<use, env, named, lastRow, files, owners, asked, shown>>

MakeDirs(c) ==
    /\ At(c, "init", "dirs")
    /\ dirs' = TRUE
    /\ GoesOn(c, "insert")
    /\ UNCHANGED <<use, env, named, lastRow, config, age, owners, asked, shown>>

\* projects.name is UNIQUE.
NameIsFree == named = {}

InsertRow(c) ==
    /\ At(c, "init", "insert")
    /\ IF NameIsFree /\ lastRow < MaxRows
       THEN named' = named \cup {lastRow + 1} /\ lastRow' = lastRow + 1
       ELSE UNCHANGED <<named, lastRow>>
    /\ Ends(c)
    /\ UNCHANGED <<use, env, files, owners, asked, shown>>

BeginDelete(c) ==
    /\ \E r \in named : Begins(c, "delete", [at |-> "row", row |-> r])
    /\ UNCHANGED <<use, env, named, lastRow, files, owners, asked, shown>>

DeleteRow(c) ==
    /\ At(c, "delete", "row")
    /\ named' = named \ {client[c].row}
    /\ GoesOn(c, "remove")
    /\ UNCHANGED <<use, env, lastRow, files, owners, asked, shown>>

Setting(f) == {c \in Client : client[c].op = "set" /\ client[c].file = f}

\* Mutant of LeftOver: config.toml is not below the directory of the project.
LeftOverConfig == config["project"]

\* remove_project_dirs removes everything.
LeftOver == NoKeys

RemoveDirs(c) ==
    /\ At(c, "delete", "remove")
    /\ dirs' = FALSE
    /\ config' = [config EXCEPT !["project"] = LeftOver]
    /\ wanted' = [wanted EXCEPT !["project"] = LeftOver]
    /\ setFor' = IF LeftOver = NoKeys THEN {} ELSE setFor
    /\ age' = [l \in Log |-> -1]
    /\ logOf' = [l \in Log |-> 0]
    /\ mixed' = IF Setting("project") = {} THEN mixed ELSE mixed \cup {"project"}
    /\ Ends(c)
    /\ UNCHANGED <<use, env, named, lastRow, answer, writes, shown>>

-----------------------------------------------------------------------------
(* config.set and config.show *)

\* The key and the type of the value are as expected; the project exists.
BeginSet(c) ==
    /\ writes < MaxSets
    /\ \E a \in Asked, f \in File :
           \E r \in IF f = "project" THEN named ELSE {0} :
               Begins(c, "set", [at |-> "read", file |-> f, key |-> a[1],
                                 value |-> a[2], row |-> r])
    /\ UNCHANGED <<use, env, named, lastRow, files, owners, asked, shown>>

\* Mutant of UpdatedKey: what was in the file is not kept.
UpdatedAlone(partial, key, value) == [k \in {key} |-> Stored(key, value)]

UpdatedKey(partial, key, value) ==
    Merged(partial, [k \in {key} |-> Stored(key, value)])

\* read_partial_config and set_partial_config_value
ReadConfig(c) ==
    LET me == client[c] IN
    /\ At(c, "set", "read")
    /\ IF Storable(me.key, me.value)
       THEN client' = [client EXCEPT ![c] =
                 Merged(me, [at |-> "truncate",
                             new |-> UpdatedKey(config[me.file], me.key, me.value)])]
       ELSE Ends(c)
    /\ UNCHANGED <<use, env, named, lastRow, files, owners, asked, shown>>

\* fs::write empties the file, and an empty file is a configuration.
Truncate(c) ==
    LET me == client[c] IN
    /\ At(c, "set", "truncate")
    /\ writes < MaxSets
    /\ writes' = writes + 1
    /\ config' = [config EXCEPT ![me.file] = NoKeys]
    /\ mixed' = IF Setting(me.file) = {c} THEN mixed ELSE mixed \cup {me.file}
    /\ answer' = [answer EXCEPT ![me.file] = "pending"]
    /\ GoesOn(c, "write")
    /\ UNCHANGED <<use, env, named, lastRow, dirs, age, owners, wanted, shown>>

Write(c) ==
    LET me == client[c] IN
    /\ At(c, "set", "write")
    /\ config' = [config EXCEPT ![me.file] = me.new]
    /\ wanted' = [wanted EXCEPT ![me.file] =
                     Merged(@, [k \in {me.key} |-> Stored(me.key, me.value)])]
    /\ mixed' = IF Setting(me.file) = {c} THEN mixed ELSE mixed \cup {me.file}
    /\ setFor' = IF me.file = "project" THEN setFor \cup {me.row} ELSE setFor
    /\ answer' = [answer EXCEPT ![me.file] = "pending"]
    /\ GoesOn(c, "validate")
    /\ UNCHANGED <<use, env, named, lastRow, dirs, age, logOf, writes, shown>>

\* The configuration that config.set validates, after it has written.
Validated(f) == Resolve(config["global"], IF f = "project" THEN config["project"] ELSE NoKeys)

Validate(c) ==
    LET f == client[c].file IN
    /\ At(c, "set", "validate")
    /\ answer' = [answer EXCEPT ![f] =
                     IF \A k \in DOMAIN Defaults : Valid(k, Validated(f)[k])
                     THEN "ok" ELSE "error"]
    /\ Ends(c)
    /\ UNCHANGED <<use, env, named, lastRow, files, owners, wanted, mixed, writes, shown>>

\* The global file is read, and then that of the project.
BeginShow(c) ==
    /\ named # {}
    /\ Begins(c, "show", [at |-> "reply", global |-> config["global"]])
    /\ UNCHANGED <<use, env, named, lastRow, files, owners, asked, shown>>

\* determine_layer
LayerOf(key, global, project) ==
    IF key \in DOMAIN env THEN "env"
    ELSE IF key \in DOMAIN project THEN "project"
    ELSE IF key \in DOMAIN global THEN "global" ELSE "default"

Show(c) ==
    LET global == client[c].global
        project == config["project"]
    IN  /\ At(c, "show", "reply")
        /\ shown' = [value |-> Resolve(global, project),
                     layer |-> [k \in DOMAIN Defaults |-> LayerOf(k, global, project)],
                     global |-> global, project |-> project]
        /\ Ends(c)
        /\ UNCHANGED <<use, env, named, lastRow, files, owners, asked>>

-----------------------------------------------------------------------------
(* Logs *)

\* start_task_execution creates the directory again if it must.
AgentWrites(l) ==
    /\ "agents" \in use
    /\ \E r \in named :
           /\ logOf' = [logOf EXCEPT ![l] = r]
           /\ age' = [age EXCEPT ![l] = 0]
    /\ client' = [c \in Client |->
                     IF client[c].op = "cleanup" /\ client[c].at = "unlink" /\ client[c].log = l
                     THEN [client[c] EXCEPT !.grown = TRUE] ELSE client[c]]
    /\ UNCHANGED <<use, env, named, lastRow, dirs, config, setFor, asked, shown>>

TimePasses ==
    /\ "cleanup" \in use
    /\ age' = [l \in Log |-> IF age[l] \in 0..(MaxAge - 1) THEN age[l] + 1 ELSE age[l]]
    /\ UNCHANGED <<use, env, named, lastRow, dirs, config, client, owners, asked, shown>>

\* cleanup.logs takes any name; a directory that is not there has no logs.
\* With all, the age does not matter.
BeginCleanup(c) ==
    /\ \E limit \in 0..MaxAge :
           Begins(c, "cleanup", [at |-> "look", limit |-> limit,
                                 todo |-> {l \in Log : age[l] >= 0}])
    /\ UNCHANGED <<use, env, named, lastRow, files, owners, asked, shown>>

OldEnough(l, limit) == age[l] >= limit

\* A log that has gone is passed over.
LookAt(c) ==
    LET me == client[c] IN
    /\ At(c, "cleanup", "look")
    /\ IF me.todo = {} THEN Ends(c)
       ELSE \E l \in me.todo :
                client' = [client EXCEPT ![c] =
                    IF age[l] >= 0 /\ OldEnough(l, me.limit)
                    THEN Merged(me, [at |-> "unlink", log |-> l, grown |-> FALSE,
                                     todo |-> me.todo \ {l}])
                    ELSE [me EXCEPT !.todo = @ \ {l}]]
    /\ UNCHANGED <<use, env, named, lastRow, files, owners, asked, shown>>

Unlink(c) ==
    LET me == client[c] IN
    /\ At(c, "cleanup", "unlink")
    /\ age' = [age EXCEPT ![me.log] = -1]
    /\ logOf' = [logOf EXCEPT ![me.log] = 0]
    /\ client' = [client EXCEPT ![c] =
                     [op |-> "cleanup", at |-> "look", limit |-> me.limit, todo |-> me.todo]]
    /\ UNCHANGED <<use, env, named, lastRow, dirs, config, setFor, asked, shown>>

-----------------------------------------------------------------------------

\* The daemon dies, and with it the commands under way.
Dies ==
    /\ "crash" \in use
    /\ \E c \in Client : client[c].at # "idle"
    /\ mixed' = mixed \cup {f \in File : Setting(f) # {}}
                      \cup (IF \E c \in Client : client[c].op = "delete"
                            THEN {"project"} ELSE {})
    /\ client' = [c \in Client |-> Idle0]
    /\ UNCHANGED <<use, env, named, lastRow, files, owners, wanted, answer, writes, shown>>

Handler(c) ==
    \/ BeginInit(c) \/ MakeDirs(c) \/ InsertRow(c)
    \/ BeginDelete(c) \/ DeleteRow(c) \/ RemoveDirs(c)
    \/ BeginSet(c) \/ ReadConfig(c) \/ Truncate(c) \/ Write(c) \/ Validate(c)
    \/ BeginShow(c) \/ Show(c)
    \/ BeginCleanup(c) \/ LookAt(c) \/ Unlink(c)

FilesNext ==
    \/ \E c \in Client : Handler(c)
    \/ \E l \in Log : AgentWrites(l)
    \/ TimePasses
    \/ Dies

FilesSpec == FilesInit /\ [][FilesNext]_filesVars

-----------------------------------------------------------------------------
(* Properties *)

\* However many clients initialise it at the same time, one project has the
\* name (handle_project_init looks first and inserts later).
OneProjectPerName == Cardinality(named) <= 1

\* A project inherits neither configuration nor logs of an earlier project of
\* that name (remove_project_dirs), unless the daemon died or a config.set was
\* under way when that was deleted.
NothingIsInherited ==
    \/ \E c \in Client : At(c, "delete", "remove")
    \/ "project" \in mixed
    \/ /\ setFor \subseteq named
       /\ \A l \in Log : age[l] >= 0 => logOf[l] \in named

\* A configuration file holds what the sets of it ask for and every other key
\* as it was, unless two commands changed it at the same time.
SetsAreKept ==
    \A f \in File \ mixed :
        (\A c \in Setting(f) : client[c].at # "write")
            => config[f] = wanted[f]

\* An invalid value that counts in a file is never left by a config.set that
\* was told ok, although it is written before it is validated and others write
\* the same file meanwhile (handle_config_set).
BadValueIsReported ==
    \A f \in File : \A k \in DOMAIN config[f] \ DOMAIN env :
        ~Valid(k, config[f][k]) => answer[f] # "ok"

\* The layer that config.show names for a key is where the value it shows comes
\* from (determine_layer and resolve are written apart).
LayerHasTheValue ==
    \A k \in DOMAIN shown.layer :
        LET from == [env |-> env, project |-> shown.project,
                     global |-> shown.global, default |-> Defaults][shown.layer[k]]
        IN  k \in DOMAIN from /\ shown.value[k] = from[k]

\* cleanup.logs removes no log that was written less than the given time ago,
\* unless it is written between the look at its age and the removal.
RecentLogsAreKept ==
    [][\A c \in Client :
           At(c, "cleanup", "unlink") /\ client'[c].at = "look" /\ ~client[c].grown
               => age[client[c].log] = -1 \/ age[client[c].log] >= client[c].limit]_filesVars

-----------------------------------------------------------------------------
(* What the documents say and the code does not do *)

\* A configuration that is set is that of the project from then on, even if
\* several clients set it (docs/config.md:70).
NoSetIsLost ==
    (\A c \in Client : client[c].op # "set") => \A f \in File : config[f] = wanted[f]

\* A project has the directories that nflow init makes (docs/setup.md:85).
ProjectHasDirs == named # {} => dirs
-----------------------------------------------------------------------------
(* Inductive strengthenings of the invariants above *)

\* A command has its fields.
Whole(call) ==
    /\ {"op", "at"} \subseteq DOMAIN call
    /\ call.op = "set" =>
          /\ {"file", "key", "value", "row"} \subseteq DOMAIN call
          /\ call.file \in File
          /\ call.at \in {"truncate", "write", "validate"} => "new" \in DOMAIN call

CallsAreWhole ==
    /\ DOMAIN client = Client /\ DOMAIN config = File /\ DOMAIN wanted = File
    /\ DOMAIN age = Log /\ DOMAIN logOf = Log
    /\ \A c \in Client : Whole(client[c])

\* Nothing comes between what the set has read, or will write, and the file.
Undisturbed(c) ==
    \/ client[c].at = "write"
    \/ /\ client[c].at = "truncate"
       /\ \A d \in Setting(client[c].file) : client[d].at # "write"

\* What a set is about to write is what the sets of the file ask for, from when it
\* has read the file.
SetsInv ==
    /\ SetsAreKept
    /\ \A f \in File \ mixed : \A c \in Setting(f) :
           Undisturbed(c) =>
               client[c].new = UpdatedKey(wanted[f], client[c].key, client[c].value)

\* The sets that are under way are for a project that is there.
InheritedInv ==
    \/ \E c \in Client : At(c, "delete", "remove")
    \/ "project" \in mixed
    \/ /\ setFor \subseteq named
       /\ \A l \in Log : age[l] >= 0 => logOf[l] \in named
       /\ \A c \in Setting("project") : client[c].row \in named
=============================================================================

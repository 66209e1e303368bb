--------------------------- MODULE ProjectsProofs ---------------------------
(***************************************************************************)
(* What projects have outside the database: the worktrees and branches of  *)
(* Delivery, and the configuration and logs of ProjectFiles.               *)
(*                                                                         *)
(* SetsAreKept and NothingIsInherited, for any number of clients: what a   *)
(* set has read from a file is what it is asked to hold, until another     *)
(* comes between (SetsInv), and the sets under way are for rows that are   *)
(* there (InheritedInv).                                                   *)
(*                                                                         *)
(* OneStoryPerBranch, DeliveredWhole and WorkSurvives, for any number of   *)
(* stories and projects and whatever names they share.                     *)
(*                                                                         *)
(* A directory exists for as long as its name is taken, so that it is the  *)
(* worktree of one story (WorktreesInv); what a delivery passes on from    *)
(* there is of one story and all of it (BranchesInv), and a worktree is    *)
(* only taken when that has been done (SurvivalInv).                       *)
(***************************************************************************)
EXTENDS Delivery, ProjectFiles, FiniteSetTheorems, TLAPS

(***************************************************************************)
(* The configuration and the logs of a name.                               *)
(***************************************************************************)

\* A layer has its own fields and the others of what is below it.
LEMMA MergedFields ==
    ASSUME NEW below, NEW overlay
    PROVE  /\ DOMAIN Merged(below, overlay) = DOMAIN below \cup DOMAIN overlay
           /\ \A k \in DOMAIN overlay : Merged(below, overlay)[k] = overlay[k]
           /\ \A k \in DOMAIN below \ DOMAIN overlay :
                 Merged(below, overlay)[k] = below[k]
BY DEF Merged

\* What is left of a command that begins.
LEMMA BeginsEffect ==
    ASSUME DOMAIN client = Client, NEW c \in Client, NEW op, NEW record,
           Begins(c, op, record)
    PROVE  /\ client[c].at = "idle"
           /\ DOMAIN client' = Client
           /\ DOMAIN client'[c] = DOMAIN record \cup {"op"}
           /\ client'[c].op = op
           /\ \A k \in DOMAIN record \ {"op"} : client'[c][k] = record[k]
           /\ \A d \in Client \ {c} : client'[d] = client[d]
<1> DEFINE me == Merged(record, [op |-> op])
<1>1. /\ client[c].at = "idle"
      /\ client' = [client EXCEPT ![c] = me]
      BY DEF Begins
<1>2. /\ DOMAIN me = DOMAIN record \cup {"op"}
      /\ me.op = op
      /\ \A k \in DOMAIN record \ {"op"} : me[k] = record[k]
      BY MergedFields
<1> HIDE DEF me
<1>3. /\ DOMAIN client' = Client /\ client'[c] = me
      /\ \A d \in Client \ {c} : client'[d] = client[d]
      BY <1>1
<1> QED
    BY <1>1, <1>2, <1>3

\* A command that goes on keeps everything else.
LEMMA GoesOnEffect ==
    ASSUME DOMAIN client = Client, NEW c \in Client, NEW at, GoesOn(c, at)
    PROVE  /\ DOMAIN client' = Client
           /\ DOMAIN client'[c] = DOMAIN client[c]
           /\ "at" \in DOMAIN client[c] => client'[c].at = at
           /\ \A k \in DOMAIN client[c] \ {"at"} : client'[c][k] = client[c][k]
           /\ \A d \in Client \ {c} : client'[d] = client[d]
BY DEF GoesOn

\* Nothing is left of one that ends.
LEMMA EndsEffect ==
    ASSUME DOMAIN client = Client, NEW c \in Client, Ends(c)
    PROVE  /\ DOMAIN client' = Client
           /\ client'[c] = Idle0
           /\ \A d \in Client \ {c} : client'[d] = client[d]
BY DEF Ends

\* A client that does nothing.
LEMMA IdleFields == Idle0.op = "none" /\ Idle0.at = "idle" /\ Whole(Idle0)
BY DEF Idle0, Whole

\* What a step may do to a command so that the files and the sets under way do
\* not come apart.
Quiet(d) ==
    \/ client'[d] = client[d]
    \/ /\ Whole(client'[d])
       /\ ~At(d, "set", "write") /\ ~At(d, "delete", "remove")
       /\ client'[d].op = "set" =>
             /\ client'[d].at = "read"
             /\ client'[d].file = "project" => client'[d].row \in named

\* A command of another kind begins.
LEMMA OtherBegins ==
    ASSUME CallsAreWhole, NEW c \in Client, NEW op, op # "set",
           NEW record, "at" \in DOMAIN record, Begins(c, op, record)
    PROVE  DOMAIN client' = Client /\ \A d \in Client : Quiet(d)
<1>1. /\ client[c].at = "idle" /\ DOMAIN client' = Client
      /\ DOMAIN client'[c] = DOMAIN record \cup {"op"}
      /\ client'[c].op = op
      /\ \A d \in Client \ {c} : client'[d] = client[d]
      BY BeginsEffect DEF CallsAreWhole
<1>2. Whole(client'[c])
      BY <1>1 DEF Whole
<1> QED
    BY <1>1, <1>2 DEF Quiet, At

\* A command of another kind goes on, or one ends.
LEMMA OtherGoesOn ==
    ASSUME CallsAreWhole, NEW c \in Client, client[c].op # "set",
           ~At(c, "delete", "remove"), NEW at, GoesOn(c, at)
    PROVE  DOMAIN client' = Client /\ \A d \in Client : Quiet(d)
<1>1. DOMAIN client = Client /\ Whole(client[c])
      BY DEF CallsAreWhole
<1>2. {"op", "at"} \subseteq DOMAIN client[c]
      BY <1>1 DEF Whole
<1>3. /\ DOMAIN client' = Client
      /\ DOMAIN client'[c] = DOMAIN client[c]
      /\ client'[c].op = client[c].op
      /\ \A d \in Client \ {c} : client'[d] = client[d]
      BY <1>1, <1>2, GoesOnEffect
<1>4. Whole(client'[c])
      BY <1>2, <1>3 DEF Whole
<1> QED
    BY <1>3, <1>4 DEF Quiet, At

LEMMA OneEnds ==
    ASSUME CallsAreWhole, NEW c \in Client, ~At(c, "set", "write"),
           ~At(c, "delete", "remove"), Ends(c)
    PROVE  DOMAIN client' = Client /\ \A d \in Client : Quiet(d)
<1>1. /\ DOMAIN client' = Client /\ client'[c] = Idle0
      /\ \A d \in Client \ {c} : client'[d] = client[d]
      BY EndsEffect DEF CallsAreWhole
<1> QED
    BY <1>1, IdleFields DEF Quiet

LEMMA SetBegins ==
    ASSUME CallsAreWhole, NEW c \in Client, BeginSet(c)
    PROVE  DOMAIN client' = Client /\ \A d \in Client : Quiet(d)
<1>1. PICK a \in Asked, f \in File :
         \E r \in IF f = "project" THEN named ELSE {0} :
            Begins(c, "set", [at |-> "read", file |-> f, key |-> a[1],
                              value |-> a[2], row |-> r])
      BY DEF BeginSet
<1>2. PICK r \in IF f = "project" THEN named ELSE {0} :
         Begins(c, "set", [at |-> "read", file |-> f, key |-> a[1],
                           value |-> a[2], row |-> r])
      BY <1>1
<1> DEFINE record == [at |-> "read", file |-> f, key |-> a[1], value |-> a[2], row |-> r]
<1>3. /\ DOMAIN record = {"at", "file", "key", "value", "row"}
      /\ record.at = "read" /\ record.file = f /\ record.row = r
      OBVIOUS
<1>4. Begins(c, "set", record)
      BY <1>2
<1> HIDE DEF record
<1>5. /\ client[c].at = "idle" /\ DOMAIN client' = Client
      /\ DOMAIN client'[c] = DOMAIN record \cup {"op"}
      /\ client'[c].op = "set"
      /\ \A k \in DOMAIN record \ {"op"} : client'[c][k] = record[k]
      /\ \A d \in Client \ {c} : client'[d] = client[d]
      BY <1>4, BeginsEffect DEF CallsAreWhole
<1>6. /\ client'[c].at = "read" /\ client'[c].file = f /\ client'[c].row = r
      /\ {"op", "at", "file", "key", "value", "row"} \subseteq DOMAIN client'[c]
      BY <1>3, <1>5
<1>7. Whole(client'[c])
      BY <1>5, <1>6 DEF Whole
<1>8. Quiet(c)
      BY <1>5, <1>6, <1>7 DEF Quiet, At
<1> QED
    BY <1>5, <1>8 DEF Quiet

\* A removal of logs goes on.
LEMMA CleanupGoesOn ==
    ASSUME CallsAreWhole, NEW c \in Client, LookAt(c) \/ Unlink(c)
    PROVE  DOMAIN client' = Client /\ \A d \in Client : Quiet(d)
<1>1. DOMAIN client = Client /\ Whole(client[c]) /\ client[c].op = "cleanup"
      BY DEF CallsAreWhole, LookAt, Unlink, At
<1>2. {"op", "at"} \subseteq DOMAIN client[c]
      BY <1>1 DEF Whole
<1>3. ASSUME NEW call, client' = [client EXCEPT ![c] = call],
             {"op", "at"} \subseteq DOMAIN call, call.op = "cleanup"
      PROVE  DOMAIN client' = Client /\ \A d \in Client : Quiet(d)
  <2>1. /\ DOMAIN client' = Client /\ client'[c] = call
        /\ \A d \in Client \ {c} : client'[d] = client[d]
        BY <1>1, <1>3
  <2>2. Whole(client'[c])
        BY <1>3, <2>1 DEF Whole
  <2> QED
      BY <1>1, <1>3, <2>1, <2>2 DEF Quiet, At
<1>4. CASE LookAt(c)
  <2>1. CASE client[c].todo = {}
    <3>1. Ends(c)
          BY <1>4, <2>1 DEF LookAt
    <3> QED
        BY <1>1, <3>1, OneEnds DEF At
  <2>2. CASE client[c].todo # {}
    <3> DEFINE New(l) == [at |-> "unlink", log |-> l, grown |-> FALSE,
                          todo |-> client[c].todo \ {l}]
               Looked(l) == Merged(client[c], New(l))
               Passed(l) == [client[c] EXCEPT !.todo = @ \ {l}]
    <3>1. PICK l \in client[c].todo :
             client' = [client EXCEPT ![c] =
                           IF age[l] >= 0 /\ OldEnough(l, client[c].limit)
                           THEN Looked(l) ELSE Passed(l)]
          BY <1>4, <2>2 DEF LookAt
    <3>2. {"op", "at"} \subseteq DOMAIN Looked(l) /\ Looked(l).op = "cleanup"
      <4>1. "op" \notin DOMAIN New(l)
            OBVIOUS
      <4> HIDE DEF New
      <4>2. "op" \in DOMAIN client[c] \ DOMAIN New(l)
            BY <1>2, <4>1
      <4>3. /\ DOMAIN Looked(l) = DOMAIN client[c] \cup DOMAIN New(l)
            /\ \A k \in DOMAIN client[c] \ DOMAIN New(l) : Looked(l)[k] = client[c][k]
            BY MergedFields
      <4> QED
          BY <1>1, <1>2, <4>2, <4>3
    <3>3. {"op", "at"} \subseteq DOMAIN Passed(l) /\ Passed(l).op = "cleanup"
          BY <1>1, <1>2
    <3> HIDE DEF Looked, Passed
    <3>4. PICK call : call \in {Looked(l), Passed(l)} /\ client' = [client EXCEPT ![c] = call]
          BY <3>1
    <3> QED
        BY <1>3, <3>2, <3>3, <3>4
  <2> QED
      BY <2>1, <2>2
<1>5. CASE Unlink(c)
  <2> DEFINE call == [op |-> "cleanup", at |-> "look", limit |-> client[c].limit,
                      todo |-> client[c].todo]
  <2>1. client' = [client EXCEPT ![c] = call]
        BY <1>5 DEF Unlink
  <2>2. {"op", "at"} \subseteq DOMAIN call /\ call.op = "cleanup"
        OBVIOUS
  <2> HIDE DEF call
  <2> QED
      BY <1>3, <2>1, <2>2
<1> QED
    BY <1>4, <1>5

\* An agent that writes a log touches no command but those that remove logs.
LEMMA AgentWritesQuietly ==
    ASSUME CallsAreWhole, NEW l \in Log, AgentWrites(l)
    PROVE  DOMAIN client' = Client /\ \A d \in Client : Quiet(d)
<1> DEFINE Grown(d) == [client[d] EXCEPT !.grown = TRUE]
           Follows(d) == client[d].op = "cleanup" /\ client[d].at = "unlink" /\ client[d].log = l
<1>1. client' = [d \in Client |-> IF Follows(d) THEN Grown(d) ELSE client[d]]
      BY DEF AgentWrites
<1>2. \A d \in Client : Whole(client[d])
      BY DEF CallsAreWhole
<1>3. \A d \in Client : {"op", "at"} \subseteq DOMAIN client[d]
      BY <1>2 DEF Whole
<1>4. ASSUME NEW d \in Client
      PROVE  {"op", "at"} \subseteq DOMAIN Grown(d) /\ Grown(d).op = client[d].op
      BY <1>3
<1> HIDE DEF Grown
<1>5. ASSUME NEW d \in Client PROVE Quiet(d)
  <2>1. CASE Follows(d)
    <3>1. client'[d] = Grown(d) /\ client[d].op = "cleanup"
          BY <1>1, <2>1
    <3>2. Whole(client'[d])
          BY <1>4, <3>1 DEF Whole
    <3> QED
        BY <1>4, <3>1, <3>2 DEF Quiet, At
  <2>2. CASE ~Follows(d)
        BY <1>1, <2>2 DEF Quiet
  <2> QED
      BY <2>1, <2>2
<1> QED
    BY <1>1, <1>5

\* The inductive invariant.
FilesInv == CallsAreWhole /\ SetsInv /\ InheritedInv

Shapes ==
    /\ DOMAIN config = File /\ DOMAIN wanted = File
    /\ DOMAIN age = Log /\ DOMAIN logOf = Log

LEMMA QuietCalls ==
    ASSUME CallsAreWhole, DOMAIN client' = Client, \A d \in Client : Quiet(d), Shapes'
    PROVE  CallsAreWhole'
<1>1. ASSUME NEW d \in Client PROVE Whole(client'[d])
      BY DEF CallsAreWhole, Quiet
<1> QED
    BY <1>1 DEF CallsAreWhole, Shapes

\* Nothing comes between a set and its file.
LEMMA QuietSets ==
    ASSUME SetsInv, \A d \in Client : Quiet(d),
           config' = config, wanted' = wanted, mixed' = mixed
    PROVE  SetsInv'
<1>1. ASSUME NEW d \in Client, client[d].op = "set", client[d].at = "write"
      PROVE  client'[d] = client[d]
      BY <1>1 DEF Quiet, At
<1>2. ASSUME NEW d \in Client, client'[d].op = "set", client'[d].at # "read"
      PROVE  client'[d] = client[d]
      BY <1>2 DEF Quiet
<1>3. ASSUME NEW f \in File \ mixed, \A c \in Setting(f)' : client'[c].at # "write"
      PROVE  config'[f] = wanted'[f]
  <2>1. \A c \in Setting(f) : client[c].at # "write"
        BY <1>1, <1>3 DEF Setting
  <2> QED
      BY <2>1 DEF SetsInv, SetsAreKept
<1>4. ASSUME NEW f \in File \ mixed, NEW c \in Setting(f)', Undisturbed(c)'
      PROVE  client'[c].new = UpdatedKey(wanted'[f], client'[c].key, client'[c].value)
  <2>1. /\ c \in Client /\ client'[c].op = "set" /\ client'[c].file = f
        /\ client'[c].at \in {"write", "truncate"}
        BY <1>4 DEF Setting, Undisturbed
  <2>2. client'[c] = client[c]
        BY <1>2, <2>1
  <2>3. c \in Setting(f)
        BY <2>1, <2>2 DEF Setting
  <2>4. CASE client[c].at = "write"
        BY <2>2, <2>3, <2>4 DEF SetsInv, Undisturbed
  <2>5. CASE client[c].at # "write"
    <3>1. client[c].at = "truncate" /\ \A d \in Setting(f)' : client'[d].at # "write"
          BY <1>4, <2>1, <2>2, <2>5 DEF Undisturbed
    <3>2. \A d \in Setting(f) : client[d].at # "write"
          BY <1>1, <3>1 DEF Setting
    <3>3. Undisturbed(c)
          BY <2>1, <2>2, <3>1, <3>2 DEF Undisturbed
    <3> QED
        BY <2>2, <2>3, <3>3 DEF SetsInv
  <2> QED
      BY <2>4, <2>5
<1>5. SetsAreKept'
      BY <1>3 DEF SetsAreKept
<1> QED
    BY <1>4, <1>5 DEF SetsInv

\* Logs and keys are of projects that are there.
LEMMA QuietOwners ==
    ASSUME InheritedInv, mixed \subseteq mixed', named \subseteq named',
           \A d \in Client :
               At(d, "delete", "remove") => client'[d] = client[d],
           \A d \in Setting("project")' :
               \/ client'[d].row \in named
               \/ d \in Setting("project") /\ client'[d].row = client[d].row,
           \A r \in setFor' \ setFor :
               \E c \in Setting("project") : r = client[c].row,
           \A l \in Log : age'[l] >= 0 =>
               logOf'[l] \in named \/ (age[l] >= 0 /\ logOf'[l] = logOf[l])
    PROVE  InheritedInv'
<1>1. CASE \E c \in Client : At(c, "delete", "remove")
      BY <1>1 DEF InheritedInv, At
<1>2. CASE "project" \in mixed
      BY <1>2 DEF InheritedInv
<1>3. CASE /\ setFor \subseteq named
           /\ \A l \in Log : age[l] >= 0 => logOf[l] \in named
           /\ \A c \in Setting("project") : client[c].row \in named
  <2>1. setFor' \subseteq named'
        BY <1>3
  <2>2. \A l \in Log : age'[l] >= 0 => logOf'[l] \in named'
        BY <1>3
  <2>3. \A c \in Setting("project")' : client'[c].row \in named'
        BY <1>3
  <2> QED
      BY <2>1, <2>2, <2>3 DEF InheritedInv
<1> QED
    BY <1>1, <1>2, <1>3 DEF InheritedInv

LEMMA QuietHistory ==
    ASSUME InheritedInv, \A d \in Client : Quiet(d), mixed' = mixed, named \subseteq named',
           setFor' = setFor,
           \A l \in Log : age'[l] >= 0 =>
               logOf'[l] \in named \/ (age[l] >= 0 /\ logOf'[l] = logOf[l])
    PROVE  InheritedInv'
<1>1. \A d \in Client : At(d, "delete", "remove") => client'[d] = client[d]
      BY DEF Quiet
<1>2. ASSUME NEW d \in Setting("project")'
      PROVE  \/ client'[d].row \in named
             \/ d \in Setting("project") /\ client'[d].row = client[d].row
      BY DEF Quiet, Setting
<1> QED
    BY <1>1, <1>2, QuietOwners

LEMMA QuietStep ==
    ASSUME FilesInv, DOMAIN client' = Client, \A d \in Client : Quiet(d),
           config' = config, wanted' = wanted, mixed' = mixed,
           named \subseteq named', setFor' = setFor, DOMAIN age' = Log, DOMAIN logOf' = Log,
           \A l \in Log : age'[l] >= 0 =>
               logOf'[l] \in named \/ (age[l] >= 0 /\ logOf'[l] = logOf[l])
    PROVE  FilesInv'
<1>1. CallsAreWhole /\ SetsInv /\ InheritedInv
      BY DEF FilesInv
<1>2. Shapes'
      BY <1>1 DEF CallsAreWhole, Shapes
<1>3. CallsAreWhole'
      BY <1>1, <1>2, QuietCalls
<1>4. SetsInv'
      BY <1>1, QuietSets
<1>5. InheritedInv'
      BY <1>1, QuietHistory
<1> QED
    BY <1>3, <1>4, <1>5 DEF FilesInv

\* The same when no log is written either.
LEMMA QuietCommand ==
    ASSUME FilesInv, DOMAIN client' = Client, \A d \in Client : Quiet(d),
           config' = config, wanted' = wanted, mixed' = mixed,
           named \subseteq named', setFor' = setFor, age' = age, logOf' = logOf
    PROVE  FilesInv'
<1>1. DOMAIN age' = Log /\ DOMAIN logOf' = Log
      BY DEF FilesInv, CallsAreWhole
<1>2. \A l \in Log : age'[l] >= 0 =>
         logOf'[l] \in named \/ (age[l] >= 0 /\ logOf'[l] = logOf[l])
      OBVIOUS
<1> QED
    BY <1>1, <1>2, QuietStep

LEMMA HandlerQuiet ==
    ASSUME FilesInv, NEW c \in Client,
           \/ BeginInit(c) \/ MakeDirs(c) \/ InsertRow(c) \/ BeginDelete(c)
           \/ BeginSet(c) \/ Validate(c) \/ BeginShow(c) \/ Show(c)
           \/ BeginCleanup(c) \/ LookAt(c)
    PROVE  FilesInv'
<1>1. CallsAreWhole
      BY DEF FilesInv
<1>2. CASE BeginInit(c)
  <2>1. /\ Begins(c, "init", [at |-> "dirs"])
        /\ UNCHANGED <<config, wanted, mixed, named, setFor, age, logOf>>
        BY <1>2 DEF BeginInit, files, owners, asked
  <2>2. DOMAIN client' = Client /\ \A d \in Client : Quiet(d)
        BY <1>1, <2>1, OtherBegins
  <2> QED
      BY <2>1, <2>2, QuietCommand
<1>3. CASE MakeDirs(c)
  <2>1. /\ At(c, "init", "dirs") /\ GoesOn(c, "insert")
        /\ UNCHANGED <<config, wanted, mixed, named, setFor, age, logOf>>
        BY <1>3 DEF MakeDirs, owners, asked
  <2>2. DOMAIN client' = Client /\ \A d \in Client : Quiet(d)
        BY <1>1, <2>1, OtherGoesOn DEF At
  <2> QED
      BY <2>1, <2>2, QuietCommand
<1>4. CASE InsertRow(c)
  <2>1. /\ At(c, "init", "insert") /\ Ends(c) /\ named \subseteq named'
        /\ UNCHANGED <<config, wanted, mixed, setFor, age, logOf>>
        BY <1>4 DEF InsertRow, files, owners, asked
  <2>2. DOMAIN client' = Client /\ \A d \in Client : Quiet(d)
        BY <1>1, <2>1, OneEnds DEF At
  <2> QED
      BY <2>1, <2>2, QuietCommand
<1>5. CASE BeginDelete(c)
  <2>1. PICK r \in named : Begins(c, "delete", [at |-> "row", row |-> r])
        BY <1>5 DEF BeginDelete
  <2>2. UNCHANGED <<config, wanted, mixed, named, setFor, age, logOf>>
        BY <1>5 DEF BeginDelete, files, owners, asked
  <2>3. "at" \in DOMAIN [at |-> "row", row |-> r]
        OBVIOUS
  <2>4. DOMAIN client' = Client /\ \A d \in Client : Quiet(d)
        BY <1>1, <2>1, <2>3, OtherBegins
  <2> QED
      BY <2>2, <2>4, QuietCommand
<1>6. CASE BeginSet(c)
  <2>1. UNCHANGED <<config, wanted, mixed, named, setFor, age, logOf>>
        BY <1>6 DEF BeginSet, files, owners, asked
  <2>2. DOMAIN client' = Client /\ \A d \in Client : Quiet(d)
        BY <1>1, <1>6, SetBegins
  <2> QED
      BY <2>1, <2>2, QuietCommand
<1>7. CASE Validate(c)
  <2>1. /\ At(c, "set", "validate") /\ Ends(c)
        /\ UNCHANGED <<config, wanted, mixed, named, setFor, age, logOf>>
        BY <1>7 DEF Validate, files, owners
  <2>2. DOMAIN client' = Client /\ \A d \in Client : Quiet(d)
        BY <1>1, <2>1, OneEnds DEF At
  <2> QED
      BY <2>1, <2>2, QuietCommand
<1>8. CASE BeginShow(c)
  <2>1. /\ Begins(c, "show", [at |-> "reply", global |-> config["global"]])
        /\ UNCHANGED <<config, wanted, mixed, named, setFor, age, logOf>>
        BY <1>8 DEF BeginShow, files, owners, asked
  <2>2. "at" \in DOMAIN [at |-> "reply", global |-> config["global"]]
        OBVIOUS
  <2>3. DOMAIN client' = Client /\ \A d \in Client : Quiet(d)
        BY <1>1, <2>1, <2>2, OtherBegins
  <2> QED
      BY <2>1, <2>3, QuietCommand
<1>9. CASE Show(c)
  <2>1. /\ At(c, "show", "reply") /\ Ends(c)
        /\ UNCHANGED <<config, wanted, mixed, named, setFor, age, logOf>>
        BY <1>9 DEF Show, files, owners, asked
  <2>2. DOMAIN client' = Client /\ \A d \in Client : Quiet(d)
        BY <1>1, <2>1, OneEnds DEF At
  <2> QED
      BY <2>1, <2>2, QuietCommand
<1>10. CASE BeginCleanup(c)
  <2> DEFINE record(limit) == [at |-> "look", limit |-> limit, todo |-> {l \in Log : age[l] >= 0}]
  <2>1. PICK limit \in 0..MaxAge : Begins(c, "cleanup", record(limit))
        BY <1>10 DEF BeginCleanup
  <2>2. UNCHANGED <<config, wanted, mixed, named, setFor, age, logOf>>
        BY <1>10 DEF BeginCleanup, files, owners, asked
  <2>3. "at" \in DOMAIN record(limit)
        OBVIOUS
  <2> HIDE DEF record
  <2>4. DOMAIN client' = Client /\ \A d \in Client : Quiet(d)
        BY <1>1, <2>1, <2>3, OtherBegins
  <2> QED
      BY <2>2, <2>4, QuietCommand
<1>11. CASE LookAt(c)
  <2>1. UNCHANGED <<config, wanted, mixed, named, setFor, age, logOf>>
        BY <1>11 DEF LookAt, files, owners, asked
  <2>2. DOMAIN client' = Client /\ \A d \in Client : Quiet(d)
        BY <1>1, <1>11, CleanupGoesOn
  <2> QED
      BY <2>1, <2>2, QuietCommand
<1> QED
    BY <1>2, <1>3, <1>4, <1>5, <1>6, <1>7, <1>8, <1>9, <1>10, <1>11

\* Logs come and go.
LEMMA LogsQuiet ==
    ASSUME FilesInv,
           \/ \E c \in Client : Unlink(c)
           \/ \E l \in Log : AgentWrites(l)
           \/ TimePasses
    PROVE  FilesInv'
<1>1. CallsAreWhole /\ DOMAIN age = Log /\ DOMAIN logOf = Log /\ DOMAIN client = Client
      BY DEF FilesInv, CallsAreWhole
<1>2. ASSUME NEW c \in Client, Unlink(c) PROVE FilesInv'
  <2>1. UNCHANGED <<config, wanted, mixed, named, setFor>>
        BY <1>2 DEF Unlink, asked
  <2>2. DOMAIN client' = Client /\ \A d \in Client : Quiet(d)
        BY <1>1, <1>2, CleanupGoesOn
  <2>3. PICK m : /\ age' = [age EXCEPT ![m] = -1]
                 /\ logOf' = [logOf EXCEPT ![m] = 0]
        BY <1>2 DEF Unlink
  <2>4. DOMAIN age' = Log /\ DOMAIN logOf' = Log
        BY <1>1, <2>3
  <2>5. \A l \in Log : age'[l] >= 0 => age[l] >= 0 /\ logOf'[l] = logOf[l]
        BY <1>1, <2>3
  <2> QED
      BY <2>1, <2>2, <2>4, <2>5, QuietStep
<1>3. ASSUME NEW m \in Log, AgentWrites(m) PROVE FilesInv'
  <2>1. UNCHANGED <<config, wanted, mixed, named, setFor>>
        BY <1>3 DEF AgentWrites, asked
  <2>2. DOMAIN client' = Client /\ \A d \in Client : Quiet(d)
        BY <1>1, <1>3, AgentWritesQuietly
  <2>3. PICK r \in named : /\ age' = [age EXCEPT ![m] = 0]
                           /\ logOf' = [logOf EXCEPT ![m] = r]
        BY <1>3 DEF AgentWrites
  <2>4. DOMAIN age' = Log /\ DOMAIN logOf' = Log
        BY <1>1, <2>3
  <2>5. \A l \in Log : age'[l] >= 0 =>
           logOf'[l] \in named \/ (age[l] >= 0 /\ logOf'[l] = logOf[l])
        BY <1>1, <2>3
  <2> QED
      BY <2>1, <2>2, <2>4, <2>5, QuietStep
<1>4. CASE TimePasses
  <2>1. /\ UNCHANGED <<config, wanted, mixed, named, setFor, client, logOf>>
        /\ age' = [l \in Log |-> IF age[l] \in 0..(MaxAge - 1) THEN age[l] + 1 ELSE age[l]]
        BY <1>4 DEF TimePasses, asked, owners
  <2>2. DOMAIN client' = Client /\ \A d \in Client : Quiet(d)
        BY <1>1, <2>1 DEF Quiet
  <2>3. DOMAIN age' = Log /\ DOMAIN logOf' = Log
        BY <1>1, <2>1
  <2>4. ASSUME NEW l \in Log, age'[l] >= 0 PROVE age[l] >= 0
    <3>1. CASE age[l] \in 0..(MaxAge - 1)
          BY <3>1, ProjectFilesAssumption
    <3>2. CASE age[l] \notin 0..(MaxAge - 1)
          BY <2>1, <2>4, <3>2
    <3> QED
        BY <3>1, <3>2
  <2> QED
      BY <2>1, <2>2, <2>3, <2>4, QuietStep
<1> QED
    BY <1>2, <1>3, <1>4

\* The row goes before what belongs to it does.
LEMMA DeleteRowStep ==
    ASSUME FilesInv, NEW c \in Client, DeleteRow(c)
    PROVE  FilesInv'
<1>1. /\ CallsAreWhole /\ SetsInv
      /\ DOMAIN client = Client /\ {"op", "at"} \subseteq DOMAIN client[c]
      BY DEF FilesInv, CallsAreWhole, Whole
<1>2. /\ client[c].op = "delete" /\ client[c].at = "row" /\ GoesOn(c, "remove")
      /\ UNCHANGED <<config, wanted, mixed, age, logOf>>
      BY DEF DeleteRow, At, files, owners, asked
<1>3. DOMAIN client' = Client /\ \A d \in Client : Quiet(d)
      BY <1>1, <1>2, OtherGoesOn DEF At
<1>4. CallsAreWhole'
  <2>1. Shapes'
        BY <1>1, <1>2 DEF CallsAreWhole, Shapes
  <2> QED
      BY <1>1, <1>3, <2>1, QuietCalls
<1>5. SetsInv'
      BY <1>1, <1>2, <1>3, QuietSets
<1>6. client'[c].op = "delete" /\ client'[c].at = "remove"
      BY <1>1, <1>2, GoesOnEffect
<1>7. InheritedInv'
      BY <1>6 DEF InheritedInv, At
<1> QED
    BY <1>4, <1>5, <1>7 DEF FilesInv

\* Everything that belongs to the name goes.
LEMMA RemoveDirsStep ==
    ASSUME FilesInv, NEW c \in Client, RemoveDirs(c)
    PROVE  FilesInv'
<1>1. CallsAreWhole /\ SetsInv /\ DOMAIN client = Client /\ DOMAIN config = File
      /\ DOMAIN wanted = File
      BY DEF FilesInv, CallsAreWhole
<1>2. /\ client[c].op = "delete" /\ client[c].at = "remove" /\ Ends(c)
      /\ config' = [config EXCEPT !["project"] = NoKeys]
      /\ wanted' = [wanted EXCEPT !["project"] = NoKeys]
      /\ setFor' = {} /\ age' = [l \in Log |-> -1] /\ logOf' = [l \in Log |-> 0]
      /\ mixed' = IF Setting("project") = {} THEN mixed ELSE mixed \cup {"project"}
      BY DEF RemoveDirs, At, LeftOver
<1>3. /\ DOMAIN client' = Client /\ client'[c] = Idle0
      /\ \A d \in Client \ {c} : client'[d] = client[d]
      BY <1>1, <1>2, EndsEffect
<1>4. /\ DOMAIN config' = File /\ DOMAIN wanted' = File
      /\ config'["project"] = wanted'["project"]
      /\ \A f \in File \ {"project"} : config'[f] = config[f] /\ wanted'[f] = wanted[f]
      BY <1>1, <1>2 DEF File
<1>5. \A f \in File : Setting(f)' = Setting(f)
      BY <1>2, <1>3, IdleFields DEF Setting
<1>6. \A d \in Client : client[d].op = "set" => client'[d] = client[d]
      BY <1>2, <1>3
<1>7. CallsAreWhole'
  <2>1. \A d \in Client : Whole(client[d])
        BY <1>1 DEF CallsAreWhole
  <2>2. \A d \in Client : Whole(client'[d])
        BY <1>3, <2>1, IdleFields
  <2> QED
      BY <1>2, <1>3, <1>4, <2>2 DEF CallsAreWhole
<1>8. SetsInv'
  <2>1. ASSUME NEW f \in File \ mixed', \A d \in Setting(f)' : client'[d].at # "write"
        PROVE  config'[f] = wanted'[f]
    <3>1. CASE f = "project"
          BY <1>4, <3>1
    <3>2. CASE f # "project"
      <4>1. f \in File \ mixed /\ \A d \in Setting(f) : client[d].at # "write"
            BY <1>2, <1>5, <1>6, <2>1 DEF Setting
      <4> QED
          BY <1>1, <1>4, <3>2, <4>1 DEF SetsInv, SetsAreKept
    <3> QED
        BY <3>1, <3>2
  <2>2. ASSUME NEW f \in File \ mixed', NEW d \in Setting(f)', Undisturbed(d)'
        PROVE  client'[d].new = UpdatedKey(wanted'[f], client'[d].key, client'[d].value)
    <3>1. d \in Setting(f) /\ f \in File \ mixed /\ f # "project"
          BY <1>2, <1>5, <2>2
    <3>2. /\ d \in Client /\ client[d].op = "set" /\ client[d].file = f
          /\ client'[d] = client[d]
          BY <1>6, <3>1 DEF Setting
    <3>3. Undisturbed(d)
      <4>1. CASE client[d].at = "write"
            BY <4>1 DEF Undisturbed
      <4>2. CASE client[d].at # "write"
        <5>1. /\ client[d].at = "truncate"
              /\ \A e \in Setting(f)' : client'[e].at # "write"
              BY <2>2, <3>2, <4>2 DEF Undisturbed
        <5>2. \A e \in Setting(f) : client[e].at # "write"
              BY <1>5, <1>6, <5>1 DEF Setting
        <5> QED
            BY <3>2, <5>1, <5>2 DEF Undisturbed
      <4> QED
          BY <4>1, <4>2
    <3> QED
        BY <1>1, <1>4, <3>1, <3>2, <3>3 DEF SetsInv
  <2>3. SetsAreKept'
        BY <2>1 DEF SetsAreKept
  <2> QED
      BY <2>2, <2>3 DEF SetsInv
<1>9. InheritedInv'
  <2>1. CASE Setting("project") = {}
    <3>1. \A l \in Log : ~(age'[l] >= 0)
          BY <1>2
    <3>2. Setting("project")' = {}
          BY <1>5, <2>1 DEF File
    <3> QED
        BY <1>2, <3>1, <3>2 DEF InheritedInv
  <2>2. CASE Setting("project") # {}
        BY <1>2, <2>2 DEF InheritedInv
  <2> QED
      BY <2>1, <2>2
<1> QED
    BY <1>7, <1>8, <1>9 DEF FilesInv

\* A daemon that dies leaves the files it was writing in whatever state.
LEMMA DiesStep ==
    ASSUME FilesInv, Dies
    PROVE  FilesInv'
<1>1. CallsAreWhole /\ SetsInv /\ InheritedInv
      BY DEF FilesInv
<1>2. /\ client' = [c \in Client |-> Idle0]
      /\ UNCHANGED <<named, config, wanted, age, logOf, setFor>>
      /\ \A f \in File \ mixed' : f \notin mixed /\ Setting(f) = {}
      /\ "project" \notin mixed' => \A c \in Client : client[c].op # "delete"
      BY DEF Dies, files, owners
<1>3. \A c \in Client : client'[c].op = "none" /\ Whole(client'[c])
      BY <1>2, IdleFields
<1>4. \A f \in File : Setting(f)' = {}
      BY <1>3 DEF Setting
<1>5. CallsAreWhole'
      BY <1>1, <1>2, <1>3 DEF CallsAreWhole
<1>6. SetsInv'
  <2>1. \A f \in File \ mixed' : config'[f] = wanted'[f]
        BY <1>1, <1>2 DEF SetsInv, SetsAreKept
  <2> QED
      BY <1>4, <2>1 DEF SetsInv, SetsAreKept
<1>7. InheritedInv'
  <2>1. CASE "project" \in mixed'
        BY <2>1 DEF InheritedInv
  <2>2. CASE "project" \notin mixed'
    <3>1. /\ "project" \notin mixed
          /\ \A c \in Client : ~At(c, "delete", "remove")
          BY <1>2, <2>2 DEF File, At
    <3>2. /\ setFor \subseteq named
          /\ \A l \in Log : age[l] >= 0 => logOf[l] \in named
          BY <1>1, <3>1 DEF InheritedInv
    <3>3. Setting("project")' = {}
          BY <1>4 DEF File
    <3> QED
        BY <1>2, <3>2, <3>3 DEF InheritedInv
  <2> QED
      BY <2>1, <2>2
<1> QED
    BY <1>5, <1>6, <1>7 DEF FilesInv

\* What a set that is under way keeps.
SetGoesOn(c) ==
    /\ DOMAIN client' = Client /\ Whole(client'[c])
    /\ client'[c].op = "set"
    /\ client'[c].file = client[c].file /\ client'[c].row = client[c].row
    /\ client'[c].key = client[c].key /\ client'[c].value = client[c].value
    /\ \A d \in Client \ {c} : client'[d] = client[d]

LEMMA SetFields ==
    ASSUME CallsAreWhole, NEW c \in Client, client[c].op = "set"
    PROVE  /\ DOMAIN client = Client
           /\ {"op", "at", "file", "key", "value", "row"} \subseteq DOMAIN client[c]
           /\ client[c].file \in File
           /\ client[c].at \in {"truncate", "write", "validate"} => "new" \in DOMAIN client[c]
BY DEF CallsAreWhole, Whole

LEMMA SetStep ==
    ASSUME CallsAreWhole, NEW c \in Client, client[c].op = "set", "new" \in DOMAIN client[c],
           NEW at, GoesOn(c, at)
    PROVE  SetGoesOn(c) /\ client'[c].at = at /\ client'[c].new = client[c].new
<1>1. /\ DOMAIN client = Client
      /\ {"op", "at", "file", "key", "value", "row", "new"} \subseteq DOMAIN client[c]
      /\ client[c].file \in File
      BY SetFields
<1>2. /\ DOMAIN client' = Client
      /\ DOMAIN client'[c] = DOMAIN client[c]
      /\ client'[c].at = at
      /\ \A k \in DOMAIN client[c] \ {"at"} : client'[c][k] = client[c][k]
      /\ \A d \in Client \ {c} : client'[d] = client[d]
      BY <1>1, GoesOnEffect
<1>3. /\ client'[c].op = "set" /\ client'[c].file = client[c].file
      /\ client'[c].row = client[c].row /\ client'[c].key = client[c].key
      /\ client'[c].value = client[c].value /\ client'[c].new = client[c].new
      BY <1>1, <1>2
<1>4. Whole(client'[c])
      BY <1>1, <1>2, <1>3 DEF Whole
<1> QED
    BY <1>2, <1>3, <1>4 DEF SetGoesOn

\* The files have the same sets under way, for the same rows.
LEMMA SetSame ==
    ASSUME CallsAreWhole, NEW c \in Client, client[c].op = "set", SetGoesOn(c)
    PROVE  /\ \A f \in File : Setting(f)' = Setting(f)
           /\ \A d \in Client : client'[d].row = client[d].row
           /\ \A d \in Client : At(d, "delete", "remove") => client'[d] = client[d]
           /\ Shapes' => CallsAreWhole'
<1>1. \A f \in File : Setting(f)' = Setting(f)
      BY DEF Setting, SetGoesOn
<1>2. \A d \in Client : client'[d].row = client[d].row
      BY DEF SetGoesOn
<1>3. \A d \in Client : At(d, "delete", "remove") => client'[d] = client[d]
      BY DEF SetGoesOn, At
<1>4. \A d \in Client : Whole(client[d])
      BY DEF CallsAreWhole
<1>5. \A d \in Client : Whole(client'[d])
      BY <1>4 DEF SetGoesOn
<1>6. Shapes' => CallsAreWhole'
      BY <1>5 DEF CallsAreWhole, Shapes, SetGoesOn
<1> QED
    BY <1>1, <1>2, <1>3, <1>6

\* Another file and those who write it stay as they were.
LEMMA OtherFile ==
    ASSUME CallsAreWhole, SetsInv, NEW c \in Client, client[c].op = "set", SetGoesOn(c),
           NEW f \in File \ mixed, f # client[c].file,
           config'[f] = config[f], wanted'[f] = wanted[f]
    PROVE  /\ (\A d \in Setting(f)' : client'[d].at # "write") => config'[f] = wanted'[f]
           /\ \A d \in Setting(f)' : Undisturbed(d)' =>
                 client'[d].new = UpdatedKey(wanted'[f], client'[d].key, client'[d].value)
<1>1. Setting(f)' = Setting(f)
      BY SetSame
<1>2. \A d \in Setting(f) : d \in Client /\ client[d].file = f /\ client'[d] = client[d]
      BY DEF Setting, SetGoesOn
<1>3. (\A d \in Setting(f)' : client'[d].at # "write") => config'[f] = wanted'[f]
      BY <1>1, <1>2 DEF SetsInv, SetsAreKept
<1>4. ASSUME NEW d \in Setting(f), Undisturbed(d)' PROVE Undisturbed(d)
      BY <1>1, <1>2, <1>4 DEF Undisturbed
<1>5. ASSUME NEW d \in Setting(f)', Undisturbed(d)'
      PROVE  client'[d].new = UpdatedKey(wanted'[f], client'[d].key, client'[d].value)
  <2>1. d \in Setting(f) /\ Undisturbed(d) /\ client'[d] = client[d]
        BY <1>1, <1>2, <1>4, <1>5
  <2>2. client[d].new = UpdatedKey(wanted[f], client[d].key, client[d].value)
        BY <2>1 DEF SetsInv
  <2> QED
      BY <2>1, <2>2
<1> QED
    BY <1>3, <1>5

\* What is read is what the file is asked to hold.
LEMMA ReadConfigStep ==
    ASSUME FilesInv, NEW c \in Client, ReadConfig(c)
    PROVE  FilesInv'
<1> DEFINE f == client[c].file
           new == UpdatedKey(config[f], client[c].key, client[c].value)
           Read == [at |-> "truncate", new |-> new]
<1>1. /\ CallsAreWhole /\ SetsInv /\ InheritedInv
      /\ client[c].op = "set" /\ client[c].at = "read"
      /\ UNCHANGED <<config, wanted, mixed, named, setFor, age, logOf>>
      BY DEF FilesInv, ReadConfig, At, files, owners, asked
<1>2. CASE Ends(c)
  <2>1. DOMAIN client' = Client /\ \A d \in Client : Quiet(d)
        BY <1>1, <1>2, OneEnds DEF At
  <2> QED
      BY <1>1, <2>1, QuietCommand
<1>3. CASE client' = [client EXCEPT ![c] = Merged(client[c], Read)]
  <2>1. /\ DOMAIN client = Client /\ f \in File
        /\ {"op", "at", "file", "key", "value", "row"} \subseteq DOMAIN client[c]
        BY <1>1, SetFields
  <2>2. DOMAIN Read = {"at", "new"} /\ Read.at = "truncate" /\ Read.new = new
        OBVIOUS
  <2>3. client' = [client EXCEPT ![c] = Merged(client[c], Read)]
        BY <1>3
  <2> HIDE DEF Read, new
  <2>4. /\ DOMAIN Merged(client[c], Read) = DOMAIN client[c] \cup DOMAIN Read
        /\ \A k \in DOMAIN Read : Merged(client[c], Read)[k] = Read[k]
        /\ \A k \in DOMAIN client[c] \ DOMAIN Read : Merged(client[c], Read)[k] = client[c][k]
        BY MergedFields
  <2>5. /\ DOMAIN client' = Client /\ client'[c] = Merged(client[c], Read)
        /\ \A d \in Client \ {c} : client'[d] = client[d]
        BY <2>1, <2>3
  <2>6. /\ client'[c].op = "set" /\ client'[c].file = f /\ client'[c].row = client[c].row
        /\ client'[c].key = client[c].key /\ client'[c].value = client[c].value
        /\ client'[c].at = "truncate" /\ client'[c].new = new
        /\ {"op", "at", "file", "key", "value", "row", "new"} \subseteq DOMAIN client'[c]
        BY <1>1, <2>1, <2>2, <2>4, <2>5
  <2>7. SetGoesOn(c)
        BY <2>1, <2>5, <2>6 DEF SetGoesOn, Whole
  <2>8. CallsAreWhole'
        BY <1>1, <2>7, SetSame DEF Shapes, CallsAreWhole
  <2>9. ASSUME NEW g \in File \ mixed
        PROVE  /\ (\A d \in Setting(g)' : client'[d].at # "write") => config'[g] = wanted'[g]
               /\ \A d \in Setting(g)' : Undisturbed(d)' =>
                     client'[d].new = UpdatedKey(wanted'[g], client'[d].key, client'[d].value)
    <3>1. CASE g # f
          BY <1>1, <2>7, <3>1, OtherFile
    <3>2. CASE g = f
      <4>1. Setting(g)' = Setting(g)
            BY <1>1, <2>7, SetSame
      <4>2. \A d \in Setting(g) \ {c} : client'[d] = client[d] /\ client[d].file = f
            BY <2>5, <3>2 DEF Setting
      <4>3. (\A d \in Setting(g) : client'[d].at # "write")
                 => \A d \in Setting(g) : client[d].at # "write"
            BY <1>1, <4>2
      <4>4. (\A d \in Setting(g) : client'[d].at # "write") => config[g] = wanted[g]
            BY <1>1, <4>3 DEF SetsInv, SetsAreKept
      <4>5. ASSUME NEW d \in Setting(g), Undisturbed(d)'
            PROVE  client'[d].new = UpdatedKey(wanted'[g], client'[d].key, client'[d].value)
        <5>1. CASE d = c
          <6>1. \A e \in Setting(g) : client'[e].at # "write"
                BY <2>6, <3>2, <4>1, <4>5, <5>1 DEF Undisturbed
          <6> QED
              BY <1>1, <2>6, <3>2, <4>4, <5>1, <6>1 DEF new
        <5>2. CASE d # c
          <6>1. client'[d] = client[d] /\ client[d].file = f
                BY <4>2, <5>2
          <6>2. CASE client[d].at = "write"
                BY <1>1, <6>1, <6>2 DEF SetsInv, Undisturbed
          <6>3. CASE client[d].at # "write"
            <7>1. /\ client[d].at = "truncate"
                  /\ \A e \in Setting(g) : client'[e].at # "write"
                  BY <3>2, <4>1, <4>5, <6>1, <6>3 DEF Undisturbed
            <7>2. Undisturbed(d)
                  BY <3>2, <4>3, <6>1, <7>1 DEF Undisturbed
            <7> QED
                BY <1>1, <6>1, <7>2 DEF SetsInv
          <6> QED
              BY <6>2, <6>3
        <5> QED
            BY <5>1, <5>2
      <4> QED
          BY <1>1, <4>1, <4>4, <4>5
    <3> QED
        BY <3>1, <3>2
  <2>10. SetsInv'
         BY <1>1, <2>9 DEF SetsInv, SetsAreKept
  <2>11. InheritedInv'
    <3>1. /\ \A d \in Client : At(d, "delete", "remove") => client'[d] = client[d]
          /\ \A d \in Setting("project")' :
                d \in Setting("project") /\ client'[d].row = client[d].row
          BY <1>1, <2>7, SetSame DEF File, Setting
    <3> QED
        BY <1>1, <3>1, QuietOwners
  <2> QED
      BY <2>8, <2>10, <2>11 DEF FilesInv
<1> QED
    BY <1>2, <1>3 DEF ReadConfig

\* fs::write empties the file and fills it.
LEMMA WriteStep ==
    ASSUME FilesInv, NEW c \in Client, Truncate(c) \/ Write(c)
    PROVE  FilesInv'
<1>0. PICK f : f = client[c].file
      OBVIOUS
<1> DEFINE Merges == Merged(wanted[f], [k \in {client[c].key} |->
                                           Stored(client[c].key, client[c].value)])
<1>1. /\ CallsAreWhole /\ SetsInv /\ InheritedInv
      /\ client[c].op = "set" /\ client[c].at \in {"truncate", "write"}
      /\ UNCHANGED <<named, age, logOf>>
      /\ mixed' = IF Setting(f) = {c} THEN mixed ELSE mixed \cup {f}
      BY <1>0 DEF FilesInv, Truncate, Write, At, owners
<1>2. /\ DOMAIN client = Client /\ f \in File /\ DOMAIN config = File /\ DOMAIN wanted = File
      /\ {"op", "at", "file", "key", "value", "row", "new"} \subseteq DOMAIN client[c]
      BY <1>0, <1>1, SetFields DEF CallsAreWhole
<1>3. GoesOn(c, "write") \/ GoesOn(c, "validate")
      BY DEF Truncate, Write
<1>4. SetGoesOn(c) /\ client'[c].new = client[c].new
      BY <1>1, <1>2, <1>3, SetStep
<1>5. \A g \in File : Setting(g)' = Setting(g)
      BY <1>1, <1>4, SetSame
<1>6. \/ config' = [config EXCEPT ![f] = NoKeys] /\ wanted' = wanted
      \/ config' = [config EXCEPT ![f] = client[c].new]
         /\ wanted' = [wanted EXCEPT ![f] = Merges]
      BY <1>0 DEF Truncate, Write
<1>7. /\ DOMAIN config' = File /\ DOMAIN wanted' = File
      /\ \A g \in File \ {f} : config'[g] = config[g] /\ wanted'[g] = wanted[g]
      BY <1>2, <1>6
<1>8. CallsAreWhole'
      BY <1>1, <1>4, <1>7, SetSame DEF Shapes, CallsAreWhole
<1>9. ASSUME f \notin mixed'
      PROVE  /\ (\A d \in Setting(f)' : client'[d].at # "write") => config'[f] = wanted'[f]
             /\ \A d \in Setting(f)' : Undisturbed(d)' =>
                   client'[d].new = UpdatedKey(wanted'[f], client'[d].key, client'[d].value)
  <2>1. Setting(f) = {c} /\ Setting(f)' = {c} /\ f \notin mixed
        BY <1>1, <1>2, <1>5, <1>9
  <2>2. Undisturbed(c)
        BY <1>0, <1>1, <2>1 DEF Undisturbed
  <2>3. client[c].new = UpdatedKey(wanted[f], client[c].key, client[c].value)
        BY <1>1, <1>2, <2>1, <2>2 DEF SetsInv
  <2>4. CASE Truncate(c)
    <3>1. GoesOn(c, "write") /\ wanted' = wanted
          BY <2>4 DEF Truncate
    <3>2. client'[c].at = "write"
          BY <1>1, <1>2, <3>1, SetStep
    <3>3. client'[c].key = client[c].key /\ client'[c].value = client[c].value
          BY <1>4 DEF SetGoesOn
    <3> QED
        BY <1>4, <2>1, <2>3, <3>1, <3>2, <3>3
  <2>5. CASE Write(c)
    <3>1. /\ GoesOn(c, "validate")
          /\ config' = [config EXCEPT ![f] = client[c].new]
          /\ wanted' = [wanted EXCEPT ![f] = Merges]
          BY <1>0, <2>5 DEF Write
    <3>2. client'[c].at = "validate"
          BY <1>1, <1>2, <3>1, SetStep
    <3>3. config'[f] = client[c].new /\ wanted'[f] = Merges
          BY <1>2, <3>1
    <3>4. config'[f] = wanted'[f]
          BY <2>3, <3>3 DEF UpdatedKey
    <3>5. ~Undisturbed(c)'
          BY <3>2 DEF Undisturbed
    <3> QED
        BY <2>1, <3>4, <3>5
  <2> QED
      BY <2>4, <2>5
<1>10. ASSUME NEW g \in File \ mixed'
       PROVE  /\ (\A d \in Setting(g)' : client'[d].at # "write") => config'[g] = wanted'[g]
              /\ \A d \in Setting(g)' : Undisturbed(d)' =>
                    client'[d].new = UpdatedKey(wanted'[g], client'[d].key, client'[d].value)
  <2>1. CASE g = f
        BY <1>9, <2>1
  <2>2. CASE g # f
    <3>1. /\ g \in File \ mixed /\ g # client[c].file
          /\ config'[g] = config[g] /\ wanted'[g] = wanted[g]
          BY <1>0, <1>1, <1>7, <2>2
    <3> QED
        BY <1>1, <1>4, <3>1, OtherFile
  <2> QED
      BY <2>1, <2>2
<1>11. SetsInv'
       BY <1>10 DEF SetsInv, SetsAreKept
<1>12. InheritedInv'
  <2>1. /\ \A d \in Client : At(d, "delete", "remove") => client'[d] = client[d]
        /\ \A d \in Setting("project")' :
              d \in Setting("project") /\ client'[d].row = client[d].row
        BY <1>1, <1>4, SetSame DEF File, Setting
  <2>2. \A r \in setFor' \ setFor : f = "project" /\ r = client[c].row
        BY <1>0 DEF Truncate, Write, owners
  <2>3. \A r \in setFor' \ setFor : \E d \in Setting("project") : r = client[d].row
        BY <1>0, <1>1, <2>2 DEF Setting
  <2>4. mixed \subseteq mixed'
        BY <1>1
  <2>5. named \subseteq named' /\ \A l \in Log : age'[l] >= 0 => age[l] >= 0 /\ logOf'[l] = logOf[l]
        BY <1>1
  <2> QED
      BY <1>1, <2>1, <2>3, <2>4, <2>5, QuietOwners
<1> QED
    BY <1>8, <1>11, <1>12 DEF FilesInv

LEMMA FilesInitHolds == FilesInit => FilesInv
<1> SUFFICES ASSUME FilesInit PROVE FilesInv
    OBVIOUS
<1>1. /\ client = [c \in Client |-> Idle0]
      /\ config = [f \in File |-> NoKeys] /\ wanted = config
      /\ age = [l \in Log |-> -1] /\ logOf = [l \in Log |-> 0] /\ setFor = {}
      BY DEF FilesInit
<1>2. \A f \in File : Setting(f) = {}
      BY <1>1, IdleFields DEF Setting
<1>3. CallsAreWhole
      BY <1>1, IdleFields DEF CallsAreWhole
<1>4. SetsInv
      BY <1>1, <1>2 DEF SetsInv, SetsAreKept
<1>5. Setting("project") = {}
      BY <1>2 DEF File
<1>6. \A l \in Log : ~(age[l] >= 0)
      BY <1>1
<1>7. InheritedInv
      BY <1>1, <1>5, <1>6 DEF InheritedInv
<1> QED
    BY <1>3, <1>4, <1>7 DEF FilesInv

LEMMA FilesStep == FilesInv /\ [FilesNext]_filesVars => FilesInv'
<1> SUFFICES ASSUME FilesInv, [FilesNext]_filesVars PROVE FilesInv'
    OBVIOUS
<1>1. ASSUME NEW c \in Client, Handler(c) PROVE FilesInv'
  <2>1. CASE \/ BeginInit(c) \/ MakeDirs(c) \/ InsertRow(c) \/ BeginDelete(c)
             \/ BeginSet(c) \/ Validate(c) \/ BeginShow(c) \/ Show(c)
             \/ BeginCleanup(c) \/ LookAt(c)
        BY <2>1, HandlerQuiet
  <2>2. CASE DeleteRow(c)
        BY <2>2, DeleteRowStep
  <2>3. CASE RemoveDirs(c)
        BY <2>3, RemoveDirsStep
  <2>4. CASE ReadConfig(c)
        BY <2>4, ReadConfigStep
  <2>5. CASE Truncate(c) \/ Write(c)
        BY <2>5, WriteStep
  <2>6. CASE Unlink(c)
        BY <2>6, LogsQuiet
  <2> QED
      BY <1>1, <2>1, <2>2, <2>3, <2>4, <2>5, <2>6 DEF Handler
<1>2. CASE TimePasses \/ \E l \in Log : AgentWrites(l)
      BY <1>2, LogsQuiet
<1>3. CASE Dies
      BY <1>3, DiesStep
<1>4. CASE UNCHANGED filesVars
  <2>1. UNCHANGED <<config, wanted, mixed, named, setFor, age, logOf, client>>
        BY <1>4 DEF filesVars, files, owners, asked
  <2>2. DOMAIN client' = Client /\ \A d \in Client : Quiet(d)
        BY <2>1 DEF FilesInv, CallsAreWhole, Quiet
  <2> QED
      BY <2>1, <2>2, QuietCommand
<1> QED
    BY <1>1, <1>2, <1>3, <1>4 DEF FilesNext

LEMMA FilesInvariant == FilesSpec => []FilesInv
BY FilesInitHolds, FilesStep, PTL DEF FilesSpec

\* A configuration file holds what the sets of it ask for and every other key as
\* it was, unless two commands changed it at the same time
\* (handle_config_set, set_partial_config_value).
THEOREM SetsStay == FilesSpec => []SetsAreKept
<1>1. FilesInv => SetsAreKept
      BY DEF FilesInv, SetsInv
<1> QED
    BY <1>1, FilesInvariant, PTL

\* A project inherits neither configuration nor logs of an earlier one of its
\* name, unless the daemon died or a config.set was under way when that was
\* deleted (remove_project_dirs).
THEOREM NothingIsLeftBehind == FilesSpec => []NothingIsInherited
<1>1. FilesInv => NothingIsInherited
      BY DEF FilesInv, InheritedInv, NothingIsInherited
<1> QED
    BY <1>1, FilesInvariant, PTL

(***************************************************************************)
(* Places: worktrees, local branches and those at the remote.              *)
(***************************************************************************)

\* A place that exists holds commits and a version of the base branch.
LEMMA Heads ==
    /\ None \notin Head /\ None.commits = {}
    /\ \A h \in Head : h.commits \subseteq Commit /\ h.base \in 0..MaxBase
    /\ \A b \in 0..MaxBase : [commits |-> {}, base |-> b] \in Head
    /\ \A h \in Head, C \in SUBSET Commit :
          /\ [h EXCEPT !.commits = C] \in Head
          /\ [h EXCEPT !.commits = C].commits = C
    /\ \A h \in Head, b \in 0..MaxBase :
          /\ [h EXCEPT !.base = b] \in Head
          /\ [h EXCEPT !.base = b].commits = h.commits
BY DeliveryAssumption DEF Head, None

\* Every story has a label.
LEMMA Labels == \A s \in Story : LabelOf[s] \in Label
BY DEF Label

\* One place is replaced.
LEMMA Replaced ==
    ASSUME NEW place \in [Label -> Head \cup {None}], NEW s \in Story,
           NEW head \in Head \cup {None}
    PROVE  /\ With(place, s, head) \in [Label -> Head \cup {None}]
           /\ With(place, s, head)[LabelOf[s]] = head
           /\ \A l \in Label : l # LabelOf[s] => With(place, s, head)[l] = place[l]
BY Labels DEF With

\* What an agent's commit changes.
LEMMA CommitEffect ==
    ASSUME TypeOK, NEW s \in Story, AgentCommits(s)
    PROVE  \E n \in 1..MaxCommits :
              /\ folder' \in [Label -> Head \cup {None}]
              /\ folder[LabelOf[s]] \in Head /\ folder'[LabelOf[s]] \in Head
              /\ folder'[LabelOf[s]].commits = folder[LabelOf[s]].commits \cup {<<s, n>>}
              /\ \A l \in Label : l # LabelOf[s] => folder'[l] = folder[l]
              /\ work' \in [Story -> SUBSET Commit]
              /\ work'[s] = work[s] \cup {<<s, n>>}
              /\ \A u \in Story : u # s => work'[u] = work[u]
<1>1. PICK n \in 1..MaxCommits :
         /\ work' = [work EXCEPT ![s] = @ \cup {<<s, n>>}]
         /\ folder' = [folder EXCEPT ![LabelOf[s]].commits = @ \cup {<<s, n>>}]
      BY DEF AgentCommits
<1>2. /\ folder \in [Label -> Head \cup {None}] /\ work \in [Story -> SUBSET Commit]
      /\ LabelOf[s] \in Label
      BY Labels DEF TypeOK
<1>3. folder[LabelOf[s]] \in Head
      BY <1>2 DEF AgentCommits, Exists
<1>4. <<s, n>> \in Commit
      BY <1>1 DEF Commit
<1> DEFINE C == folder[LabelOf[s]].commits \cup {<<s, n>>}
           h == [folder[LabelOf[s]] EXCEPT !.commits = C]
<1>5. C \in SUBSET Commit
      BY <1>3, <1>4, Heads
<1>6. h \in Head /\ h.commits = C
      BY <1>3, <1>5, Heads
<1>7. folder' = [folder EXCEPT ![LabelOf[s]] = h]
      BY <1>1
<1> HIDE DEF C, h
<1>8. /\ folder' \in [Label -> Head \cup {None}]
      /\ folder'[LabelOf[s]] = h
      /\ \A l \in Label : l # LabelOf[s] => folder'[l] = folder[l]
      BY <1>2, <1>6, <1>7
<1>9. /\ work' \in [Story -> SUBSET Commit]
      /\ work'[s] = work[s] \cup {<<s, n>>}
      /\ \A u \in Story : u # s => work'[u] = work[u]
      BY <1>1, <1>2, <1>4
<1>10. QED BY <1>3, <1>6, <1>8, <1>9 DEF C

\* What exec.retry takes from a worktree.
LEMMA RetryEffect ==
    ASSUME TypeOK, NEW s \in Story, Retry(s)
    PROVE  \E lost \in SUBSET work[s] :
              /\ folder' \in [Label -> Head \cup {None}]
              /\ folder[LabelOf[s]] \in Head /\ folder'[LabelOf[s]] \in Head
              /\ folder'[LabelOf[s]].commits = folder[LabelOf[s]].commits \ lost
              /\ \A l \in Label : l # LabelOf[s] => folder'[l] = folder[l]
              /\ work' \in [Story -> SUBSET Commit]
              /\ work'[s] = work[s] \ lost
              /\ \A u \in Story : u # s => work'[u] = work[u]
<1>1. PICK lost \in SUBSET work[s] :
         /\ work' = [work EXCEPT ![s] = @ \ lost]
         /\ folder' = [folder EXCEPT ![LabelOf[s]].commits = @ \ lost]
      BY DEF Retry
<1>2. /\ folder \in [Label -> Head \cup {None}] /\ work \in [Story -> SUBSET Commit]
      /\ LabelOf[s] \in Label
      BY Labels DEF TypeOK
<1>3. folder[LabelOf[s]] \in Head
      BY <1>2 DEF Retry, Exists
<1> DEFINE C == folder[LabelOf[s]].commits \ lost
           h == [folder[LabelOf[s]] EXCEPT !.commits = C]
<1>5. C \in SUBSET Commit
      BY <1>3, Heads
<1>6. h \in Head /\ h.commits = C
      BY <1>3, <1>5, Heads
<1>7. folder' = [folder EXCEPT ![LabelOf[s]] = h]
      BY <1>1
<1> HIDE DEF C, h
<1>8. /\ folder' \in [Label -> Head \cup {None}]
      /\ folder'[LabelOf[s]] = h
      /\ \A l \in Label : l # LabelOf[s] => folder'[l] = folder[l]
      BY <1>2, <1>6, <1>7
<1>9. /\ work' \in [Story -> SUBSET Commit]
      /\ work'[s] = work[s] \ lost
      /\ \A u \in Story : u # s => work'[u] = work[u]
      BY <1>1, <1>2
<1>10. QED BY <1>1, <1>3, <1>6, <1>8, <1>9 DEF C

\* A rebase changes the base below the commits.
LEMMA RebaseEffect ==
    ASSUME TypeOK, NEW s \in Story, Exists(folder, s),
           folder' = [folder EXCEPT ![LabelOf[s]].base = base]
    PROVE  /\ folder' \in [Label -> Head \cup {None}]
           /\ folder'[LabelOf[s]] \in Head
           /\ \A l \in Label : /\ folder'[l].commits = folder[l].commits
                               /\ folder'[l] = None <=> folder[l] = None
                               /\ l # LabelOf[s] => folder'[l] = folder[l]
<1>1. /\ folder \in [Label -> Head \cup {None}] /\ base \in 0..MaxBase
      /\ LabelOf[s] \in Label
      BY Labels DEF TypeOK
<1>2. folder[LabelOf[s]] \in Head
      BY <1>1 DEF Exists
<1> DEFINE h == [folder[LabelOf[s]] EXCEPT !.base = base]
<1>3. h \in Head /\ h.commits = folder[LabelOf[s]].commits
      BY <1>1, <1>2, Heads
<1>4. folder' = [folder EXCEPT ![LabelOf[s]] = h]
      OBVIOUS
<1> HIDE DEF h
<1>5. /\ folder' \in [Label -> Head \cup {None}]
      /\ folder'[LabelOf[s]] = h
      /\ \A l \in Label : l # LabelOf[s] => folder'[l] = folder[l]
      BY <1>1, <1>3, <1>4
<1>6. h # None /\ folder[LabelOf[s]] # None
      BY <1>2, <1>3, Heads
<1>7. QED BY <1>3, <1>5, <1>6
-----------------------------------------------------------------------------
(***************************************************************************)
(* Types, and rows.                                                        *)
(***************************************************************************)

\* Where the tick may be in a start or a delivery.
Moment == {"none", "create", "store", "rebase", "branch", "push", "request", "url"}

\* What the tick is about to do.
LEMMA Jobs ==
    ASSUME TypeOK
    PROVE  /\ NoJob.at = "none"
           /\ job.at \in Moment
           /\ job.at # "none" => job.story \in Story
           /\ \A at \in Moment : GoesTo(at) =>
                 /\ job'.at = at /\ job'.story = job.story
                 /\ job.at # "none" => job' \in [story : Story, at : Moment]
           /\ \A s \in Story, at \in Moment :
                 [story |-> s, at |-> at] \in [story : Story, at : Moment]
<1>1. job \in [story : Story, at : Moment] \/ job = NoJob
      BY DEF TypeOK, Moment
<1>2. NoJob.at = "none" /\ NoJob.at \in Moment
      BY DEF NoJob, Moment
<1>3. job.at \in Moment /\ (job.at # "none" => job \in [story : Story, at : Moment])
      BY <1>1, <1>2
<1>4. job.at # "none" => job.story \in Story
      BY <1>3
<1>5. ASSUME NEW at \in Moment, GoesTo(at)
      PROVE  /\ job'.at = at /\ job'.story = job.story
             /\ job.at # "none" => job' \in [story : Story, at : Moment]
  <2>1. job' = [job EXCEPT !.at = at]
        BY <1>5 DEF GoesTo
  <2>2. CASE job \in [story : Story, at : Moment]
        BY <2>1, <2>2
  <2>3. CASE job = NoJob
        BY <1>2, <2>1, <2>3 DEF NoJob
  <2>4. QED BY <1>1, <2>2, <2>3
<1>6. QED BY <1>2, <1>3, <1>4, <1>5

\* What a failure does to a row.
LEMMA FailureEffect ==
    ASSUME TypeOK, Fails, job.at # "none"
    PROVE  /\ job' = NoJob
           /\ status' \in [Story -> {"new", "gone", "ready", "in_progress", "done",
                                     "failed", "cancelled"}]
           /\ \A u \in Story : status'[u] =
                 IF u = job.story /\ status[u] # "gone" THEN "failed" ELSE status[u]
BY Jobs DEF Fails, Updated, HasRow, TypeOK

\* Every step keeps the types.
LEMMA NextType ==
    ASSUME TypeOK, RowsInv, TickInv, [Next]_vars
    PROVE  TypeOK'
<1>1. TypeOK
      OBVIOUS
<1> USE DEF rows, git, tick, history
<1>2. CASE UNCHANGED vars
      BY <1>2 DEF vars, TypeOK, NoJob
<1>3. ASSUME NEW s \in Story, AgentCommits(s)
      PROVE  TypeOK'
  <2>1. folder' \in [Label -> Head \cup {None}] /\ work' \in [Story -> SUBSET Commit]
        BY <1>3, CommitEffect
  <2>2. UNCHANGED <<project, status, tree, mrUrl, finished, local, remote, mergeRequest,
                    base, job, due, plan, removing, hurt>>
        BY <1>3 DEF AgentCommits
  <2>3. QED BY <2>1, <2>2 DEF TypeOK, NoJob
<1>4. CASE Tick
  <2>1. PICK F \in SUBSET Story, S \in SUBSET Story :
           /\ \A s \in F : s \in tree
           /\ status' \in [Story -> {"new", "gone", "ready", "in_progress", "done",
                                     "failed", "cancelled"}]
           /\ finished' = finished \cup F /\ due' = F /\ plan' = S
        BY <1>4 DEF Tick, TypeOK
  <2>2. UNCHANGED <<project, tree, mrUrl, folder, local, remote, mergeRequest,
                    base, job, removing, work, hurt>>
        BY <1>4 DEF Tick
  <2>3. QED BY <2>1, <2>2 DEF TypeOK, NoJob
<1>5. CASE TakeDue \/ TakePlanned
  <2>1. job' \in [story : Story, at : Moment] \cup {NoJob}
    <3>1. PICK s \in Story : job' \in {[story |-> s, at |-> "rebase"],
                                       [story |-> s, at |-> "create"], NoJob}
          BY <1>5 DEF TakeDue, TakePlanned, TypeOK
    <3>2. QED BY <3>1, Jobs DEF Moment
  <2>2. due' \subseteq due /\ plan' \subseteq plan
        BY <1>5 DEF TakeDue, TakePlanned
  <2>3. UNCHANGED <<project, status, tree, mrUrl, finished, folder, local, remote,
                    mergeRequest, base, removing, work, hurt>>
        BY <1>5 DEF TakeDue, TakePlanned
  <2>4. QED BY <2>1, <2>2, <2>3 DEF TypeOK, NoJob, Moment
<1>6. ASSUME job.at # "none",
             UNCHANGED <<project, finished, mergeRequest, base, due, plan, removing, hurt>>,
             job' \in [story : Story, at : Moment] \cup {NoJob},
             status' = status \/ Fails \/ status' = Updated(job.story, "in_progress"),
             folder' \in [Label -> Head \cup {None}],
             local' \in [Label -> Head \cup {None}],
             remote' \in [Label -> Head \cup {None}],
             work' \in [Story -> SUBSET Commit],
             tree' \subseteq {s \in Story : ProjectOf[s] \in project},
             mrUrl' \subseteq {s \in Story : ProjectOf[s] \in project}
      PROVE  TypeOK'
  <2>1. status' \in [Story -> {"new", "gone", "ready", "in_progress", "done",
                               "failed", "cancelled"}]
    <3>1. CASE status' = Updated(job.story, "in_progress")
          BY <1>6, <3>1, Jobs DEF Updated, TypeOK
    <3>2. CASE Fails
          BY <1>6, <3>2, FailureEffect
    <3>3. CASE status' = status
          BY <3>3 DEF TypeOK
    <3>4. QED BY <1>6, <3>1, <3>2, <3>3
  <2>2. QED BY <1>6, <2>1 DEF TypeOK, NoJob, Moment
<1>7. /\ folder \in [Label -> Head \cup {None}] /\ local \in [Label -> Head \cup {None}]
      /\ remote \in [Label -> Head \cup {None}] /\ work \in [Story -> SUBSET Commit]
      /\ tree \subseteq {s \in Story : ProjectOf[s] \in project}
      /\ mrUrl \subseteq {s \in Story : ProjectOf[s] \in project}
      /\ base \in 0..MaxBase
      BY DEF TypeOK
<1>8. ASSUME NEW at \in Moment, GoesTo(at) \/ Fails, job.at # "none"
      PROVE  job' \in [story : Story, at : Moment] \cup {NoJob}
      BY <1>8, Jobs DEF Fails
<1>9. CASE CreateWorktree
  <2>1. job.at # "none" /\ (GoesTo("store") \/ Fails)
        BY <1>9 DEF CreateWorktree
  <2>2. job.story \in Story
        BY <2>1, Jobs
  <2>3. folder' \in [Label -> Head \cup {None}]
    <3>1. [commits |-> {}, base |-> base] \in Head
          BY <1>7, Heads
    <3>2. With(folder, job.story, [commits |-> {}, base |-> base]) \in
             [Label -> Head \cup {None}]
          BY <1>7, <2>2, <3>1, Replaced
    <3>3. QED BY <1>7, <1>9, <3>2 DEF CreateWorktree
  <2>4. work' \in [Story -> SUBSET Commit]
    <3>1. work' = work \/ work' = [work EXCEPT ![job.story] = {}]
          BY <1>9 DEF CreateWorktree
    <3>2. QED BY <1>7, <3>1
  <2>5. UNCHANGED <<project, tree, mrUrl, finished, local, remote, mergeRequest,
                    base, due, plan, removing, hurt>>
        BY <1>9 DEF CreateWorktree
  <2>6. status' = status \/ Fails
        BY <1>9 DEF CreateWorktree
  <2>7. job' \in [story : Story, at : Moment] \cup {NoJob}
        BY <1>8, <2>1 DEF Moment
  <2>8. QED BY <1>6, <1>7, <2>1, <2>3, <2>4, <2>5, <2>6, <2>7
<1>10. CASE StoreWorktree
  <2>1. job.at = "store"
        BY <1>10 DEF StoreWorktree
  <2>2. tree' \subseteq {s \in Story : ProjectOf[s] \in project}
    <3>1. job.story \in Story
          BY <2>1, Jobs
    <3>2. HasRow(job.story) => ProjectOf[job.story] \in project
          BY <2>1, <3>1 DEF HasRow, TickInv, RowsInv
    <3>3. QED BY <1>7, <1>10, <3>1, <3>2 DEF StoreWorktree
  <2>3. UNCHANGED <<project, mrUrl, finished, folder, local, remote, mergeRequest,
                    base, due, plan, removing, work, hurt>>
        BY <1>10 DEF StoreWorktree
  <2>4. job' = NoJob /\ status' = Updated(job.story, "in_progress")
        BY <1>10 DEF StoreWorktree
  <2>5. QED BY <1>6, <1>7, <2>1, <2>2, <2>3, <2>4
<1>11. CASE Rebase
  <2>1. job.at # "none" /\ (GoesTo("branch") \/ Fails)
        BY <1>11 DEF Rebase
  <2>2. folder' \in [Label -> Head \cup {None}]
    <3>1. \/ folder' = folder
          \/ /\ Exists(folder, job.story)
             /\ folder' = [folder EXCEPT ![LabelOf[job.story]].base = base]
          BY <1>11 DEF Rebase
    <3>2. QED BY <1>7, <2>1, <3>1, Jobs, RebaseEffect
  <2>3. UNCHANGED <<project, tree, mrUrl, finished, local, remote, mergeRequest,
                    base, due, plan, removing, work, hurt>>
        BY <1>11 DEF Rebase
  <2>4. status' = status \/ Fails
        BY <1>11 DEF Rebase
  <2>5. job' \in [story : Story, at : Moment] \cup {NoJob}
        BY <1>8, <2>1 DEF Moment
  <2>6. QED BY <1>6, <1>7, <2>1, <2>2, <2>3, <2>4, <2>5
<1>12. CASE CreateBranch
  <2>1. job.at # "none" /\ (GoesTo("push") \/ Fails)
        BY <1>12 DEF CreateBranch
  <2>2. local' \in [Label -> Head \cup {None}]
    <3>1. job.story \in Story /\ LabelOf[job.story] \in Label
          BY <2>1, Jobs, Labels
    <3>2. folder[LabelOf[job.story]] \in Head \cup {None}
          BY <1>7, <3>1
    <3>3. QED BY <1>7, <1>12, <3>1, <3>2, Replaced DEF CreateBranch, BranchedAt
  <2>3. UNCHANGED <<project, tree, mrUrl, finished, folder, remote, mergeRequest,
                    base, due, plan, removing, work, hurt>>
        BY <1>12 DEF CreateBranch
  <2>4. status' = status \/ Fails
        BY <1>12 DEF CreateBranch
  <2>5. job' \in [story : Story, at : Moment] \cup {NoJob}
        BY <1>8, <2>1 DEF Moment
  <2>6. QED BY <1>6, <1>7, <2>1, <2>2, <2>3, <2>4, <2>5
<1>13. CASE Push
  <2>1. job.at # "none" /\ (GoesTo("request") \/ Fails)
        BY <1>13 DEF Push
  <2>2. remote' \in [Label -> Head \cup {None}]
    <3>1. job.story \in Story /\ LabelOf[job.story] \in Label
          BY <2>1, Jobs, Labels
    <3>2. local[LabelOf[job.story]] \in Head \cup {None}
          BY <1>7, <3>1
    <3>3. QED BY <1>7, <1>13, <3>1, <3>2, Replaced DEF Push
  <2>3. UNCHANGED <<project, tree, mrUrl, finished, folder, local, mergeRequest,
                    base, due, plan, removing, work, hurt>>
        BY <1>13 DEF Push
  <2>4. status' = status \/ Fails
        BY <1>13 DEF Push
  <2>5. job' \in [story : Story, at : Moment] \cup {NoJob}
        BY <1>8, <2>1 DEF Moment
  <2>6. QED BY <1>6, <1>7, <2>1, <2>2, <2>3, <2>4, <2>5
<1>14. CASE Request
  <2>1. job.at # "none" /\ (GoesTo("url") \/ Fails)
        BY <1>14 DEF Request
  <2>2. mergeRequest' \subseteq Label
    <3>1. job.story \in Story /\ LabelOf[job.story] \in Label
          BY <2>1, Jobs, Labels
    <3>2. mergeRequest' \subseteq mergeRequest \cup {LabelOf[job.story]}
          BY <1>14 DEF Request
    <3>3. QED BY <3>1, <3>2 DEF TypeOK
  <2>3. UNCHANGED <<project, tree, mrUrl, finished, folder, local, remote, base,
                    due, plan, removing, work, hurt>>
        BY <1>14 DEF Request
  <2>4. status' \in [Story -> {"new", "gone", "ready", "in_progress", "done",
                               "failed", "cancelled"}]
    <3>1. status' = status \/ Fails
          BY <1>14 DEF Request
    <3>2. QED BY <2>1, <3>1, FailureEffect DEF TypeOK
  <2>5. job' \in [story : Story, at : Moment] \cup {NoJob}
        BY <1>8, <2>1 DEF Moment
  <2>6. QED BY <2>2, <2>3, <2>4, <2>5 DEF TypeOK, NoJob, Moment
<1>15. CASE StoreUrl
  <2>1. job.at = "url"
        BY <1>15 DEF StoreUrl
  <2>2. mrUrl' \subseteq {s \in Story : ProjectOf[s] \in project}
    <3>1. job.story \in Story
          BY <2>1, Jobs
    <3>2. HasRow(job.story) => ProjectOf[job.story] \in project
          BY <2>1, <3>1 DEF HasRow, TickInv, RowsInv, Delivering
    <3>3. QED BY <1>7, <1>15, <3>1, <3>2 DEF StoreUrl
  <2>3. UNCHANGED <<project, status, tree, finished, folder, local, remote, mergeRequest,
                    base, due, plan, removing, work, hurt>>
        BY <1>15 DEF StoreUrl
  <2>4. job' = NoJob
        BY <1>15 DEF StoreUrl
  <2>5. QED BY <1>6, <1>7, <2>1, <2>2, <2>3, <2>4
<1>16. ASSUME NEW s \in Story, Stop(s) \/ Continue(s)
       PROVE  TypeOK'
  <2>1. status' \in [Story -> {"new", "gone", "ready", "in_progress", "done",
                               "failed", "cancelled"}]
        BY <1>16 DEF Stop, Continue, TypeOK
  <2>2. hurt' \subseteq Story
        BY <1>16 DEF Stop, Continue, TypeOK
  <2>3. UNCHANGED <<project, tree, mrUrl, finished, folder, local, remote, mergeRequest,
                    base, job, due, plan, removing, work>>
        BY <1>16 DEF Stop, Continue
  <2>4. QED BY <2>1, <2>2, <2>3 DEF TypeOK, NoJob
<1>17. ASSUME NEW s \in Story, Retry(s)
       PROVE  TypeOK'
  <2>1. status' \in [Story -> {"new", "gone", "ready", "in_progress", "done",
                               "failed", "cancelled"}]
        BY <1>17 DEF Retry, TypeOK
  <2>2. folder' \in [Label -> Head \cup {None}] /\ work' \in [Story -> SUBSET Commit]
        BY <1>17, RetryEffect
  <2>3. UNCHANGED <<project, tree, mrUrl, finished, local, remote, mergeRequest,
                    base, job, due, plan, removing, hurt>>
        BY <1>17 DEF Retry
  <2>4. QED BY <2>1, <2>2, <2>3 DEF TypeOK, NoJob
<1>18. ASSUME NEW p \in Project, Clean(p)
       PROVE  TypeOK'
       BY <1>18 DEF Clean, Cleanable, TypeOK, NoJob
<1>19. ASSUME NEW p \in Project, Delete(p)
       PROVE  TypeOK'
  <2>1. status' \in [Story -> {"new", "gone", "ready", "in_progress", "done",
                               "failed", "cancelled"}]
        BY <1>19 DEF Delete, TypeOK
  <2>2. project' \subseteq Project /\ removing' \subseteq Story \X {"clean", "delete"}
        BY <1>19 DEF Delete, Listed, TypeOK
  <2>3. /\ tree' \subseteq {s \in Story : ProjectOf[s] \in project'}
        /\ mrUrl' \subseteq {s \in Story : ProjectOf[s] \in project'}
        /\ finished' \subseteq {s \in Story : ProjectOf[s] \in project'}
        BY <1>19 DEF Delete, TypeOK
  <2>4. hurt' \subseteq Story
        BY <1>19, Jobs DEF Delete, TakenUp, TypeOK
  <2>5. UNCHANGED <<folder, local, remote, mergeRequest, base, job, due, plan, work>>
        BY <1>19 DEF Delete
  <2>6. QED BY <2>1, <2>2, <2>3, <2>4, <2>5 DEF TypeOK, NoJob
<1>20. CASE RemoveWorktree
  <2>1. PICK r \in removing :
           /\ removing' = removing \ {r}
           /\ folder' = With(folder, r[1], None)
           /\ tree' \subseteq tree
        BY <1>20 DEF RemoveWorktree, Forgotten
  <2>2. r[1] \in Story
        BY <2>1 DEF TypeOK
  <2>3. folder' \in [Label -> Head \cup {None}]
        BY <1>7, <2>1, <2>2, Replaced
  <2>4. UNCHANGED <<project, status, mrUrl, finished, local, remote, mergeRequest,
                    base, job, due, plan, work, hurt>>
        BY <1>20 DEF RemoveWorktree
  <2>5. QED BY <2>1, <2>3, <2>4 DEF TypeOK, NoJob
<1>21. ASSUME NEW p \in Project, InitProject(p)
       PROVE  TypeOK'
  <2>1. status' \in [Story -> {"new", "gone", "ready", "in_progress", "done",
                               "failed", "cancelled"}]
        BY <1>21 DEF InitProject, TypeOK
  <2>2. project' = project \cup {p}
        BY <1>21 DEF InitProject
  <2>3. UNCHANGED <<tree, mrUrl, finished, folder, local, remote, mergeRequest,
                    base, job, due, plan, removing, work, hurt>>
        BY <1>21 DEF InitProject
  <2>4. QED BY <2>1, <2>2, <2>3 DEF TypeOK, NoJob
<1>22. CASE BaseMoves
  <2>1. base' \in 0..MaxBase
        BY <1>22, DeliveryAssumption DEF BaseMoves, TypeOK
  <2>2. UNCHANGED <<project, status, tree, mrUrl, finished, folder, local, remote,
                    mergeRequest, job, due, plan, removing, work, hurt>>
        BY <1>22 DEF BaseMoves
  <2>3. QED BY <2>1, <2>2 DEF TypeOK, NoJob
<1>23. CASE Crash
  <2>1. hurt' \subseteq Story
        BY <1>23, Jobs DEF Crash, TakenUp, TypeOK
  <2>2. job' = NoJob /\ due' = {} /\ plan' = {} /\ removing' = {}
        BY <1>23 DEF Crash
  <2>3. UNCHANGED <<project, status, tree, mrUrl, finished, folder, local, remote,
                    mergeRequest, base, work>>
        BY <1>23 DEF Crash
  <2>4. QED BY <2>1, <2>2, <2>3 DEF TypeOK, NoJob
<1>24. QED BY <1>2, <1>3, <1>4, <1>5, <1>9, <1>10, <1>11, <1>12, <1>13, <1>14, <1>15,
              <1>16, <1>17, <1>18, <1>19, <1>20, <1>21, <1>22, <1>23
           DEF Next, Scheduler, Command
-----------------------------------------------------------------------------
(***************************************************************************)
(* RowsInv and TickInv: what the tick has read of a story.                 *)
(***************************************************************************)

\* A row appears and goes with its project, and keeps it otherwise.
LEMMA NextRows ==
    ASSUME TypeOK, TypeOK', RowsInv, TickInv, [Next]_vars
    PROVE  RowsInv'
<1> USE DEF rows, git, tick, history
<1>1. CASE /\ project' = project
           /\ \A s \in Story : status[s] \in {"new", "gone"} => status'[s] = status[s]
      BY <1>1 DEF RowsInv
<1>2. CASE /\ project' = project
           /\ Fails /\ job.at # "none"
  <2>1. \A s \in Story : status[s] \in {"new", "gone"} => status'[s] = status[s]
    <3>1. status[job.story] # "new"
          BY <1>2, Jobs DEF TickInv, Delivering, Moment
    <3>2. QED BY <1>2, <3>1, FailureEffect
  <2>2. QED BY <1>1, <1>2, <2>1
<1>3. CASE UNCHANGED <<project, status>>
      BY <1>3 DEF RowsInv
<1>4. CASE Tick
  <2>1. PICK F \in SUBSET Story, T \in SUBSET Story :
           /\ \A s \in F \cup T : status[s] = "in_progress"
           /\ status' = [s \in Story |-> IF s \in F THEN "done"
                                         ELSE IF s \in T THEN "failed"
                                         ELSE status[s]]
        BY <1>4 DEF Tick
  <2>2. QED BY <1>1, <1>4, <2>1 DEF Tick
<1>5. CASE CreateWorktree \/ Rebase \/ CreateBranch \/ Push \/ Request
      BY <1>2, <1>3, <1>5 DEF CreateWorktree, Rebase, CreateBranch, Push, Request
<1>6. CASE StoreWorktree
  <2>1. job.at = "store" /\ status' = Updated(job.story, "in_progress") /\ project' = project
        BY <1>6 DEF StoreWorktree
  <2>2. job.story \in Story /\ status[job.story] \in {"ready", "gone"}
        BY <2>1, Jobs DEF TickInv
  <2>3. \A s \in Story : status[s] \in {"new", "gone"} => status'[s] = status[s]
        BY <2>1, <2>2 DEF Updated, HasRow, TypeOK
  <2>4. QED BY <1>1, <2>1, <2>3
<1>7. ASSUME NEW s \in Story, Stop(s) \/ Retry(s) \/ Continue(s)
      PROVE  RowsInv'
  <2>1. /\ project' = project /\ status[s] \notin {"new", "gone"}
        /\ \A u \in Story : u # s => status'[u] = status[u]
        BY <1>7 DEF Stop, Retry, Continue, TypeOK
  <2>2. QED BY <1>1, <2>1
<1>8. ASSUME NEW p \in Project, Delete(p)
      PROVE  RowsInv'
      BY <1>8 DEF Delete, RowsInv
<1>9. ASSUME NEW p \in Project, InitProject(p)
      PROVE  RowsInv'
      BY <1>9 DEF InitProject, RowsInv
<1>10. QED BY <1>3, <1>4, <1>5, <1>6, <1>7, <1>8, <1>9
           DEF Next, Scheduler, Command, vars, AgentCommits, TakeDue, TakePlanned,
               StoreUrl, Clean, RemoveWorktree, BaseMoves, Crash

\* The invariant only looks at the rows and at the tick.
LEMMA TickUnchanged ==
    ASSUME TickInv, UNCHANGED <<status, mrUrl, finished, job, due, plan>>
    PROVE  TickInv'
BY DEF TickInv, Delivering, HasRow

\* The job goes on.
LEMMA JobGoesOn ==
    ASSUME TypeOK, TickInv, UNCHANGED <<status, mrUrl, finished, due, plan>>,
           NEW at \in Moment, GoesTo(at),
           \/ job.at = "create" /\ at = "store"
           \/ Delivering /\ at \in {"branch", "push", "request", "url"}
    PROVE  TickInv'
<1>1. job'.at = at /\ job'.story = job.story
      BY Jobs
<1>2. job.at # "none"
      BY DEF Delivering
<1>3. QED BY <1>1, <1>2 DEF TickInv, Delivering, HasRow

\* The job fails, or is done with: the story has left the tick.
LEMMA JobEnds ==
    ASSUME TypeOK, TickInv, finished' = finished, due' = due, plan' = plan,
           job.at # "none", job' = NoJob, mrUrl' \subseteq finished,
           \A s \in Story : s # job.story => status'[s] = status[s],
           job.story \in finished => status'[job.story] \in {"done", "failed"}
    PROVE  TickInv'
<1>1. job.story \in Story /\ job.story \notin due \cup plan /\ job'.at = "none"
      BY Jobs DEF TickInv
<1>2. \A s \in due \cup plan : status'[s] = status[s]
      BY <1>1 DEF TypeOK
<1>3. \A s \in finished : status'[s] \in {"done", "failed"}
      BY DEF TypeOK, TickInv
<1>4. ~Delivering'
      BY <1>1 DEF Delivering
<1>5. QED BY <1>1, <1>2, <1>3, <1>4 DEF TickInv, HasRow

\* A story that has been started is not finished, and one with a row that is
\* delivered is.
LEMMA JobStory ==
    ASSUME TypeOK, TickInv, job.at # "none"
    PROVE  /\ job.story \in Story
           /\ ~Delivering => job.story \notin finished
           /\ Delivering /\ HasRow(job.story) => job.story \in finished
BY Jobs DEF TickInv, Delivering, Moment

\* Every step keeps it.
LEMMA NextTick ==
    ASSUME TypeOK, TypeOK', RowsInv, TickInv, [Next]_vars
    PROVE  TickInv'
<1> USE DEF rows, git, tick, history
<1>1. CASE Tick
  <2>1. PICK F \in SUBSET Story, T \in SUBSET Story, S \in SUBSET Story :
           /\ F \cap T = {}
           /\ \A s \in F \cup T : status[s] = "in_progress"
           /\ \A s \in S : status[s] = "ready"
           /\ status' = [s \in Story |-> IF s \in F THEN "done"
                                         ELSE IF s \in T THEN "failed"
                                         ELSE status[s]]
           /\ finished' = finished \cup F
           /\ due' = F
           /\ plan' = S
        BY <1>1 DEF Tick
  <2>2. job.at = "none" /\ UNCHANGED <<job, mrUrl>>
        BY <1>1, Jobs DEF Tick
  <2>3. /\ finished \subseteq Story
        /\ \A s \in finished : status[s] \in {"done", "failed"}
        BY DEF TypeOK, TickInv
  <2>4. \A s \in finished' : status'[s] \in {"done", "failed"}
        BY <2>1, <2>3
  <2>5. mrUrl' \subseteq finished'
        BY <2>1, <2>2 DEF TickInv
  <2>6. \A s \in plan' : status'[s] \in {"ready", "gone"}
        BY <2>1
  <2>7. /\ \A s \in due' : status'[s] = "done" /\ s \in finished'
        /\ due' \cap plan' = {}
        BY <2>1
  <2>8. job'.at = "none"
        BY <2>2
  <2>9. QED BY <2>4, <2>5, <2>6, <2>7, <2>8 DEF TickInv, Delivering
<1>2. CASE TakeDue
  <2>1. PICK s \in due :
           /\ due' = due \ {s}
           /\ job' = IF HasRow(s) THEN [story |-> s, at |-> "rebase"] ELSE NoJob
        BY <1>2 DEF TakeDue
  <2>2. UNCHANGED <<status, mrUrl, finished, plan>>
        BY <1>2 DEF TakeDue
  <2>3. \/ job'.at = "none"
        \/ job'.at = "rebase" /\ job'.story = s /\ HasRow(s)
        BY <2>1, Jobs
  <2>4. s \notin due' \cup plan'
        BY <2>1, <2>2 DEF TickInv
  <2>5. QED BY <2>1, <2>2, <2>3, <2>4 DEF TickInv, Delivering, HasRow
<1>3. CASE TakePlanned
  <2>1. PICK s \in plan :
           /\ plan' = plan \ {s}
           /\ job' = IF HasRow(s) THEN [story |-> s, at |-> "create"] ELSE NoJob
        BY <1>3 DEF TakePlanned
  <2>2. UNCHANGED <<status, mrUrl, finished, due>> /\ due = {}
        BY <1>3 DEF TakePlanned
  <2>3. \/ job'.at = "none"
        \/ job'.at = "create" /\ job'.story = s
        BY <2>1, Jobs
  <2>4. QED BY <2>1, <2>2, <2>3 DEF TickInv, Delivering, HasRow
<1>4. ASSUME Fails, job.at # "none", UNCHANGED <<finished, due, plan, mrUrl>>
      PROVE  TickInv'
  <2>1. /\ job' = NoJob
        /\ \A s \in Story : s # job.story => status'[s] = status[s]
        /\ status'[job.story] = "failed" \/ status[job.story] = "gone"
        BY <1>4, FailureEffect, Jobs
  <2>2. job.story \in finished => status[job.story] # "gone"
        BY DEF TickInv
  <2>3. mrUrl' \subseteq finished
        BY <1>4 DEF TickInv
  <2>4. /\ finished' = finished /\ due' = due /\ plan' = plan
        /\ job.story \in finished => status'[job.story] \in {"done", "failed"}
        BY <1>4, <2>1, <2>2
  <2>5. QED BY <1>4, <2>1, <2>3, <2>4, JobEnds
<1>5. CASE CreateWorktree
  <2>1. job.at = "create" /\ UNCHANGED <<finished, due, plan, mrUrl>>
        BY <1>5 DEF CreateWorktree
  <2>2. Fails \/ (GoesTo("store") /\ UNCHANGED status)
        BY <1>5 DEF CreateWorktree
  <2>3. QED BY <1>4, <2>1, <2>2, JobGoesOn DEF Moment
<1>6. CASE Rebase \/ CreateBranch \/ Push \/ Request
  <2>1. Delivering /\ UNCHANGED <<finished, due, plan, mrUrl>>
        BY <1>6 DEF Rebase, CreateBranch, Push, Request, Delivering
  <2>2. \/ Fails
        \/ \E at \in {"branch", "push", "request", "url"} : GoesTo(at) /\ UNCHANGED status
        BY <1>6 DEF Rebase, CreateBranch, Push, Request
  <2>3. job.at # "none"
        BY <2>1 DEF Delivering
  <2>4. QED BY <1>4, <2>1, <2>2, <2>3, JobGoesOn DEF Moment
<1>7. CASE StoreWorktree
  <2>1. /\ job.at = "store" /\ job' = NoJob /\ UNCHANGED <<finished, due, plan, mrUrl>>
        /\ status' = Updated(job.story, "in_progress")
        BY <1>7 DEF StoreWorktree
  <2>2. /\ \A s \in Story : s # job.story => status'[s] = status[s]
        /\ status[job.story] = "gone" => status'[job.story] = "gone"
        BY <2>1, Jobs DEF Updated, HasRow, TypeOK
  <2>3. job.at # "none" /\ job.story \notin finished
        BY <2>1, JobStory DEF Delivering
  <2>4. mrUrl' \subseteq finished /\ finished' = finished /\ due' = due /\ plan' = plan
        BY <2>1 DEF TickInv
  <2>5. job' = NoJob
        BY <2>1
  <2>6. QED BY <2>2, <2>3, <2>4, <2>5, JobEnds
<1>8. CASE StoreUrl
  <2>1. /\ job.at = "url" /\ job' = NoJob /\ UNCHANGED <<status, finished, due, plan>>
        /\ mrUrl' = IF HasRow(job.story) THEN mrUrl \cup {job.story} ELSE mrUrl
        BY <1>8 DEF StoreUrl
  <2>2. job.at # "none" /\ (HasRow(job.story) => job.story \in finished)
        BY <2>1, JobStory DEF Delivering
  <2>3. mrUrl' \subseteq finished
        BY <2>1, <2>2 DEF TickInv
  <2>4. /\ \A s \in Story : s # job.story => status'[s] = status[s]
        /\ job.story \in finished => status'[job.story] \in {"done", "failed"}
        BY <2>1 DEF TickInv
  <2>5. finished' = finished /\ due' = due /\ plan' = plan /\ job' = NoJob
        BY <2>1
  <2>6. QED BY <2>2, <2>3, <2>4, <2>5, JobEnds
<1>9. ASSUME NEW s \in Story, Stop(s) \/ Retry(s) \/ Continue(s)
      PROVE  TickInv'
  <2>1. /\ UNCHANGED <<finished, mrUrl, job, due, plan>>
        /\ status[s] \in {"in_progress", "failed", "cancelled"}
        /\ status'[s] # "gone"
        /\ \A u \in Story : u # s => status'[u] = status[u]
        /\ s \in finished => status'[s] = "done"
    <3>1. status[s] \in {"in_progress", "cancelled"} => s \notin finished
          BY DEF TickInv
    <3>2. CASE Stop(s)
          BY <3>1, <3>2 DEF Stop, TypeOK
    <3>3. CASE Retry(s)
          BY <3>3 DEF Retry, TypeOK
    <3>4. CASE Continue(s)
          BY <3>1, <3>4 DEF Continue, TypeOK
    <3>5. QED BY <1>9, <3>2, <3>3, <3>4
  <2>2. s \notin due \cup plan /\ (job.at # "none" => job.story # s)
    <3>1. s \notin due \cup plan
          BY <2>1 DEF TickInv
    <3>2. job.at # "none" => job.story # s
          BY <2>1, Jobs DEF TickInv, Delivering, Moment
    <3>3. QED BY <3>1, <3>2
  <2>3. \A u \in due \cup plan : u \in Story /\ status'[u] = status[u]
        BY <2>1, <2>2 DEF TypeOK
  <2>4. job.at # "none" => job.story \in Story /\ status'[job.story] = status[job.story]
        BY <2>1, <2>2, Jobs
  <2>5. \A u \in finished : status'[u] \in {"done", "failed"}
        BY <2>1 DEF TickInv, TypeOK
  <2>6. Delivering' <=> Delivering
        BY <2>1 DEF Delivering
  <2>7. Delivering => job.at # "none"
        BY DEF Delivering
  <2>8. QED BY <2>1, <2>3, <2>4, <2>5, <2>6, <2>7 DEF TickInv, HasRow
<1>10. ASSUME NEW p \in Project, Delete(p)
       PROVE  TickInv'
  <2>1. /\ UNCHANGED <<job, due, plan>>
        /\ status' = [s \in Story |-> IF ProjectOf[s] = p THEN "gone" ELSE status[s]]
        /\ mrUrl' = {s \in mrUrl : ProjectOf[s] # p}
        /\ finished' = {s \in finished : ProjectOf[s] # p}
        BY <1>10 DEF Delete
  <2>2. \A s \in Story : \/ status'[s] = "gone"
                         \/ /\ status'[s] = status[s]
                            /\ s \in finished => s \in finished'
        BY <2>1
  <2>3. \A s \in finished' : status'[s] \in {"done", "failed"}
        BY <2>1 DEF TickInv, TypeOK
  <2>4. mrUrl' \subseteq finished'
        BY <2>1 DEF TickInv
  <2>5. due \subseteq Story /\ plan \subseteq Story
        BY DEF TypeOK
  <2>6. Delivering' <=> Delivering
        BY <2>1 DEF Delivering
  <2>7. Delivering => job.at # "none"
        BY DEF Delivering
  <2>8. \A s \in plan' : status'[s] \in {"ready", "gone"}
        BY <2>1, <2>2, <2>5 DEF TickInv
  <2>9. \A s \in due' : /\ status'[s] \in {"done", "gone"}
                        /\ status'[s] # "gone" => s \in finished'
        BY <2>1, <2>2, <2>5 DEF TickInv, HasRow
  <2>10. job'.at \in {"create", "store"} => status'[job'.story] \in {"ready", "gone"} /\ due' = {}
        BY <2>1, <2>2, Jobs DEF TickInv
  <2>11. Delivering' => /\ status'[job'.story] \in {"done", "gone"}
                        /\ status'[job'.story] # "gone" => job'.story \in finished'
        BY <2>1, <2>2, <2>6, <2>7, Jobs DEF TickInv, HasRow
  <2>12. QED BY <2>1, <2>3, <2>4, <2>8, <2>9, <2>10, <2>11 DEF TickInv, HasRow
<1>11. ASSUME NEW p \in Project, InitProject(p)
       PROVE  TickInv'
  <2>1. /\ UNCHANGED <<mrUrl, finished, job, due, plan>>
        /\ \A s \in Story : status[s] # "new" => status'[s] = status[s]
        BY <1>11 DEF InitProject, TypeOK
  <2>2. finished \subseteq Story /\ due \subseteq Story /\ plan \subseteq Story
        BY DEF TypeOK
  <2>3. \A s \in finished \cup due \cup plan : status'[s] = status[s]
        BY <2>1, <2>2 DEF TickInv
  <2>4. job.at # "none" => status'[job.story] = status[job.story]
        BY <2>1, Jobs DEF TickInv, Delivering, Moment
  <2>5. (Delivering' <=> Delivering) /\ (Delivering => job.at # "none")
        BY <2>1 DEF Delivering
  <2>6. QED BY <2>1, <2>3, <2>4, <2>5 DEF TickInv, HasRow
<1>12. CASE Crash
  <2>1. /\ UNCHANGED <<status, mrUrl, finished>>
        /\ job'.at = "none" /\ due' = {} /\ plan' = {}
        BY <1>12, Jobs DEF Crash
  <2>2. QED BY <2>1 DEF TickInv, Delivering
<1>13. CASE UNCHANGED <<status, mrUrl, finished, job, due, plan>>
       BY <1>13, TickUnchanged
<1>14. QED BY <1>1, <1>2, <1>3, <1>5, <1>6, <1>7, <1>8, <1>9, <1>10, <1>11, <1>12, <1>13
           DEF Next, Scheduler, Command, vars, AgentCommits, Clean, RemoveWorktree,
               BaseMoves
-----------------------------------------------------------------------------
(***************************************************************************)
(* WorktreesInv: whose worktree a directory is.                            *)
(***************************************************************************)

\* Something happens in the worktree of one story.
LEMMA TreeStep ==
    ASSUME TypeOK, WorktreesInv, NEW s \in Story, s \in tree,
           UNCHANGED <<tree, removing>>, job' = job \/ job'.at # "store",
           folder'[LabelOf[s]] \in Head,
           OwnersOf(folder'[LabelOf[s]]) \subseteq {s},
           work'[s] \subseteq folder'[LabelOf[s]].commits,
           \A l \in Label : l # LabelOf[s] => folder'[l] = folder[l],
           \A u \in Story : u # s => work'[u] = work[u]
    PROVE  WorktreesInv'
<1>1. /\ tree \subseteq Story
      /\ \A u \in tree : u # s => LabelOf[u] # LabelOf[s]
      /\ \A r \in removing : r[1] \in Story
      BY DEF TypeOK, WorktreesInv, KnownTrees
<1>2. folder'[LabelOf[s]] # None
      BY Heads
<1>3. \A u \in Story : Exists(folder, u) => Exists(folder, u)'
      BY <1>2, Labels DEF Exists
<1>4. KnownTrees'
  <2>1. \A u \in tree : u # s => folder'[LabelOf[u]] = folder[LabelOf[u]] /\ work'[u] = work[u]
        BY <1>1, Labels
  <2>2. Exists(folder, s)'
        BY <1>2 DEF Exists
  <2>3. QED BY <1>1, <1>3, <2>1, <2>2 DEF WorktreesInv, KnownTrees, OwnersOf
<1>5. Removals'
      BY <1>1, <1>3 DEF WorktreesInv, Removals
<1>6. Starting'
  <2>1. CASE job'.at # "store"
        BY <2>1 DEF Starting
  <2>2. CASE job' = job /\ job.at = "store"
    <3>1. LabelOf[s] # LabelOf[job.story] /\ job.story \in Story
          BY <2>2, Jobs DEF WorktreesInv, Starting
    <3>2. /\ folder'[LabelOf[job.story]] = folder[LabelOf[job.story]]
          /\ work'[job.story] = work[job.story]
          BY <3>1, Labels
    <3>3. QED BY <2>2, <3>2 DEF WorktreesInv, Starting, Exists
  <2>3. QED BY <2>1, <2>2
<1>7. QED BY <1>4, <1>5, <1>6 DEF WorktreesInv

\* Nothing happens to a worktree.
LEMMA TreesUnchanged ==
    ASSUME WorktreesInv, UNCHANGED <<tree, folder, work>>, job' = job \/ job'.at # "store",
           removing' \subseteq removing
    PROVE  WorktreesInv'
<1>1. KnownTrees'
      BY DEF WorktreesInv, KnownTrees, Exists, OwnersOf
<1>2. Removals'
      BY DEF WorktreesInv, Removals, Exists
<1>3. Starting'
      BY DEF WorktreesInv, Starting, Exists
<1>4. QED BY <1>1, <1>2, <1>3 DEF WorktreesInv

\* Every step keeps it.
LEMMA NextWorktrees ==
    ASSUME TypeOK, TickInv, WorktreesInv, [Next]_vars
    PROVE  WorktreesInv'
<1> USE DEF rows, git, tick, history
<1>1. /\ tree \subseteq Story /\ folder \in [Label -> Head \cup {None}]
      /\ \A r \in removing : r[1] \in Story /\ r[2] \in {"clean", "delete"}
      /\ work \in [Story -> SUBSET Commit]
      BY DEF TypeOK
<1>2. ASSUME NEW s \in Story, AgentCommits(s)
      PROVE  WorktreesInv'
  <2>1. s \in tree /\ UNCHANGED <<tree, removing, job>>
        BY <1>2 DEF AgentCommits
  <2>2. PICK n \in 1..MaxCommits :
              /\ folder'[LabelOf[s]] \in Head
              /\ folder'[LabelOf[s]].commits = folder[LabelOf[s]].commits \cup {<<s, n>>}
              /\ \A l \in Label : l # LabelOf[s] => folder'[l] = folder[l]
              /\ work'[s] = work[s] \cup {<<s, n>>}
              /\ \A u \in Story : u # s => work'[u] = work[u]
        BY <1>2, CommitEffect
  <2>3. /\ OwnersOf(folder[LabelOf[s]]) \subseteq {s}
        /\ work[s] \subseteq folder[LabelOf[s]].commits
        BY <2>1 DEF WorktreesInv, KnownTrees
  <2>4. OwnersOf(folder'[LabelOf[s]]) \subseteq {s}
        BY <2>2, <2>3 DEF OwnersOf
  <2>5. work'[s] \subseteq folder'[LabelOf[s]].commits
        BY <2>2, <2>3
  <2>6. QED BY <2>1, <2>2, <2>4, <2>5, TreeStep
<1>3. ASSUME NEW s \in Story, Retry(s)
      PROVE  WorktreesInv'
  <2>1. s \in tree /\ UNCHANGED <<tree, removing, job>>
        BY <1>3 DEF Retry
  <2>2. PICK lost \in SUBSET work[s] :
              /\ folder'[LabelOf[s]] \in Head
              /\ folder'[LabelOf[s]].commits = folder[LabelOf[s]].commits \ lost
              /\ \A l \in Label : l # LabelOf[s] => folder'[l] = folder[l]
              /\ work'[s] = work[s] \ lost
              /\ \A u \in Story : u # s => work'[u] = work[u]
        BY <1>3, RetryEffect
  <2>3. /\ OwnersOf(folder[LabelOf[s]]) \subseteq {s}
        /\ work[s] \subseteq folder[LabelOf[s]].commits
        BY <2>1 DEF WorktreesInv, KnownTrees
  <2>4. OwnersOf(folder'[LabelOf[s]]) \subseteq {s}
        BY <2>2, <2>3 DEF OwnersOf
  <2>5. work'[s] \subseteq folder'[LabelOf[s]].commits
        BY <2>2, <2>3
  <2>6. QED BY <2>1, <2>2, <2>4, <2>5, TreeStep
<1>4. ASSUME UNCHANGED <<tree, folder, work, removing>>,
             Fails \/ GoesTo("branch") \/ GoesTo("push") \/ GoesTo("request") \/ GoesTo("url")
      PROVE  WorktreesInv'
  <2>1. job'.at # "store"
        BY <1>4, Jobs DEF Fails, Moment
  <2>2. QED BY <1>4, <2>1, TreesUnchanged
<1>5. CASE Rebase
  <2>1. CASE folder' = folder
        BY <1>4, <1>5, <2>1 DEF Rebase
  <2>2. CASE /\ job.story \in tree /\ Exists(folder, job.story) /\ GoesTo("branch")
             /\ folder' = [folder EXCEPT ![LabelOf[job.story]].base = base]
    <3>1. job.story \in Story
          BY <1>1, <2>2
    <3>2. /\ folder'[LabelOf[job.story]] \in Head
          /\ \A l \in Label : /\ folder'[l].commits = folder[l].commits
                              /\ l # LabelOf[job.story] => folder'[l] = folder[l]
          BY <2>2, <3>1, RebaseEffect
    <3>3. /\ OwnersOf(folder[LabelOf[job.story]]) \subseteq {job.story}
          /\ work[job.story] \subseteq folder[LabelOf[job.story]].commits
          BY <2>2 DEF WorktreesInv, KnownTrees
    <3>4. UNCHANGED <<tree, removing, work>>
          BY <1>5 DEF Rebase
    <3>5. /\ OwnersOf(folder'[LabelOf[job.story]]) \subseteq {job.story}
          /\ work'[job.story] \subseteq folder'[LabelOf[job.story]].commits
          BY <3>1, <3>2, <3>3, <3>4, Labels DEF OwnersOf
    <3>6. job'.at # "store"
          BY <2>2, Jobs DEF Moment
    <3>7. \A u \in Story : u # job.story => work'[u] = work[u]
          BY <3>4
    <3>8. QED BY <2>2, <3>1, <3>2, <3>4, <3>5, <3>6, <3>7, TreeStep
  <2>3. QED BY <1>5, <2>1, <2>2 DEF Rebase
<1>6. CASE CreateWorktree
  <2> DEFINE s == job.story
  <2>1. CASE Fails /\ UNCHANGED <<folder, work>>
        BY <1>4, <1>6, <2>1 DEF CreateWorktree
  <2>2. CASE /\ ~Exists(folder, s) /\ GoesTo("store")
             /\ folder' = With(folder, s, [commits |-> {}, base |-> base])
             /\ work' = [work EXCEPT ![s] = {}]
    <3>1. s \in Story /\ LabelOf[s] \in Label /\ job'.at = "store" /\ job'.story = s
          BY <1>6, <2>2, Jobs, Labels DEF CreateWorktree, Moment
    <3>2. UNCHANGED <<tree, removing>>
          BY <1>6 DEF CreateWorktree
    <3>3. [commits |-> {}, base |-> base] \in Head
          BY Heads DEF TypeOK
    <3>4. /\ folder'[LabelOf[s]] = [commits |-> {}, base |-> base]
          /\ \A l \in Label : l # LabelOf[s] => folder'[l] = folder[l]
          BY <1>1, <2>2, <3>1, <3>3 DEF With
    <3>5. /\ folder'[LabelOf[s]] # None /\ folder'[LabelOf[s]].commits = {}
          BY <3>3, <3>4, Heads
    <3>6. work'[s] = {} /\ \A u \in Story : u # s => work'[u] = work[u]
          BY <1>1, <2>2, <3>1
    <3>7. \A u \in tree : LabelOf[u] # LabelOf[s]
          BY <2>2 DEF WorktreesInv, KnownTrees, Exists
    <3>8. \A r \in removing : LabelOf[r[1]] # LabelOf[s]
          BY <1>1, <2>2, <3>7 DEF WorktreesInv, Removals, Exists
    <3>9. \A u \in tree : folder'[LabelOf[u]] = folder[LabelOf[u]] /\ work'[u] = work[u]
          BY <1>1, <3>4, <3>6, <3>7, Labels
    <3>10. KnownTrees'
           BY <3>2, <3>9 DEF WorktreesInv, KnownTrees, Exists, OwnersOf
    <3>11. \A r \in removing : folder'[LabelOf[r[1]]] = folder[LabelOf[r[1]]]
           BY <1>1, <3>4, <3>8, Labels
    <3>12. Removals'
           BY <3>2, <3>11 DEF WorktreesInv, Removals, Exists
    <3>13. Starting'
           BY <3>1, <3>2, <3>5, <3>6, <3>7, <3>8 DEF Starting, Exists
    <3>14. QED BY <3>10, <3>12, <3>13 DEF WorktreesInv
  <2>3. QED BY <1>6, <2>1, <2>2 DEF CreateWorktree, MayCreate
<1>7. CASE StoreWorktree
  <2> DEFINE s == job.story
  <2>1. /\ job.at = "store" /\ UNCHANGED <<folder, work, removing>>
        /\ tree' \subseteq tree \cup {s} /\ job'.at # "store"
        BY <1>7, Jobs DEF StoreWorktree
  <2>2. /\ Exists(folder, s) /\ folder[LabelOf[s]].commits = {} /\ work[s] = {}
        /\ \A u \in tree : LabelOf[u] # LabelOf[s]
        /\ \A r \in removing : LabelOf[r[1]] # LabelOf[s]
        BY <2>1 DEF WorktreesInv, Starting
  <2>3. KnownTrees'
        BY <2>1, <2>2 DEF WorktreesInv, KnownTrees, Exists, OwnersOf
  <2>4. tree \subseteq tree'
        BY <1>7 DEF StoreWorktree
  <2>5. Removals'
        BY <2>1, <2>2, <2>4 DEF WorktreesInv, Removals, Exists
  <2>6. QED BY <2>1, <2>3, <2>5 DEF WorktreesInv, Starting
<1>8. ASSUME NEW p \in Project, Clean(p)
      PROVE  WorktreesInv'
  <2>1. PICK S \in SUBSET Story : S \subseteq tree /\ removing' = S \X {"clean"}
        BY <1>8 DEF Clean, Cleanable
  <2>2. UNCHANGED <<tree, folder, work, job>>
        BY <1>8 DEF Clean
  <2>3. KnownTrees'
        BY <2>2 DEF WorktreesInv, KnownTrees, Exists, OwnersOf
  <2>4. Removals'
    <3>1. \A r \in removing' : r[1] \in tree /\ r[2] = "clean" /\ r = <<r[1], r[2]>>
          BY <2>1
    <3>2. \A r, q \in removing' : LabelOf[q[1]] = LabelOf[r[1]] => q = r
          BY <3>1 DEF WorktreesInv, KnownTrees
    <3>3. QED BY <2>2, <3>1, <3>2 DEF Removals
  <2>5. Starting'
        BY <2>1, <2>2 DEF WorktreesInv, Starting, Exists
  <2>6. QED BY <2>3, <2>4, <2>5 DEF WorktreesInv
<1>9. ASSUME NEW p \in Project, Delete(p)
      PROVE  WorktreesInv'
  <2>1. /\ removing' = Listed(p) \X {"delete"}
        /\ tree' = {s \in tree : ProjectOf[s] # p}
        /\ UNCHANGED <<folder, work, job>>
        BY <1>9 DEF Delete
  <2>2. \A r \in removing' : r[1] \in tree /\ r[1] \notin tree' /\ r[2] = "delete"
                             /\ r = <<r[1], r[2]>>
        BY <2>1 DEF Listed
  <2>3. tree' \subseteq tree
        BY <2>1
  <2>4. KnownTrees'
        BY <2>1, <2>3 DEF WorktreesInv, KnownTrees, Exists, OwnersOf
  <2>5. Removals'
    <3>1. \A r \in removing' : Exists(folder, r[1]) /\ \A s \in tree' : LabelOf[s] # LabelOf[r[1]]
          BY <2>2, <2>3 DEF WorktreesInv, KnownTrees
    <3>2. \A r, q \in removing' : LabelOf[q[1]] = LabelOf[r[1]] => q = r
          BY <2>2 DEF WorktreesInv, KnownTrees
    <3>3. QED BY <2>1, <2>2, <3>1, <3>2 DEF Removals, Exists
  <2>6. Starting'
        BY <2>1, <2>2, <2>3 DEF WorktreesInv, Starting, Exists
  <2>7. QED BY <2>4, <2>5, <2>6 DEF WorktreesInv
<1>10. CASE RemoveWorktree
  <2>1. PICK r \in removing :
           /\ removing' = removing \ {r}
           /\ folder' = With(folder, r[1], None)
           /\ tree' = IF r[2] = "clean" THEN Forgotten(r[1]) ELSE tree
        BY <1>10 DEF RemoveWorktree
  <2>2. UNCHANGED <<work, job>>
        BY <1>10 DEF RemoveWorktree
  <2>3. r[1] \in Story /\ LabelOf[r[1]] \in Label
        BY <1>1, Labels
  <2>4. \A l \in Label : l # LabelOf[r[1]] => folder'[l] = folder[l]
        BY <1>1, <2>1, <2>3, Replaced
  <2>5. tree' \subseteq tree /\ \A u \in tree' : LabelOf[u] # LabelOf[r[1]]
    <3>1. CASE r[2] = "clean"
          BY <2>1, <3>1 DEF Forgotten, WorktreesInv, Removals, KnownTrees
    <3>2. CASE r[2] = "delete"
          BY <2>1, <3>2 DEF WorktreesInv, Removals
    <3>3. QED BY <1>1, <3>1, <3>2
  <2>6. \A u \in tree' : folder'[LabelOf[u]] = folder[LabelOf[u]]
        BY <1>1, <2>4, <2>5, Labels
  <2>7. KnownTrees'
        BY <2>2, <2>5, <2>6 DEF WorktreesInv, KnownTrees, Exists, OwnersOf
  <2>8. \A q \in removing' : q \in removing /\ LabelOf[q[1]] # LabelOf[r[1]]
                             /\ folder'[LabelOf[q[1]]] = folder[LabelOf[q[1]]]
        BY <1>1, <2>1, <2>4, Labels DEF WorktreesInv, Removals
  <2>9. \A q \in removing' : q[2] = "clean" => q[1] \in tree'
    <3>1. \A q \in removing' : q[2] = "clean" => q[1] \in tree /\ q[1] # r[1]
          BY <2>8 DEF WorktreesInv, Removals
    <3>2. QED BY <2>1, <3>1 DEF Forgotten
  <2>10. Removals'
         BY <2>5, <2>8, <2>9 DEF WorktreesInv, Removals, Exists
  <2>11. Starting'
    <3>1. SUFFICES ASSUME job.at = "store"
                   PROVE  Starting'
          BY <2>2 DEF Starting
    <3>2. job.story \in Story /\ LabelOf[job.story] # LabelOf[r[1]]
          BY <3>1, Jobs DEF WorktreesInv, Starting
    <3>3. folder'[LabelOf[job.story]] = folder[LabelOf[job.story]]
          BY <2>4, <3>2, Labels
    <3>4. QED BY <2>2, <2>5, <2>8, <3>1, <3>3 DEF WorktreesInv, Starting, Exists
  <2>12. QED BY <2>7, <2>10, <2>11 DEF WorktreesInv
<1>11. CASE UNCHANGED <<tree, folder, work, removing, job>>
       BY <1>11, TreesUnchanged
<1>12. CASE UNCHANGED <<tree, folder, work, removing>> /\ job'.at # "store"
       BY <1>12, TreesUnchanged
<1>13. CASE Crash
  <2>1. UNCHANGED <<tree, folder, work>> /\ removing' = {} /\ job'.at # "store"
        BY <1>13, Jobs DEF Crash
  <2>2. QED BY <2>1, TreesUnchanged
<1>14. CASE TakeDue \/ TakePlanned \/ StoreUrl
  <2>1. job'.at # "store"
        BY <1>14, Jobs DEF TakeDue, TakePlanned, StoreUrl
  <2>2. QED BY <1>12, <1>14, <2>1 DEF TakeDue, TakePlanned, StoreUrl
<1>15. CASE CreateBranch \/ Push \/ Request
       BY <1>4, <1>15 DEF CreateBranch, Push, Request
<1>16. QED BY <1>2, <1>3, <1>5, <1>6, <1>7, <1>8, <1>9, <1>10, <1>11, <1>13, <1>14, <1>15
           DEF Next, Scheduler, Command, vars, Tick, Stop, Continue, InitProject, BaseMoves
-----------------------------------------------------------------------------
(***************************************************************************)
(* BranchesInv: what a delivery passes from one place to the next.         *)
(***************************************************************************)

\* What a place that is replaced leaves of Owned.
LEMMA OwnedChange ==
    ASSUME Owned,
           \A l \in Label : \/ folder'[l].commits = folder[l].commits
                            \/ OneOwner(folder'[l]),
           \A l \in Label : \/ local'[l].commits = local[l].commits
                            \/ OneOwner(local'[l]),
           \A l \in Label : \/ remote'[l].commits = remote[l].commits
                            \/ OneOwner(remote'[l])
    PROVE  Owned'
BY DEF Owned, OneOwner

\* A step of an agent or of a command leaves the delivery of a story alone.
LEMMA DeliveryUnchanged ==
    ASSUME PassedOn, UNCHANGED <<local, remote, mergeRequest, job>>, tree' \subseteq tree,
           Delivering => work'[job.story] = work[job.story],
           job.at = "branch" /\ Exists(folder, job.story)' =>
               /\ Exists(folder, job.story)
               /\ folder[LabelOf[job.story]].commits \subseteq
                      folder'[LabelOf[job.story]].commits
    PROVE  PassedOn'
BY DEF PassedOn, Delivering

\* An agent and exec.retry are busy with another story than the delivery is.
LEMMA NotDelivered ==
    ASSUME TypeOK, TickInv, NEW s \in Story, status[s] \in {"in_progress", "failed"}
    PROVE  Delivering => job.story # s
BY DEF TickInv

\* Every step keeps each place to one story.
LEMMA NextOwned ==
    ASSUME TypeOK, WorktreesInv, Owned, [Next]_vars
    PROVE  Owned'
<1> USE DEF rows, git, tick, history
<1>1. /\ folder \in [Label -> Head \cup {None}] /\ local \in [Label -> Head \cup {None}]
      /\ remote \in [Label -> Head \cup {None}] /\ tree \subseteq Story
      BY DEF TypeOK
<1>2. CASE UNCHANGED <<folder, local, remote>>
      BY <1>2, OwnedChange
<1>3. ASSUME NEW s \in Story, AgentCommits(s)
      PROVE  Owned'
  <2>1. PICK n \in 1..MaxCommits :
              /\ folder'[LabelOf[s]].commits = folder[LabelOf[s]].commits \cup {<<s, n>>}
              /\ \A l \in Label : l # LabelOf[s] => folder'[l] = folder[l]
        BY <1>3, CommitEffect
  <2>2. OwnersOf(folder[LabelOf[s]]) \subseteq {s}
        BY <1>3 DEF AgentCommits, WorktreesInv, KnownTrees
  <2>3. OneOwner(folder'[LabelOf[s]])
        BY <2>1, <2>2 DEF OwnersOf, OneOwner
  <2>4. local' = local /\ remote' = remote
        BY <1>3 DEF AgentCommits
  <2>5. QED BY <2>1, <2>3, <2>4, OwnedChange
<1>4. ASSUME NEW s \in Story, Retry(s)
      PROVE  Owned'
  <2>1. PICK lost \in SUBSET work[s] :
              /\ folder'[LabelOf[s]].commits = folder[LabelOf[s]].commits \ lost
              /\ \A l \in Label : l # LabelOf[s] => folder'[l] = folder[l]
        BY <1>4, RetryEffect
  <2>2. OneOwner(folder'[LabelOf[s]])
        BY <2>1, Labels DEF Owned, OneOwner
  <2>3. local' = local /\ remote' = remote
        BY <1>4 DEF Retry
  <2>4. QED BY <2>1, <2>2, <2>3, OwnedChange
<1>5. CASE CreateWorktree
  <2>1. local' = local /\ remote' = remote
        BY <1>5 DEF CreateWorktree
  <2>2. CASE folder' = folder
        BY <1>2, <2>1, <2>2
  <2>3. CASE folder' = With(folder, job.story, [commits |-> {}, base |-> base])
    <3>1. \A l \in Label : folder'[l] = folder[l] \/ folder'[l] = [commits |-> {}, base |-> base]
          BY <1>1, <2>3 DEF With
    <3>2. \A l \in Label : folder'[l].commits = folder[l].commits \/ folder'[l].commits = {}
          BY <3>1
    <3>3. QED BY <2>1, <3>2, OwnedChange DEF OneOwner
  <2>4. QED BY <1>5, <2>2, <2>3 DEF CreateWorktree
<1>6. CASE Rebase
  <2>1. local' = local /\ remote' = remote
        BY <1>6 DEF Rebase
  <2>2. \/ folder' = folder
        \/ /\ job.at = "rebase" /\ Exists(folder, job.story)
           /\ folder' = [folder EXCEPT ![LabelOf[job.story]].base = base]
        BY <1>6 DEF Rebase
  <2>3. \A l \in Label : folder'[l].commits = folder[l].commits
        BY <2>2, Jobs, RebaseEffect
  <2>4. QED BY <2>1, <2>3, OwnedChange
<1>7. CASE CreateBranch
  <2>1. folder' = folder /\ remote' = remote
        BY <1>7 DEF CreateBranch
  <2>2. local' = local \/ local' = With(local, job.story, BranchedAt(job.story))
        BY <1>7 DEF CreateBranch
  <2>3. \A l \in Label : local'[l] = local[l] \/ local'[l] = folder[l]
        BY <1>1, <2>2 DEF With, BranchedAt
  <2>4. QED BY <2>1, <2>3, OwnedChange DEF Owned
<1>8. CASE Push
  <2>1. folder' = folder /\ local' = local
        BY <1>8 DEF Push
  <2>2. remote' = remote \/ remote' = With(remote, job.story, local[LabelOf[job.story]])
        BY <1>8 DEF Push
  <2>3. \A l \in Label : remote'[l] = remote[l] \/ remote'[l] = local[l]
        BY <1>1, <2>2 DEF With
  <2>4. QED BY <2>1, <2>3, OwnedChange DEF Owned
<1>9. CASE RemoveWorktree
  <2>1. PICK r \in removing : folder' = With(folder, r[1], None)
        BY <1>9 DEF RemoveWorktree
  <2>2. \A l \in Label : folder'[l] = folder[l] \/ folder'[l] = None
        BY <1>1, <2>1 DEF With
  <2>3. \A l \in Label : folder'[l] = folder[l] \/ folder'[l].commits = {}
        BY <2>2, Heads
  <2>4. local' = local /\ remote' = remote
        BY <1>9 DEF RemoveWorktree
  <2>5. QED BY <2>3, <2>4, OwnedChange DEF OneOwner
<1>10. QED BY <1>2, <1>3, <1>4, <1>5, <1>6, <1>7, <1>8, <1>9
           DEF Next, Scheduler, Command, vars, Tick, TakeDue, TakePlanned, StoreWorktree,
               Request, StoreUrl, Stop, Continue, Clean, Delete, InitProject, BaseMoves,
               Crash

\* Every step passes a delivery on as a whole.
LEMMA NextPassedOn ==
    ASSUME TypeOK, TickInv, WorktreesInv, PassedOn, [Next]_vars
    PROVE  PassedOn'
<1> USE DEF rows, git, tick, history
<1>1. /\ folder \in [Label -> Head \cup {None}] /\ local \in [Label -> Head \cup {None}]
      /\ remote \in [Label -> Head \cup {None}] /\ tree \subseteq Story
      BY DEF TypeOK
<1>2. CASE UNCHANGED <<local, remote, mergeRequest, job, folder, work>> /\ tree' \subseteq tree
  <2>1. Exists(folder, job.story)' <=> Exists(folder, job.story)
        BY <1>2 DEF Exists
  <2>2. QED BY <1>2, <2>1, DeliveryUnchanged
<1>3. CASE job'.at \in {"none", "create", "store", "rebase"}
      BY <1>3 DEF PassedOn
<1>4. ASSUME NEW s \in Story, AgentCommits(s) \/ Retry(s)
      PROVE  PassedOn'
  <2>1. /\ UNCHANGED <<local, remote, mergeRequest, job, tree>>
        /\ s \in tree /\ status[s] \in {"in_progress", "failed"}
        BY <1>4 DEF AgentCommits, Retry
  <2>2. Delivering => job.story # s
        BY <2>1, NotDelivered
  <2>3. /\ \A l \in Label : l # LabelOf[s] => folder'[l] = folder[l]
        /\ \A u \in Story : u # s => work'[u] = work[u]
        BY <1>4, CommitEffect, RetryEffect
  <2>4. Delivering => job.story \in Story
        BY Jobs DEF Delivering
  <2>5. job.at = "branch" => LabelOf[job.story] # LabelOf[s]
        BY <2>1, <2>2 DEF PassedOn, Delivering
  <2>6. job.at = "branch" => folder'[LabelOf[job.story]] = folder[LabelOf[job.story]]
        BY <2>3, <2>4, <2>5, Labels DEF Delivering
  <2>7. job.at = "branch" /\ Exists(folder, job.story)' => Exists(folder, job.story)
        BY <2>1, <2>6 DEF Exists
  <2>8. Delivering => work'[job.story] = work[job.story]
        BY <2>2, <2>3, <2>4
  <2>9. QED BY <2>1, <2>6, <2>7, <2>8, DeliveryUnchanged
<1>5. CASE RemoveWorktree
  <2>1. PICK r \in removing : folder' = With(folder, r[1], None)
        BY <1>5 DEF RemoveWorktree
  <2>2. /\ UNCHANGED <<local, remote, mergeRequest, job, work>>
        /\ tree' \subseteq tree
        BY <1>5 DEF RemoveWorktree, Forgotten
  <2>3. \A l \in Label : folder'[l] = folder[l] \/ folder'[l] = None
        BY <1>1, <2>1 DEF With
  <2>4. job.at = "branch" => LabelOf[job.story] \in Label
        BY Jobs, Labels
  <2>5. job.at = "branch" /\ Exists(folder, job.story)' =>
            /\ Exists(folder, job.story)
            /\ folder[LabelOf[job.story]] = folder'[LabelOf[job.story]]
        BY <2>2, <2>3, <2>4 DEF Exists
  <2>6. QED BY <2>2, <2>5, DeliveryUnchanged
<1>6. CASE Fails
  <2>1. job'.at = "none"
        BY <1>6, Jobs DEF Fails
  <2>2. QED BY <1>3, <2>1
<1>7. CASE Rebase
  <2>1. CASE GoesTo("branch") /\ job.story \in tree
             /\ Exists(folder, job.story)
             /\ folder' = [folder EXCEPT ![LabelOf[job.story]].base = base]
    <3>1. job'.at = "branch" /\ job'.story = job.story
          BY <2>1, Jobs DEF Moment
    <3>2. \A l \in Label : folder'[l].commits = folder[l].commits
          BY <1>1, <2>1, RebaseEffect
    <3>3. tree' = tree /\ work' = work
          BY <1>7 DEF Rebase
    <3>4. /\ work[job.story] \subseteq folder[LabelOf[job.story]].commits
          /\ \A u \in tree : LabelOf[u] = LabelOf[job.story] => u = job.story
          BY <2>1 DEF WorktreesInv, KnownTrees
    <3>5. LabelOf[job.story] \in Label
          BY <1>1, <2>1, Labels
    <3>6. work'[job.story] \subseteq folder'[LabelOf[job.story]].commits
          BY <3>2, <3>3, <3>4, <3>5
    <3>7. QED BY <3>1, <3>3, <3>4, <3>6 DEF PassedOn
  <2>2. QED BY <1>6, <1>7, <2>1 DEF Rebase
<1>8. CASE CreateBranch
  <2>1. CASE /\ Exists(folder, job.story) /\ GoesTo("push")
             /\ local' = With(local, job.story, BranchedAt(job.story))
    <3>1. /\ job.at = "branch" /\ job'.at = "push" /\ job'.story = job.story
          /\ LabelOf[job.story] \in Label
          BY <1>8, <2>1, Jobs, Labels DEF Moment, CreateBranch
    <3>2. work' = work
          BY <1>8 DEF CreateBranch
    <3>3. local'[LabelOf[job.story]] = folder[LabelOf[job.story]]
          BY <1>1, <2>1, <3>1 DEF With, BranchedAt
    <3>4. work[job.story] \subseteq folder[LabelOf[job.story]].commits
          BY <2>1, <3>1 DEF PassedOn
    <3>5. QED BY <3>1, <3>2, <3>3, <3>4 DEF PassedOn
  <2>2. QED BY <1>6, <1>8, <2>1 DEF CreateBranch
<1>9. CASE Push
  <2>1. CASE /\ GoesTo("request")
             /\ remote' = With(remote, job.story, local[LabelOf[job.story]])
    <3>1. /\ job.at = "push" /\ job'.at = "request" /\ job'.story = job.story
          /\ LabelOf[job.story] \in Label
          BY <1>9, <2>1, Jobs, Labels DEF Moment, Push
    <3>2. work' = work
          BY <1>9 DEF Push
    <3>3. remote'[LabelOf[job.story]] = local[LabelOf[job.story]]
          BY <1>1, <2>1, <3>1 DEF With
    <3>4. QED BY <3>1, <3>2, <3>3 DEF PassedOn
  <2>2. QED BY <1>6, <1>9, <2>1 DEF Push
<1>10. CASE Request
  <2>1. CASE GoesTo("url") /\ mergeRequest' = mergeRequest \cup {LabelOf[job.story]}
    <3>1. job.at = "request" /\ job'.at = "url" /\ job'.story = job.story
          BY <1>10, <2>1, Jobs DEF Moment, Request
    <3>2. work' = work /\ remote' = remote
          BY <1>10 DEF Request
    <3>3. QED BY <2>1, <3>1, <3>2 DEF PassedOn
  <2>2. QED BY <1>6, <1>10, <2>1 DEF Request
<1>11. CASE CreateWorktree \/ StoreWorktree \/ StoreUrl \/ TakeDue \/ TakePlanned \/ Crash
  <2>1. job'.at \in {"none", "create", "store", "rebase"}
        BY <1>11, <1>6, Jobs
           DEF CreateWorktree, StoreWorktree, StoreUrl, TakeDue, TakePlanned, Crash, Fails, Moment
  <2>2. QED BY <1>3, <2>1
<1>12. ASSUME NEW p \in Project, Delete(p)
       PROVE  PassedOn'
       BY <1>2, <1>12 DEF Delete
<1>13. QED BY <1>2, <1>4, <1>5, <1>7, <1>8, <1>9, <1>10, <1>11, <1>12
           DEF Next, Scheduler, Command, vars, Tick, Stop, Continue, Clean, InitProject,
               BaseMoves

\* Every step keeps merge requests complete.
LEMMA NextComplete ==
    ASSUME TypeOK, TickInv, PassedOn, MergeRequestIsComplete, [Next]_vars
    PROVE  MergeRequestIsComplete'
<1> USE DEF rows, git, tick, history
<1>1. /\ mrUrl \subseteq Story /\ mrUrl \subseteq finished
      /\ remote \in [Label -> Head \cup {None}] /\ local \in [Label -> Head \cup {None}]
      /\ work \in [Story -> SUBSET Commit]
      BY DEF TypeOK, TickInv
<1>2. ASSUME mrUrl' \subseteq mrUrl, mergeRequest \subseteq mergeRequest',
             \A s \in mrUrl : work'[s] \subseteq work[s],
             \A l \in Label : remote[l].commits \subseteq remote'[l].commits
      PROVE  MergeRequestIsComplete'
      BY <1>1, <1>2, Labels DEF MergeRequestIsComplete
<1>3. CASE UNCHANGED <<mergeRequest, work, remote>> /\ mrUrl' \subseteq mrUrl
      BY <1>2, <1>3
<1>4. ASSUME NEW s \in Story, AgentCommits(s) \/ Retry(s)
      PROVE  MergeRequestIsComplete'
  <2>1. UNCHANGED <<mergeRequest, mrUrl, remote>> /\ s \notin finished
        BY <1>4 DEF AgentCommits, Retry
  <2>2. \A u \in Story : u # s => work'[u] = work[u]
        BY <1>4, CommitEffect, RetryEffect
  <2>3. QED BY <1>1, <1>2, <2>1, <2>2
<1>5. CASE CreateWorktree
  <2>1. UNCHANGED <<mergeRequest, mrUrl, remote>>
        BY <1>5 DEF CreateWorktree
  <2>2. work' = work \/ work' = [work EXCEPT ![job.story] = {}]
        BY <1>5 DEF CreateWorktree
  <2>3. \A s \in Story : work'[s] \subseteq work[s]
        BY <1>1, <2>2
  <2>4. QED BY <1>1, <1>2, <2>1, <2>3
<1>6. CASE Push
  <2>1. UNCHANGED <<mergeRequest, mrUrl, work>>
        BY <1>6 DEF Push
  <2>2. CASE remote' = remote
        BY <1>3, <2>1, <2>2
  <2>3. CASE /\ \/ ~Exists(remote, job.story)
                \/ remote[LabelOf[job.story]].commits \subseteq local[LabelOf[job.story]].commits
             /\ remote' = With(remote, job.story, local[LabelOf[job.story]])
    <3>1. remote[LabelOf[job.story]].commits \subseteq local[LabelOf[job.story]].commits
          BY <2>3, Heads DEF Exists
    <3>2. \A l \in Label : \/ remote'[l] = remote[l]
                           \/ l = LabelOf[job.story] /\ remote'[l] = local[l]
          BY <1>1, <2>3 DEF With
    <3>3. \A l \in Label : remote[l].commits \subseteq remote'[l].commits
          BY <3>1, <3>2
    <3>4. QED BY <1>2, <2>1, <3>3
  <2>4. QED BY <1>6, <2>2, <2>3 DEF Push
<1>7. CASE Request
  <2>1. UNCHANGED <<mrUrl, work, remote>> /\ mergeRequest \subseteq mergeRequest'
        BY <1>7 DEF Request
  <2>2. QED BY <1>2, <2>1
<1>8. CASE StoreUrl
  <2>1. /\ job.at = "url" /\ UNCHANGED <<mergeRequest, work, remote>>
        /\ mrUrl' \subseteq mrUrl \cup {job.story}
        BY <1>8 DEF StoreUrl
  <2>2. /\ LabelOf[job.story] \in mergeRequest
        /\ work[job.story] \subseteq remote[LabelOf[job.story]].commits
        BY <2>1 DEF PassedOn
  <2>3. QED BY <2>1, <2>2 DEF MergeRequestIsComplete
<1>9. ASSUME NEW p \in Project, Delete(p)
      PROVE  MergeRequestIsComplete'
      BY <1>3, <1>9 DEF Delete
<1>10. QED BY <1>3, <1>4, <1>5, <1>6, <1>7, <1>8, <1>9
           DEF Next, Scheduler, Command, vars, Tick, TakeDue, TakePlanned, StoreWorktree,
               Rebase, CreateBranch, Stop, Continue, Clean, InitProject, RemoveWorktree,
               BaseMoves, Crash
-----------------------------------------------------------------------------
(***************************************************************************)
(* SurvivalInv: whose worktree may be taken away.                          *)
(***************************************************************************)

\* Steps that change neither a row nor who is interfered with.
LEMMA SurvivalUnchanged ==
    ASSUME SurvivalInv, UNCHANGED <<status, mrUrl, finished, hurt>>,
           tree \subseteq tree', TakenUp' = TakenUp, removing' = removing
    PROVE  SurvivalInv'
<1>1. DoneIsDelivered'
      BY DEF SurvivalInv, DoneIsDelivered
<1>2. Unlost'
      BY DEF SurvivalInv, Unlost
<1>3. CleanIsQuiet'
      BY DEF SurvivalInv, CleanIsQuiet
<1>4. QED BY <1>1, <1>2, <1>3 DEF SurvivalInv

\* A story leaves the tick.
LEMMA TakenUpEnds ==
    ASSUME TypeOK, TickInv, job.at # "none", job' = NoJob, due' = due
    PROVE  /\ TakenUp = TakenUp' \cup {job.story}
           /\ job.story \notin TakenUp'
BY Jobs DEF TakenUp, TickInv

\* Every step keeps it.
LEMMA NextSurvival ==
    ASSUME TypeOK, TypeOK', TickInv, WorktreesInv, SurvivalInv, [Next]_vars
    PROVE  SurvivalInv'
<1> USE DEF rows, git, tick, history
<1>1. /\ tree \subseteq Story /\ finished \subseteq Story /\ mrUrl \subseteq Story
      /\ \A r \in removing : /\ r[1] \in Story /\ r[2] \in {"clean", "delete"}
                             /\ r = <<r[1], r[2]>>
      BY DEF TypeOK
<1>2. CASE UNCHANGED <<status, mrUrl, finished, hurt, tree, removing, job, due>>
  <2>1. TakenUp' = TakenUp
        BY <1>2 DEF TakenUp
  <2>2. QED BY <1>2, <2>1, SurvivalUnchanged
<1>3. CASE Tick
  <2>1. PICK F \in SUBSET Story, T \in SUBSET Story :
           /\ \A s \in F \cup T : status[s] = "in_progress" /\ s \in tree
           /\ status' = [s \in Story |-> IF s \in F THEN "done"
                                         ELSE IF s \in T THEN "failed"
                                         ELSE status[s]]
           /\ finished' = finished \cup F
           /\ due' = F
        BY <1>3 DEF Tick
  <2>2. /\ job.at = "none" /\ due = {}
        /\ UNCHANGED <<job, tree, mrUrl, removing, hurt>>
        BY <1>3, Jobs DEF Tick
  <2>3. TakenUp = {} /\ TakenUp' = F
        BY <2>1, <2>2 DEF TakenUp
  <2>4. DoneIsDelivered'
        BY <2>1, <2>2, <2>3 DEF SurvivalInv, DoneIsDelivered
  <2>5. Unlost'
        BY <2>1, <2>2 DEF SurvivalInv, Unlost
  <2>6. CleanIsQuiet'
        BY <1>1, <2>1, <2>2, <2>3 DEF SurvivalInv, CleanIsQuiet
  <2>7. QED BY <2>4, <2>5, <2>6 DEF SurvivalInv
<1>4. CASE TakeDue
  <2>1. PICK s \in due :
           /\ due' = due \ {s}
           /\ job' = IF HasRow(s) THEN [story |-> s, at |-> "rebase"] ELSE NoJob
        BY <1>4 DEF TakeDue
  <2>2. /\ job.at = "none"
        /\ UNCHANGED <<status, mrUrl, finished, hurt, tree, removing>>
        BY <1>4, Jobs DEF TakeDue
  <2>3. TakenUp' \subseteq TakenUp
        BY <2>1, <2>2, Jobs DEF TakenUp
  <2>4. \A u \in TakenUp \ TakenUp' : status[u] = "gone"
        BY <2>1, <2>2, Jobs DEF TakenUp, HasRow
  <2>5. DoneIsDelivered'
        BY <2>2, <2>4 DEF SurvivalInv, DoneIsDelivered
  <2>6. Unlost'
        BY <2>2 DEF SurvivalInv, Unlost
  <2>7. CleanIsQuiet'
        BY <2>2, <2>3 DEF SurvivalInv, CleanIsQuiet
  <2>8. QED BY <2>5, <2>6, <2>7 DEF SurvivalInv
<1>5. CASE TakePlanned
  <2>1. PICK s \in plan :
           job' = IF HasRow(s) THEN [story |-> s, at |-> "create"] ELSE NoJob
        BY <1>5 DEF TakePlanned
  <2>2. /\ job.at = "none"
        /\ UNCHANGED <<status, mrUrl, finished, hurt, tree, removing, due>>
        BY <1>5, Jobs DEF TakePlanned
  <2>3. TakenUp \subseteq TakenUp' /\ TakenUp' \subseteq TakenUp \cup {s}
        BY <2>1, <2>2, Jobs DEF TakenUp
  <2>4. status[s] \in {"ready", "gone"}
        BY DEF TickInv
  <2>5. DoneIsDelivered'
        BY <2>2, <2>3 DEF SurvivalInv, DoneIsDelivered
  <2>6. Unlost'
        BY <2>2 DEF SurvivalInv, Unlost
  <2>7. CleanIsQuiet'
        BY <2>2, <2>3, <2>4 DEF SurvivalInv, CleanIsQuiet
  <2>8. QED BY <2>5, <2>6, <2>7 DEF SurvivalInv
<1>6. ASSUME job.at # "none", job' = NoJob, due' = due,
             UNCHANGED <<finished, hurt, removing>>,
             tree \subseteq tree', mrUrl \subseteq mrUrl',
             \A s \in Story : s # job.story => status'[s] = status[s],
             status'[job.story] = "done" => job.story \in mrUrl'
      PROVE  SurvivalInv'
  <2>1. TakenUp = TakenUp' \cup {job.story}
        BY <1>6, TakenUpEnds
  <2>2. DoneIsDelivered'
        BY <1>6, <2>1 DEF SurvivalInv, DoneIsDelivered
  <2>3. Unlost'
        BY <1>6 DEF SurvivalInv, Unlost
  <2>4. CleanIsQuiet'
        BY <1>1, <1>6, <2>1 DEF SurvivalInv, CleanIsQuiet
  <2>5. QED BY <2>2, <2>3, <2>4 DEF SurvivalInv
<1>7. ASSUME Fails, job.at # "none", UNCHANGED <<due, finished, hurt, removing, tree, mrUrl>>
      PROVE  SurvivalInv'
  <2>1. /\ job' = NoJob
        /\ \A s \in Story : s # job.story => status'[s] = status[s]
        /\ status'[job.story] # "done"
        BY <1>7, FailureEffect, Jobs
  <2>2. due' = due /\ tree \subseteq tree' /\ mrUrl \subseteq mrUrl'
        BY <1>7
  <2>3. QED BY <1>6, <1>7, <2>1, <2>2
<1>8. ASSUME NEW at \in Moment \ {"none"}, GoesTo(at), job.at # "none",
             UNCHANGED <<status, due, finished, hurt, removing, tree, mrUrl>>
      PROVE  SurvivalInv'
  <2>1. TakenUp' = TakenUp
        BY <1>8, Jobs DEF TakenUp
  <2>2. QED BY <1>8, <2>1, SurvivalUnchanged
<1>9. CASE CreateWorktree \/ Rebase \/ CreateBranch \/ Push \/ Request
  <2>1. /\ job.at # "none"
        /\ UNCHANGED <<due, finished, hurt, removing, tree, mrUrl>>
        BY <1>9 DEF CreateWorktree, Rebase, CreateBranch, Push, Request
  <2>2. \/ Fails
        \/ /\ status' = status
           /\ \E at \in {"store", "branch", "push", "request", "url"} : GoesTo(at)
        BY <1>9 DEF CreateWorktree, Rebase, CreateBranch, Push, Request
  <2>3. QED BY <1>7, <1>8, <2>1, <2>2 DEF Moment
<1>10. CASE StoreWorktree
  <2>1. /\ job.at = "store" /\ job' = NoJob /\ due' = due
        /\ UNCHANGED <<finished, hurt, removing, mrUrl>>
        /\ tree \subseteq tree'
        /\ status' = Updated(job.story, "in_progress")
        BY <1>10 DEF StoreWorktree
  <2>2. /\ \A s \in Story : s # job.story => status'[s] = status[s]
        /\ status'[job.story] # "done"
        BY <2>1, Jobs DEF Updated, HasRow, TypeOK
  <2>3. job.at # "none" /\ mrUrl \subseteq mrUrl'
        BY <2>1
  <2>4. QED BY <1>6, <2>1, <2>2, <2>3
<1>11. CASE StoreUrl
  <2>1. /\ job.at = "url" /\ job' = NoJob /\ due' = due
        /\ UNCHANGED <<status, finished, hurt, removing, tree>>
        /\ mrUrl' = IF HasRow(job.story) THEN mrUrl \cup {job.story} ELSE mrUrl
        BY <1>11 DEF StoreUrl
  <2>2. /\ job.at # "none" /\ mrUrl \subseteq mrUrl' /\ tree \subseteq tree'
        /\ \A s \in Story : s # job.story => status'[s] = status[s]
        /\ status'[job.story] = "done" => job.story \in mrUrl'
        BY <2>1 DEF HasRow
  <2>3. QED BY <1>6, <2>1, <2>2
<1>12. ASSUME NEW s \in Story, Stop(s) \/ Retry(s) \/ Continue(s)
       PROVE  SurvivalInv'
  <2>1. /\ UNCHANGED <<finished, mrUrl, tree, removing, job, due>>
        /\ \A u \in Story : u # s => status'[u] = status[u]
        /\ status'[s] = "done" => s \in hurt'
        /\ hurt \subseteq hurt'
        /\ \/ status[s] \in {"in_progress", "failed"}
           \/ <<s, "clean">> \in removing => s \in hurt'
        BY <1>12 DEF Stop, Retry, Continue, TypeOK
  <2>2. TakenUp' = TakenUp
        BY <2>1 DEF TakenUp
  <2>3. DoneIsDelivered'
        BY <2>1, <2>2 DEF SurvivalInv, DoneIsDelivered
  <2>4. Unlost'
        BY <2>1 DEF SurvivalInv, Unlost
  <2>5. CleanIsQuiet'
    <3>1. SUFFICES ASSUME NEW r \in removing, r[2] = "clean", r[1] \notin hurt'
                   PROVE  status'[r[1]] \in {"done", "cancelled"} /\ r[1] \notin TakenUp
          BY <2>1, <2>2 DEF CleanIsQuiet
    <3>2. status[r[1]] \in {"done", "cancelled"} /\ r[1] \notin TakenUp
          BY <2>1, <3>1 DEF SurvivalInv, CleanIsQuiet
    <3>3. r = <<r[1], "clean">> /\ r[1] \in Story
          BY <1>1, <3>1
    <3>4. r[1] # s
          BY <2>1, <3>1, <3>2, <3>3
    <3>5. QED BY <2>1, <3>2, <3>3, <3>4
  <2>6. QED BY <2>3, <2>4, <2>5 DEF SurvivalInv
<1>13. ASSUME NEW p \in Project, Clean(p)
       PROVE  SurvivalInv'
  <2>1. PICK S \in SUBSET Story :
           /\ \A s \in S : status[s] \in {"done", "cancelled"}
           /\ removing' = S \X {"clean"}
           /\ hurt' = hurt \cup (S \cap TakenUp)
        BY <1>13 DEF Clean, Cleanable
  <2>2. UNCHANGED <<status, finished, mrUrl, tree, job, due>>
        BY <1>13 DEF Clean
  <2>3. TakenUp' = TakenUp
        BY <2>2 DEF TakenUp
  <2>4. DoneIsDelivered'
        BY <2>1, <2>2, <2>3 DEF SurvivalInv, DoneIsDelivered
  <2>5. Unlost'
        BY <2>1, <2>2 DEF SurvivalInv, Unlost
  <2>6. CleanIsQuiet'
        BY <2>1, <2>2, <2>3 DEF CleanIsQuiet
  <2>7. QED BY <2>4, <2>5, <2>6 DEF SurvivalInv
<1>14. ASSUME NEW p \in Project, Delete(p)
       PROVE  SurvivalInv'
  <2>1. /\ removing' = Listed(p) \X {"delete"}
        /\ status' = [s \in Story |-> IF ProjectOf[s] = p THEN "gone" ELSE status[s]]
        /\ tree' = {s \in tree : ProjectOf[s] # p}
        /\ mrUrl' = {s \in mrUrl : ProjectOf[s] # p}
        /\ finished' = {s \in finished : ProjectOf[s] # p}
        /\ hurt \subseteq hurt'
        /\ UNCHANGED <<job, due>>
        BY <1>14 DEF Delete
  <2>2. TakenUp' = TakenUp
        BY <2>1 DEF TakenUp
  <2>3. \A s \in Story : status'[s] = "done" => ProjectOf[s] # p /\ status[s] = "done"
        BY <2>1
  <2>4. DoneIsDelivered'
        BY <2>1, <2>2, <2>3 DEF SurvivalInv, DoneIsDelivered
  <2>5. Unlost'
        BY <2>1 DEF SurvivalInv, Unlost
  <2>6. CleanIsQuiet'
        BY <2>1 DEF CleanIsQuiet
  <2>7. QED BY <2>4, <2>5, <2>6 DEF SurvivalInv
<1>15. CASE RemoveWorktree
  <2>1. PICK r \in removing :
           /\ removing' = removing \ {r}
           /\ tree' = IF r[2] = "clean" THEN tree \ {r[1]} ELSE tree
        BY <1>15 DEF RemoveWorktree, Forgotten
  <2>2. UNCHANGED <<status, finished, mrUrl, hurt, job, due>>
        BY <1>15 DEF RemoveWorktree
  <2>3. TakenUp' = TakenUp
        BY <2>2 DEF TakenUp
  <2>4. DoneIsDelivered'
        BY <2>2, <2>3 DEF SurvivalInv, DoneIsDelivered
  <2>5. r[2] = "clean" /\ r[1] \in finished \ hurt => r[1] \in mrUrl
    <3>1. SUFFICES ASSUME r[2] = "clean", r[1] \in finished \ hurt
                   PROVE  r[1] \in mrUrl
          OBVIOUS
    <3>2. status[r[1]] = "done" /\ r[1] \notin TakenUp
          BY <3>1 DEF SurvivalInv, CleanIsQuiet, TickInv
    <3>3. QED BY <1>1, <3>1, <3>2 DEF SurvivalInv, DoneIsDelivered
  <2>6. Unlost'
        BY <2>1, <2>2, <2>5 DEF SurvivalInv, Unlost
  <2>7. CleanIsQuiet'
        BY <2>1, <2>2, <2>3 DEF SurvivalInv, CleanIsQuiet
  <2>8. QED BY <2>4, <2>6, <2>7 DEF SurvivalInv
<1>16. ASSUME NEW p \in Project, InitProject(p)
       PROVE  SurvivalInv'
  <2>1. /\ UNCHANGED <<tree, mrUrl, finished, removing, hurt, job, due>>
        /\ \A s \in Story : status'[s] = status[s] \/ (status[s] = "new" /\ status'[s] = "ready")
        BY <1>16 DEF InitProject, TypeOK
  <2>2. TakenUp' = TakenUp
        BY <2>1 DEF TakenUp
  <2>3. DoneIsDelivered'
        BY <2>1, <2>2 DEF SurvivalInv, DoneIsDelivered
  <2>4. Unlost'
        BY <2>1 DEF SurvivalInv, Unlost
  <2>5. CleanIsQuiet'
        BY <1>1, <2>1, <2>2 DEF SurvivalInv, CleanIsQuiet
  <2>6. QED BY <2>3, <2>4, <2>5 DEF SurvivalInv
<1>17. CASE Crash
  <2>1. /\ UNCHANGED <<status, tree, mrUrl, finished>> /\ removing' = {}
        /\ hurt \subseteq hurt' /\ TakenUp \subseteq hurt'
        BY <1>17 DEF Crash
  <2>2. DoneIsDelivered'
        BY <2>1 DEF SurvivalInv, DoneIsDelivered
  <2>3. Unlost'
        BY <2>1 DEF SurvivalInv, Unlost
  <2>4. CleanIsQuiet'
        BY <2>1 DEF CleanIsQuiet
  <2>5. QED BY <2>2, <2>3, <2>4 DEF SurvivalInv
<1>18. QED BY <1>2, <1>3, <1>4, <1>5, <1>9, <1>10, <1>11, <1>12, <1>13, <1>14, <1>15,
              <1>16, <1>17
           DEF Next, Scheduler, Command, vars, AgentCommits, BaseMoves
-----------------------------------------------------------------------------
(***************************************************************************)
(* The theorems.                                                           *)
(***************************************************************************)

IInv == /\ TypeOK /\ RowsInv /\ TickInv
               /\ WorktreesInv /\ BranchesInv /\ SurvivalInv

\* All of it holds at the beginning.
LEMMA InitHolds == Init => IInv
<1> SUFFICES ASSUME Init
             PROVE  IInv
    OBVIOUS
<1>1. job.at = "none" /\ None.commits = {}
      BY Heads DEF Init, NoJob
<1>2. TypeOK
      BY DeliveryAssumption DEF Init, TypeOK
<1>3. RowsInv
      BY DEF Init, RowsInv
<1>4. TickInv
      BY <1>1 DEF Init, TickInv, Delivering
<1>5. WorktreesInv
      BY <1>1 DEF Init, WorktreesInv, KnownTrees, Removals, Starting
<1>6. BranchesInv
  <2>1. Owned
        BY <1>1 DEF Init, Owned, OneOwner
  <2>2. MergeRequestIsComplete /\ PassedOn
        BY <1>1 DEF Init, MergeRequestIsComplete, PassedOn
  <2>3. QED BY <2>1, <2>2 DEF BranchesInv
<1>7. SurvivalInv
      BY DEF Init, SurvivalInv, DoneIsDelivered, Unlost, CleanIsQuiet
<1>8. QED BY <1>2, <1>3, <1>4, <1>5, <1>6, <1>7 DEF IInv

\* All of it holds always.
LEMMA DeliveryInvariant == Spec => []IInv
<1>1. ASSUME IInv, [Next]_vars
      PROVE  IInv'
  <2>1. TypeOK'
        BY <1>1, NextType DEF IInv
  <2>2. RowsInv' /\ TickInv'
        BY <1>1, <2>1, NextRows, NextTick DEF IInv
  <2>3. WorktreesInv'
        BY <1>1, NextWorktrees DEF IInv
  <2>4. BranchesInv'
        BY <1>1, NextOwned, NextPassedOn, NextComplete DEF IInv, BranchesInv
  <2>5. SurvivalInv'
        BY <1>1, <2>1, NextSurvival DEF IInv
  <2>6. QED BY <2>1, <2>2, <2>3, <2>4, <2>5 DEF IInv
<1>2. QED BY <1>1, InitHolds, PTL DEF Spec

\* The variables of the model keep their types.
THEOREM TypeCorrect == Spec => []TypeOK
<1>1. IInv => TypeOK
      BY DEF IInv
<1>2. QED BY <1>1, DeliveryInvariant, PTL

\* A worktree, a branch and what was pushed of it hold the commits of one story
\* only, whatever names the stories share (worktree.rs create_worktree, branch.rs
\* create_branch).
THEOREM BranchesHaveOneStory == Spec => []OneStoryPerBranch
<1>1. ASSUME NEW place, OneOwner(place)
      PROVE  Cardinality(OwnersOf(place)) <= 1
  <2>1. CASE place.commits = {}
    <3>1. OwnersOf(place) = {}
          BY <2>1 DEF OwnersOf
    <3>2. QED BY <3>1, FS_EmptySet
  <2>2. CASE place.commits # {}
    <3>1. PICK c \in place.commits : TRUE
          BY <2>2
    <3>2. OwnersOf(place) = {c[1]}
          BY <1>1, <3>1 DEF OwnersOf, OneOwner
    <3>3. Cardinality({c[1]}) = 1
          BY FS_Singleton
    <3>4. QED BY <3>2, <3>3
  <2>3. QED BY <2>1, <2>2
<1>2. IInv => OneStoryPerBranch
      BY <1>1 DEF IInv, BranchesInv, Owned, OneStoryPerBranch
<1>3. QED BY <1>2, DeliveryInvariant, PTL

\* A story that is done has been delivered unless somebody interfered, and what
\* has been delivered has every commit of the story (execute_complete_story).
THEOREM DeliveriesAreWhole == Spec => []DeliveredWhole
<1>1. IInv => DeliveredWhole
      BY DEF IInv, BranchesInv, SurvivalInv, DeliveredWhole
<1>2. QED BY <1>1, DeliveryInvariant, PTL

\* What a finished story has committed is in its worktree or on its branch,
\* whatever fails on the way and whoever else uses its name.
THEOREM FinishedWorkSurvives == Spec => []WorkSurvives
<1>1. ASSUME IInv
      PROVE  WorkSurvives
  <2>1. SUFFICES ASSUME NEW s \in finished \ hurt
                 PROVE  work[s] \subseteq UNION {folder[LabelOf[s]].commits,
                                                 local[LabelOf[s]].commits,
                                                 remote[LabelOf[s]].commits}
        BY DEF WorkSurvives
  <2>2. CASE s \in tree
        BY <1>1, <2>2 DEF IInv, WorktreesInv, KnownTrees
  <2>3. CASE s \in mrUrl
        BY <1>1, <2>3 DEF IInv, BranchesInv, MergeRequestIsComplete
  <2>4. QED BY <1>1, <2>2, <2>3 DEF IInv, SurvivalInv, Unlost
<1>2. QED BY <1>1, DeliveryInvariant, PTL

=============================================================================

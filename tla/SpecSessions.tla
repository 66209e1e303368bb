---------------------------- MODULE SpecSessions ----------------------------
(***************************************************************************)
(* The SPECIFY phase of nflow-daemon: spec rows, the conversations with    *)
(* Claude that write the spec files, and the spec.* commands.              *)
(*                                                                         *)
(* A conversation is a chain of turns.  A turn is a background task: it    *)
(* starts a Claude process, copies its output to the client, and when the  *)
(* output ends stores the session id and whether the session goes on.      *)
(* Nothing ties a turn to its spec: a spec can be approved, deleted or     *)
(* given a second turn while the first is still running.                   *)
(*                                                                         *)
(* As in Execution, a command that validates before it writes is two       *)
(* steps, the reads (Begin...) and the writes (Finish...).                 *)
(***************************************************************************)
EXTENDS Naturals, FiniteSets

CONSTANTS
    MaxSpecs,       \* rows of specs the model can hold (bound)
    Name,           \* the names users give to specs
    Turn,           \* turns that can be in progress at a time (bound)
    Client,         \* commands that can be in progress at a time (bound)
    SpecOps,        \* the spec.* commands that clients issue
    SpecFaults      \* what can go wrong in the environment

ASSUME MaxSpecsAssumption == MaxSpecs \in Nat \ {0}

ASSUME NameAssumption == Name # {}

ASSUME SpecOpsAssumption ==
    SpecOps \subseteq {"new", "answer", "resume", "approve", "reopen",
                       "deactivate", "delete"}

ASSUME SpecFaultsAssumption ==
    SpecFaults \subseteq {"prompt", "spawn", "no_id", "crash"}

VARIABLES
    spec,       \* the rows of specs, in the order of their insertion
    file,       \* names whose spec file exists
    turn,       \* the turns in progress
    call        \* the spec.* command each client waits for

specVars == <<spec, file, turn, call>>

SpecId == 1 .. MaxSpecs

SpecStatus == {"absent", "draft", "approved", "decomposed", "deleted"}

\* "active" is session_active; "claude" says whether claude_session_id is set.
SpecRow == [name : Name, status : SpecStatus, active : BOOLEAN,
            claude : BOOLEAN]

\* "file" and "id" are what the turn found when its output ended.
TurnRow == [pc : {"free", "asked", "talking", "ended"}, spec : SpecId,
            file : BOOLEAN, id : BOOLEAN]

AnyName == CHOOSE n \in Name : TRUE

AbsentSpec == [name |-> AnyName, status |-> "absent", active |-> FALSE,
               claude |-> FALSE]

FreeTurn == [pc |-> "free", spec |-> 1, file |-> FALSE, id |-> FALSE]

\* "seen" is the row as the command read it.
SpecCall == [op : SpecOps \cup {"none"}, spec : SpecId, seen : SpecRow]

NoSpecCall == [op |-> "none", spec |-> 1, seen |-> AbsentSpec]

SpecsTypeOK ==
    /\ spec \in [SpecId -> SpecRow]
    /\ file \in [Name -> BOOLEAN]
    /\ turn \in [Turn -> TurnRow]
    /\ call \in [Client -> SpecCall]

SpecsInit ==
    /\ spec = [i \in SpecId |-> AbsentSpec]
    /\ file = [n \in Name |-> FALSE]
    /\ turn = [t \in Turn |-> FreeTurn]
    /\ call = [c \in Client |-> NoSpecCall]

Present == {i \in SpecId : spec[i].status # "absent"}

\* Nothing keeps names apart, and a row keeps its name when it is deleted:
\* a name stands for the row that was inserted first.
Named(n) == {i \in Present : /\ spec[i].name = n
                             /\ \A j \in Present : spec[j].name = n => i <= j}

NextSpec == {i \in SpecId \ Present : \A j \in SpecId : j < i => j \in Present}

InTurn(i) == \E t \in Turn : turn[t].pc # "free" /\ turn[t].spec = i

---------------------------------------------------------------------------
(* Commands. *)

StartTurn(t, i) ==
    /\ turn[t].pc = "free"
    /\ turn' = [turn EXCEPT ![t] = [FreeTurn EXCEPT !.pc = "asked", !.spec = i]]

\* The turn the command ends with, or none if the prompt cannot be rendered.
StartOrFail(i) ==
    \/ \E t \in Turn : StartTurn(t, i)
    \/ "prompt" \in SpecFaults /\ UNCHANGED turn

Answered(c) == call' = [call EXCEPT ![c] = NoSpecCall]

\* spec.new: no session of the project may be active.
BeginNew(c, n) ==
    /\ "new" \in SpecOps /\ call[c].op = "none"
    /\ \A i \in Present : ~spec[i].active
    /\ call' = [call EXCEPT ![c] =
                   [NoSpecCall EXCEPT !.op = "new", !.seen.name = n]]
    /\ UNCHANGED <<spec, file, turn>>

FinishNew(c) ==
    /\ call[c].op = "new"
    /\ \E i \in NextSpec :
           /\ spec' = [spec EXCEPT ![i] =
                          [name |-> call[c].seen.name, status |-> "draft",
                           active |-> TRUE, claude |-> FALSE]]
           /\ StartOrFail(i)
    /\ Answered(c)
    /\ UNCHANGED file

\* spec.answer writes nothing; the spec is named by its id.
Answer(c, i) ==
    /\ "answer" \in SpecOps /\ call[c].op = "none"
    /\ i \in Present /\ spec[i].active /\ spec[i].claude
    /\ \E t \in Turn : StartTurn(t, i)
    /\ UNCHANGED <<spec, file, call>>

\* Whether a command goes on after it has read row r.  spec.approve and
\* spec.delete end an active session before they look at the status.
Goes(op, r) ==
    \/ op = "resume" /\ r.status = "draft" /\ ~r.active /\ r.claude
    \/ op = "approve" /\ (r.active \/ r.status = "draft")
    \/ op = "reopen" /\ r.status = "approved"
    \/ op = "deactivate" /\ r.active
    \/ op = "delete" /\ (r.active \/ r.status \in {"draft", "approved"})

\* spec.resume without a name takes the draft that was updated last.
Targets(op) ==
    (UNION {Named(n) : n \in Name})
        \cup {i \in Present : op = "resume" /\ spec[i].status = "draft"}

BeginSpecCommand(c, op) ==
    /\ op \in SpecOps /\ call[c].op = "none"
    /\ \E i \in Targets(op) :
           /\ Goes(op, spec[i])
           /\ call' = [call EXCEPT ![c] =
                          [op |-> op, spec |-> i, seen |-> spec[i]]]
    /\ UNCHANGED <<spec, file, turn>>

FinishResume(c) ==
    LET i == call[c].spec
    IN  /\ call[c].op = "resume"
        /\ spec' = [spec EXCEPT ![i].active = TRUE, ![i].claude = TRUE]
        /\ StartOrFail(i)
        /\ Answered(c)
        /\ UNCHANGED file

\* Mutant of Moved: spec.approve approves whatever it has read.
MovedAnyhow(op, status) ==
    CASE op = "approve" -> "approved"
      [] op = "reopen" /\ status = "approved" -> "draft"
      [] op = "delete" /\ status \in {"draft", "approved"} -> "deleted"
      [] OTHER -> status

\* What a command makes of the status it has read.
Moved(op, status) ==
    CASE op = "approve" /\ status = "draft" -> "approved"
      [] op = "reopen" /\ status = "approved" -> "draft"
      [] op = "delete" /\ status \in {"draft", "approved"} -> "deleted"
      [] OTHER -> status

\* A session that was active ends, with the session id as it was read; a
\* status that was not to change is not written.
Ended(now, op, seen) ==
    LET stops == seen.active /\ op \in {"approve", "deactivate", "delete"}
        moves == Moved(op, seen.status) # seen.status
    IN  [now EXCEPT
            !.active = IF stops THEN FALSE ELSE now.active,
            !.claude = IF stops THEN seen.claude ELSE now.claude,
            !.status = IF moves THEN Moved(op, seen.status) ELSE now.status]

FinishSpecCommand(c) ==
    LET k == call[c]
    IN  /\ k.op \in {"approve", "reopen", "deactivate", "delete"}
        /\ spec' = [spec EXCEPT ![k.spec] = Ended(spec[k.spec], k.op, k.seen)]
        /\ Answered(c)
        /\ UNCHANGED <<file, turn>>

---------------------------------------------------------------------------
(* Turns. *)

TurnFailsToSpawn(t) ==
    /\ "spawn" \in SpecFaults
    /\ turn[t].pc = "asked"
    /\ turn' = [turn EXCEPT ![t] = FreeTurn]
    /\ spec' = [spec EXCEPT ![turn[t].spec].active = FALSE,
                            ![turn[t].spec].claude = FALSE]
    /\ UNCHANGED <<file, call>>

TurnSpawns(t) ==
    /\ turn[t].pc = "asked"
    /\ turn' = [turn EXCEPT ![t].pc = "talking"]
    /\ UNCHANGED <<spec, file, call>>

\* Claude writes the spec file with its Write tool.
WriteSpecFile(t) ==
    /\ turn[t].pc = "talking"
    /\ ~file[spec[turn[t].spec].name]
    /\ file' = [file EXCEPT ![spec[turn[t].spec].name] = TRUE]
    /\ UNCHANGED <<spec, turn, call>>

\* The output ends, or the client leaves.  The session goes on unless the
\* spec file exists.
TurnEnds(t) ==
    /\ turn[t].pc = "talking"
    /\ \E id \in BOOLEAN :
           /\ id \/ "no_id" \in SpecFaults
           /\ turn' = [turn EXCEPT ![t].pc = "ended", ![t].id = id,
                                   ![t].file = file[spec[turn[t].spec].name]]
    /\ UNCHANGED <<spec, file, call>>

\* The row a turn leaves: over, without a session id if this turn got none;
\* or still active, with the new or else the previous session id.
AfterTurn(r, k) ==
    IF k.file
    THEN [r EXCEPT !.active = FALSE, !.claude = k.id]
    ELSE [r EXCEPT !.active = TRUE, !.claude = k.id \/ r.claude]

StoreTurn(t) ==
    /\ turn[t].pc = "ended"
    /\ spec' = [spec EXCEPT ![turn[t].spec] =
                   AfterTurn(spec[turn[t].spec], turn[t])]
    /\ turn' = [turn EXCEPT ![t] = FreeTurn]
    /\ UNCHANGED <<file, call>>

\* The daemon dies and starts again.  Claude processes that outlive it may
\* still write their files; all sessions are reset to inactive.
Talking == {spec[turn[t].spec].name : t \in {u \in Turn : turn[u].pc = "talking"}}

RestartSpecs ==
    /\ "crash" \in SpecFaults
    /\ \E written \in SUBSET Talking :
           file' = [n \in Name |-> file[n] \/ n \in written]
    /\ spec' = [i \in SpecId |-> [spec[i] EXCEPT !.active = FALSE]]
    /\ turn' = [t \in Turn |-> FreeTurn]
    /\ call' = [c \in Client |-> NoSpecCall]

---------------------------------------------------------------------------
SpecCommand(c) ==
    \/ \E n \in Name : BeginNew(c, n)
    \/ FinishNew(c)
    \/ \E i \in SpecId : Answer(c, i)
    \/ \E op \in SpecOps \ {"new", "answer"} : BeginSpecCommand(c, op)
    \/ FinishResume(c)
    \/ FinishSpecCommand(c)

TurnStep(t) ==
    \/ TurnFailsToSpawn(t)
    \/ TurnSpawns(t)
    \/ WriteSpecFile(t)
    \/ TurnEnds(t)
    \/ StoreTurn(t)

=============================================================================

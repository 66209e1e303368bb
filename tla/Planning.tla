------------------------------ MODULE Planning ------------------------------
(***************************************************************************)
(* The PLAN phase of nflow-daemon on top of its spec rows: plan.generate   *)
(* opens a wave over approved specs and starts a stream, the background    *)
(* task that lets Claude decompose them and stores the plan; plan.feedback *)
(* throws the plan of a draft wave away and starts another stream for it;  *)
(* plan.approve hands the wave to the scheduler; plan.discard removes its  *)
(* plan and gives the specs back.                                          *)
(*                                                                         *)
(* A plan stands for all the work items that one stream has inserted: what *)
(* matters is whether they are complete and whether a story among them is  *)
(* in progress.  The commands do not know the streams, nor the streams     *)
(* what has become of their wave and its specs.                            *)
(***************************************************************************)
EXTENDS SpecSessions, Sequences

CONSTANTS
    MaxWaves,       \* rows of decomposition_sessions it can hold (bound)
    MaxPlans,       \* plans in a wave the model can hold (bound)
    Stream,         \* streams that can be in progress at a time (bound)
    PlanOps,        \* the plan.* commands that clients issue
    PlanFaults      \* what can go wrong with a stream

ASSUME ClientAssumption == IsFiniteSet(Client)

ASSUME MaxWavesAssumption == MaxWaves \in Nat \ {0}

ASSUME MaxPlansAssumption == MaxPlans \in Nat

ASSUME PlanOpsAssumption ==
    PlanOps \subseteq {"generate", "feedback", "approve", "discard"}

ASSUME PlanFaultsAssumption ==
    PlanFaults \subseteq {"prompt", "twice", "spawn", "no_plan", "bad_plan"}

VARIABLES
    wave,       \* the rows of decomposition_sessions, in order of insertion
    link,       \* the rows of decomposition_specs
    plans,      \* the plans among the work items of each wave
    stream,     \* the streams in progress
    planCall    \* the plan.* command each client waits for

planVars == <<wave, link, plans, stream, planCall>>
vars == <<specVars, planVars>>

WaveId == 1 .. MaxWaves

WaveRow == [status : {"free", "in_progress", "approved", "discarded"},
            number : Nat, claude : BOOLEAN]

NoWave == [status |-> "free", number |-> 0, claude |-> FALSE]

\* "whole": all items and dependencies are stored.  "work" summarises the
\* stories: none started, some in progress, or some started and none now.
Plan == [whole : BOOLEAN, work : {"new", "busy", "paused"}]

StreamRow == [pc : {"free", "asked", "talking", "answered", "stored"},
              wave : WaveId, specs : SUBSET SpecId]

FreeStream == [pc |-> "free", wave |-> 1, specs |-> {}]

PlanCall == [op : {"none", "generate", "feedback", "approve", "discard"},
             wave : WaveId, number : Nat, specs : SUBSET SpecId,
             twice : BOOLEAN]

NoPlanCall == [op |-> "none", wave |-> 1, number |-> 0, specs |-> {},
               twice |-> FALSE]

TypeOK ==
    /\ SpecsTypeOK
    /\ wave \in [WaveId -> WaveRow]
    /\ link \subseteq WaveId \X SpecId
    /\ plans \in [WaveId -> Seq(Plan)]
    /\ stream \in [Stream -> StreamRow]
    /\ planCall \in [Client -> PlanCall]

Init ==
    /\ SpecsInit
    /\ wave = [w \in WaveId |-> NoWave]
    /\ link = {}
    /\ plans = [w \in WaveId |-> <<>>]
    /\ stream = [s \in Stream |-> FreeStream]
    /\ planCall = [c \in Client |-> NoPlanCall]

Waves == {w \in WaveId : wave[w].status # "free"}

Drafts == {w \in WaveId : wave[w].status = "in_progress"}

NextWave == {w \in WaveId \ Waves : \A v \in WaveId : v < w => v \in Waves}

SpecsOf(w) == {i \in SpecId : <<w, i>> \in link}

Approved == {i \in Present : spec[i].status = "approved"}

Linked == {i \in SpecId : \E w \in WaveId : <<w, i>> \in link}

\* find_unassigned_approved_specs: no wave has ever had them.
Unassigned == Approved \ Linked

---------------------------------------------------------------------------
(* Commands. *)

Idle(c) == call[c].op = "none" /\ planCall[c].op = "none"

Ask(c, request) == planCall' = [planCall EXCEPT ![c] = request]

Reply(c) == planCall' = [planCall EXCEPT ![c] = NoPlanCall]

\* Mutant of FollowsAll: the numbers of discarded waves are given again.
FollowsLive(n) ==
    LET live == {w \in Waves : wave[w].status # "discarded"}
    IN  /\ \A w \in live : wave[w].number < n
        /\ n = 1 \/ \E w \in live : n = wave[w].number + 1

\* next_wave_number.
FollowsAll(n) == /\ \A w \in Waves : wave[w].number < n
                 /\ n = 1 \/ \E w \in Waves : n = wave[w].number + 1

\* Mutant of ReadsNoDraft: a draft without a plan does not count.
ReadsNoDraftPlan == \A w \in Drafts : plans[w] = <<>>

ReadsNoDraft == Drafts = {}

\* The specs are all unassigned ones, or approved ones given by name; the
\* code does not ask whether named ones belong to a wave.
Chosen ==
    {Unassigned} \cup SUBSET {i \in Approved : \E n \in Name : i \in Named(n)}

BeginGenerate(c) ==
    /\ "generate" \in PlanOps
    /\ ReadsNoDraft
    /\ \E S \in Chosen \ {{}}, n \in 1 .. MaxWaves, twice \in BOOLEAN :
           /\ twice => "twice" \in PlanFaults
           /\ \A i \in S : file[spec[i].name]
           /\ FollowsAll(n)
           /\ Ask(c, [op |-> "generate", wave |-> 1, number |-> n, specs |-> S,
                      twice |-> twice])
    /\ UNCHANGED <<wave, link, plans, stream>>

StartStream(w, specs) ==
    \E s \in Stream :
        /\ stream[s].pc = "free"
        /\ stream' = [stream EXCEPT ![s] =
                         [pc |-> "asked", wave |-> w, specs |-> specs]]

\* The wave is opened before its specs are linked and the prompt is built:
\* what fails then leaves a draft wave without a stream.  A name that was
\* given twice cannot be linked twice; those before it are linked.
FinishGenerate(c) ==
    LET k == planCall[c]
    IN  /\ k.op = "generate"
        /\ \E w \in NextWave :
               /\ wave' = [wave EXCEPT ![w] =
                              [status |-> "in_progress", number |-> k.number,
                               claude |-> FALSE]]
               /\ \/ /\ ~k.twice
                     /\ link' = link \cup ({w} \X k.specs)
                     /\ \/ StartStream(w, k.specs)
                        \/ "prompt" \in PlanFaults /\ UNCHANGED stream
                  \/ /\ k.twice
                     /\ \E S \in SUBSET k.specs \ {{}} :
                            link' = link \cup ({w} \X S)
                     /\ UNCHANGED stream
        /\ Reply(c)
        /\ UNCHANGED plans

\* Mutant of MayFollow: plan.approve does not look at the status.
MayFollowAnyhow(op, w) ==
    \/ op = "feedback" /\ w \in Drafts /\ wave[w].claude
    \/ op = "approve" /\ w \in Waves
    \/ /\ op = "discard"
       /\ w \in Waves /\ wave[w].status # "discarded"
       /\ \A k \in DOMAIN plans[w] : plans[w][k].work # "busy"

\* What plan.feedback, plan.approve and plan.discard ask of their wave.
MayFollow(op, w) ==
    \/ op = "feedback" /\ w \in Drafts /\ wave[w].claude
    \/ op = "approve" /\ w \in Drafts
    \/ /\ op = "discard"
       /\ w \in Waves /\ wave[w].status # "discarded"
       /\ \A k \in DOMAIN plans[w] : plans[w][k].work # "busy"

BeginPlanCommand(c, op) ==
    /\ \E w \in WaveId :
           /\ MayFollow(op, w)
           /\ Ask(c, [NoPlanCall EXCEPT !.op = op, !.wave = w])
    /\ UNCHANGED <<wave, link, plans, stream>>

\* The plan goes; its specs become approved, whatever they are now.
SpecsFreed(w) ==
    spec' = [i \in SpecId |->
                IF i \in SpecsOf(w) THEN [spec[i] EXCEPT !.status = "approved"]
                ELSE spec[i]]

PlanDeleted(w) == plans' = [plans EXCEPT ![w] = <<>>]

FinishFeedback(c) ==
    LET w == planCall[c].wave
    IN  /\ planCall[c].op = "feedback"
        /\ PlanDeleted(w)
        /\ SpecsFreed(w)
        /\ StartStream(w, SpecsOf(w))
        /\ Reply(c)
        /\ UNCHANGED <<wave, link>>

FinishApprove(c) ==
    /\ planCall[c].op = "approve"
    /\ wave' = [wave EXCEPT ![planCall[c].wave].status = "approved"]
    /\ Reply(c)
    /\ UNCHANGED <<link, plans, stream>>

FinishDiscard(c) ==
    LET w == planCall[c].wave
    IN  /\ planCall[c].op = "discard"
        /\ PlanDeleted(w)
        /\ SpecsFreed(w)
        /\ wave' = [wave EXCEPT ![w].status = "discarded"]
        /\ Reply(c)
        /\ UNCHANGED <<link, stream>>

---------------------------------------------------------------------------
(* Streams. *)

StreamFailsToSpawn(s) ==
    /\ "spawn" \in PlanFaults
    /\ stream[s].pc = "asked"
    /\ stream' = [stream EXCEPT ![s] = FreeStream]
    /\ UNCHANGED <<wave, link, plans>>

StreamSpawns(s) ==
    /\ stream[s].pc = "asked"
    /\ stream' = [stream EXCEPT ![s].pc = "talking"]
    /\ UNCHANGED <<wave, link, plans>>

\* The output ends: the session id is stored, if there was one, and the
\* result is parsed, if there is one.
StreamEnds(s) ==
    /\ stream[s].pc = "talking"
    /\ \/ wave' = [wave EXCEPT ![stream[s].wave].claude = TRUE]
       \/ "no_plan" \in PlanFaults /\ UNCHANGED wave
    /\ \/ stream' = [stream EXCEPT ![s].pc = "answered"]
       \/ /\ "no_plan" \in PlanFaults
          /\ stream' = [stream EXCEPT ![s] = FreeStream]
    /\ UNCHANGED <<link, plans>>

Insert(w, whole) ==
    plans' = [plans EXCEPT ![w] = Append(@, [whole |-> whole, work |-> "new"])]

\* The items are inserted one by one; an unknown dependency or a cycle is
\* noticed last and leaves them where they are.
InsertPlan(s) ==
    LET w == stream[s].wave
    IN  /\ stream[s].pc = "answered"
        /\ Len(plans[w]) < MaxPlans
        /\ \/ /\ Insert(w, TRUE)
              /\ stream' = [stream EXCEPT ![s].pc = "stored"]
           \/ /\ "bad_plan" \in PlanFaults
              /\ Insert(w, FALSE)
              /\ stream' = [stream EXCEPT ![s] = FreeStream]
        /\ UNCHANGED <<wave, link>>

\* The specs become decomposed, whatever they are now.
MarkSpecs(s) ==
    /\ stream[s].pc = "stored"
    /\ spec' = [i \in SpecId |->
                   IF i \in stream[s].specs
                   THEN [spec[i] EXCEPT !.status = "decomposed"]
                   ELSE spec[i]]
    /\ stream' = [stream EXCEPT ![s] = FreeStream]
    /\ UNCHANGED <<wave, link, plans>>

---------------------------------------------------------------------------
(* What the scheduler and the exec.* commands do to the plans; the details *)
(* are those of Execution.                                                 *)

SetWork(w, k, work) == plans' = [plans EXCEPT ![w][k].work = work]

Execute(w) ==
    /\ \E k \in DOMAIN plans[w] :
           \/ /\ wave[w].status = "approved"
              /\ plans[w][k].work # "busy"
              /\ SetWork(w, k, "busy")
           \/ /\ plans[w][k].work = "busy"
              /\ SetWork(w, k, "paused")
    /\ UNCHANGED <<wave, link, stream, specVars, planCall>>

\* The daemon dies and starts again.
Restart ==
    /\ RestartSpecs
    /\ stream' = [s \in Stream |-> FreeStream]
    /\ planCall' = [c \in Client |-> NoPlanCall]
    /\ UNCHANGED <<wave, link, plans>>

---------------------------------------------------------------------------
PlanCommand(c) ==
    \/ /\ Idle(c)
       /\ \/ BeginGenerate(c)
          \/ \E op \in PlanOps \ {"generate"} : BeginPlanCommand(c, op)
       /\ UNCHANGED specVars
    \/ FinishGenerate(c) /\ UNCHANGED specVars
    \/ FinishFeedback(c) /\ UNCHANGED <<file, turn, call>>
    \/ FinishApprove(c) /\ UNCHANGED specVars
    \/ FinishDiscard(c) /\ UNCHANGED <<file, turn, call>>

StreamStep(s) ==
    /\ \/ /\ StreamFailsToSpawn(s) \/ StreamSpawns(s) \/ StreamEnds(s)
             \/ InsertPlan(s)
          /\ UNCHANGED specVars
       \/ MarkSpecs(s) /\ UNCHANGED <<file, turn, call>>
    /\ UNCHANGED planCall

SpecStep ==
    /\ \/ \E c \in Client : planCall[c].op = "none" /\ SpecCommand(c)
       \/ \E t \in Turn : TurnStep(t)
    /\ UNCHANGED planVars

Next ==
    \/ SpecStep
    \/ \E c \in Client : PlanCommand(c)
    \/ \E s \in Stream : StreamStep(s)
    \/ \E w \in WaveId : Execute(w)
    \/ Restart

Spec == Init /\ [][Next]_vars

---------------------------------------------------------------------------
(* Properties. *)

\* The plan.generate commands between their reads and their writes.
Generating == {c \in Client : planCall[c].op = "generate"}

\* plan.generate looks for a draft wave before it opens another, and for the
\* numbers that are taken.  Nothing keeps two of them apart, so that there may be
\* as many drafts, and as many waves of one number, as there were commands at a
\* time; but no more, whatever failed, died or was discarded in between.
DraftsPerClient ==
    Cardinality(Drafts) + Cardinality(Generating) <= Cardinality(Client)

\* The W<n>- prefix of the story ids, their branches and their logs depend on it.
NumbersPerClient ==
    \A n \in 1 .. MaxWaves :
        Cardinality({w \in Waves : wave[w].number = n})
            + Cardinality({c \in Generating : planCall[c].number = n})
            <= Cardinality(Client)

\* The two above are inductive, with the waves that commands have read.
WavesInv ==
    /\ DraftsPerClient
    /\ NumbersPerClient
    /\ \A c \in Client :
          planCall[c].op \in {"approve", "discard"} => planCall[c].wave \in Waves

\* A wave that is discarded and that no plan.approve has read before.
Buried(w) ==
    /\ wave[w].status = "discarded"
    /\ ~ \E c \in Client : planCall[c].op = "approve" /\ planCall[c].wave = w

\* A discarded wave stays out of the scheduler's sight, whatever streams and
\* commands of any number of clients that knew it before still write, unless a
\* plan.approve had read it as a draft.
DiscardedIsFinal == [][\A w \in WaveId : Buried(w) => Buried(w)']_vars

\* The lifecycle of a spec that no wave has had.
Lifecycle ==
    {<<"absent", "draft">>, <<"draft", "approved">>, <<"approved", "draft">>,
     <<"draft", "deleted">>, <<"approved", "deleted">>}

\* A spec that belongs to no wave is approved, reopened and deleted by its
\* author only; neither the turns nor the streams and commands of other specs
\* move it, and a deleted one stays deleted.
LooseSpecsFollowLifecycle ==
    [][\A i \in SpecId \ Linked :
          \/ spec'[i].status = spec[i].status
          \/ <<spec[i].status, spec'[i].status>> \in Lifecycle]_vars

\* What the property above rests on: a stream writes to specs of waves only,
\* and what a spec command has read of a spec outside all waves is still its
\* status.  It is inductive if there is one client.
LooseInv ==
    /\ \A s \in Stream : stream[s].specs \subseteq Linked
    /\ \A c \in Client :
           call[c].op \in {"approve", "reopen", "deactivate", "delete"} =>
               \/ call[c].spec \in Linked
               \/ spec[call[c].spec].status = call[c].seen.status

\* Where nothing fails, a session that is active can go on: a turn is under
\* way, or there is a session id with which the user's answer resumes it.
ActiveCanContinue ==
    \A i \in Present : spec[i].active => InTurn(i) \/ spec[i].claude
=============================================================================

------------------------- MODULE DocumentedPlanning -------------------------
(***************************************************************************)
(* What the documentation and the comments of nflow say of the SPECIFY and *)
(* PLAN phases, where the code does something else.                        *)
(***************************************************************************)
EXTENDS Planning

Live(w) == wave[w].status \in {"in_progress", "approved"}

\* docs/phases.md:369: only one draft wave at a time.  Two plan.generate commands
\* that overlap open two.
OneDraftWave == \A v, w \in Drafts : v = w

\* docs/data-model.md:182: a unique index over the project and the wave number.
\* There is no such index, and commands that overlap give two waves one number.
WaveNumbersAreDistinct ==
    \A v, w \in Waves : wave[v].number = wave[w].number => v = w

\* docs/cli.md:259: after a discard, the specs of the wave are unassigned and
\* can be included in a new plan.generate.
FreedSpecsAreUnassigned ==
    \A i \in Approved :
        (\A w \in WaveId : <<w, i>> \in link => wave[w].status = "discarded")
            => i \in Unassigned

\* docs/daemon.md:230: plan.discard, which checks for stories in progress and
\* then deletes the work items, cannot race with the scheduler.
DiscardSparesWork ==
    [][\A w \in WaveId :
          (\E k \in DOMAIN plans[w] : plans[w][k].work = "busy")
              => plans'[w] # <<>>]_vars

\* docs/phases.md:371: plan.generate fails if all approved specs already
\* belong to a wave.
SpecInOneWave ==
    \A v, w \in WaveId, i \in SpecId :
        /\ Live(v) /\ <<v, i>> \in link
        /\ Live(w) /\ <<w, i>> \in link
        => v = w

\* docs/data-model.md:38: a spec is decomposed when a plan was generated from
\* it, and approved again when that plan is discarded.
DecomposedHasPlan ==
    \A i \in Present : spec[i].status = "decomposed" =>
        \E w \in WaveId : <<w, i>> \in link /\ Live(w)

\* nflow-core/src/spec.rs:115 and docs/data-model.md:39: deletion is final.
DeletedIsFinal ==
    [][\A i \in SpecId :
          spec[i].status = "deleted" => spec'[i].status = "deleted"]_vars

\* docs/phases.md:329: feedback deletes all work items of the wave before
\* Claude is asked again, so a wave never holds two plans.
OnePlanPerWave == \A w \in WaveId : Len(plans[w]) <= 1

\* docs/phases.md:57: only one spec session can be active per project.
OneActiveSession ==
    \A i, j \in Present : spec[i].active /\ spec[j].active => i = j

\* docs/cli.md:135 and 148: a session ends when its spec is approved or
\* deleted.
OnlyDraftsTalk == \A i \in Present : spec[i].active => spec[i].status = "draft"

\* handlers.rs:740: a turn that produced no session id does not clobber the
\* one of a previous turn.
SessionIdIsKept ==
    [][\A i \in SpecId : spec[i].claude => spec'[i].claude]_vars
=============================================================================

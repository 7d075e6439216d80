--------------------------- MODULE PlanningSession ---------------------------
(***************************************************************************)
(* A caller that plans under guards while the world moves: it derives      *)
(* facts, plans on them, compiles the precheck of its plan, persists the   *)
(* trace of its decision; between any two of these the clock ticks, new    *)
(* observations open a new epoch, a commit elsewhere opens a new           *)
(* generation of the resource, and the operator declares it again with     *)
(* other guards.                                                           *)
(*                                                                         *)
(* A case of Cases is [declarations, evaluators, bindings, constraints,    *)
(* target, seen]: the guarded resources the operator declares in turn, all *)
(* of one identity, the predicates the runtime derives, the predicate that *)
(* stands for each invariant, the weighted constraints recorded with a     *)
(* decision, what the planner is asked for, and the first snapshots of     *)
(* observations.  A session compiles the precheck of one plan or persists   *)
(* one trace.                                                              *)
(***************************************************************************)
EXTENDS GuardedPlanning

CONSTANTS
  Cases, Answers,  \* what the numeric planner may answer
  Samples,         \* an observation as [value, ahead, valid]
  MaxClock, MaxEpoch, MaxGeneration

ASSUME SessionAssumption == {MaxClock, MaxEpoch, MaxGeneration} \subseteq Nat

VARIABLES
  case, resource,  \* the declaration in force
  clock, observed, epoch, generation,
  facts,           \* the snapshot the caller holds, or None
  decision,        \* its last decision, or None
  compiled,        \* the precheck compiled for it, or None
  kept             \* the trace persisted of it, or None
world == <<clock, observed, epoch, generation>>
held == <<facts, decision, compiled, kept>>
vars == <<case, resource, world, held>>

Signals(c) == {c.evaluators[i].signal : i \in DOMAIN c.evaluators}
Declarable(r) == Bindable(r, r.guards)

Init ==
  /\ case \in {c \in Cases : \A r \in c.declarations : Declarable(r)}
  /\ resource \in case.declarations
  /\ clock = 0 /\ epoch = 0 /\ generation = 0
  /\ observed \in case.seen
  /\ facts = None /\ decision = None /\ compiled = None /\ kept = None

freshness == [epoch |-> epoch, generation |-> [r \in {resource.id} |-> generation]]
context == PlanningContext(observed)
PlanOf(d) == [resource |-> d.resource, context |-> d.context, outcome |-> d.outcome]

-----------------------------------------------------------------------------
(* The world. *)

Tick ==
  /\ clock < MaxClock
  /\ clock' = clock + 1
  /\ UNCHANGED <<case, resource, observed, epoch, generation, held>>

(* A new snapshot differs in one signal; the provider's clock may run      *)
(* ahead of the caller's.                                                  *)
NewObservation(s, sample) ==
  /\ epoch < MaxEpoch
  /\ epoch' = epoch + 1
  /\ observed' = [observed EXCEPT ![s] = [value |-> sample.value, valid |-> sample.valid,
                                          at |-> clock + sample.ahead]]
  /\ UNCHANGED <<case, resource, clock, generation, held>>

Commit ==
  /\ generation < MaxGeneration
  /\ generation' = generation + 1
  /\ UNCHANGED <<case, resource, clock, observed, epoch, held>>

Declare(r) ==
  /\ r # resource
  /\ resource' = r
  /\ UNCHANGED <<case, world, held>>

-----------------------------------------------------------------------------
(* The caller.  A call that is refused changes nothing. *)

Derive(bound) ==
  LET binding == IF bound THEN [resource |-> resource.id, generation |-> generation] ELSE None
      derived == DeriveFacts(case.evaluators, epoch, binding, context, observed, clock)
  IN /\ derived.error = "none"
     /\ facts' = derived
     /\ UNCHANGED <<case, resource, world, decision, compiled, kept>>

Plan(answer) ==
  /\ facts # None
  /\ LET d == ProposeTransition(resource, case.target, context, facts, freshness, answer)
     IN d.error = "none" /\ decision' = d
  /\ UNCHANGED <<case, resource, world, facts, compiled, kept>>

CompileChecks ==
  /\ decision # None /\ compiled = None /\ kept = None
  /\ LET c == CompilePrecheck(PlanOf(decision), case.bindings)
     IN c.error = "none" /\ compiled' = c
  /\ UNCHANGED <<case, resource, world, facts, decision, kept>>

Persist ==
  /\ facts # None /\ decision # None /\ kept = None /\ compiled = None
  /\ LET g == CaptureGuardedTrace(resource, context, facts, freshness, decision, case.bindings)
     IN /\ g.error = "none"
        /\ kept' = [guarded |-> g, constraints |-> ConstraintTraces(case.constraints, facts)]
  /\ UNCHANGED <<case, resource, world, facts, decision, compiled>>

Next ==
  \/ Tick \/ Commit
  \/ \E s \in Signals(case), sample \in Samples : NewObservation(s, sample)
  \/ \E r \in case.declarations : Declare(r)
  \/ \E bound \in BOOLEAN : Derive(bound)
  \/ \E answer \in Answers : Plan(answer)
  \/ CompileChecks \/ Persist
Spec == Init /\ [][Next]_vars

-----------------------------------------------------------------------------
(* What the current observations say, read afresh at the time the facts    *)
(* were derived.                                                           *)
Rederived == FactsOf(case.evaluators, context, observed, facts.at)
Completions(f, keys) ==
  {g \in [keys -> {"T", "F"}] :
     \A k \in keys : k \in DOMAIN f /\ f[k] # "U" => g[k] = f[k]}
TrulyEligible(t) ==
  /\ Grounded(resource, t)
  /\ \A i \in DOMAIN resource.guards :
       LET g == resource.guards[i]
       IN AppliesTo(g.scope, t) =>
            \A f \in Completions(Rederived, Range(g.keys)) : EvaluateGuard(g, f) = "T"

(* Facts may be held while observations, generation and guards change.     *)
(* Whatever the planner answers, a plan on them carries a candidate only   *)
(* when the resource as now declared has it, its capability is there, the  *)
(* target asks for it and its guards hold on the current observations,     *)
(* whatever is still unknown; and such an answer is not dropped.           *)
PlanIsJustified ==
  facts # None =>
    \A answer \in Answers :
      LET d == ProposeTransition(resource, case.target, context, facts, freshness, answer)
          c == answer.candidate
          sound == /\ answer.kind = "Candidate" /\ c.grounded /\ Accepts(case.target, c)
                   /\ \E t \in Range(resource.transitions) :
                        SameTransition(t, c) /\ TrulyEligible(t)
      IN d.error = "none" =>
           /\ d.outcome.kind = "Candidate" => d.outcome = answer /\ sound
           /\ sound => d.outcome = answer
           /\ d.outcome.kind = "NoCandidate" /\ answer.kind = "Candidate" =>
                \E t \in Range(resource.transitions) :
                  Accepts(case.target, t) /\ ~TrulyEligible(t)

(* Analysed once for each declaration, with no facts at all. *)
Analysed ==
  [c \in Cases |-> [r \in c.declarations |-> AnalyzeResourcePolicy(r, c.bindings)]]
ImpliedIn(reports, t) ==
  UNION {{inv \in DOMAIN report.invariants : report.invariants[inv] = "ImpliedForEligibility"} :
           report \in {q \in Range(reports) : SameTransition(q.transition, t)}}
Implied(t) == ImpliedIn(Analysed[case][resource].transitions, t)

(* The precheck of the decision on whatever facts are held by then: it     *)
(* passes only when every invariant that applies is bound to a predicate   *)
(* the current observations make true; the compiled form, if it was        *)
(* compiled for this plan and not for an earlier one, answers the same;    *)
(* and an invariant the analysis found implied never stops a plan that is  *)
(* made and checked on the same facts.                                     *)
PrecheckIsSound ==
  facts # None /\ decision # None =>
    LET plan == PlanOf(decision)
        report == PrecheckPlan(plan, case.bindings, facts, freshness)
        current == Rederived
        fast == EvaluatePrecheck(compiled, plan, facts, freshness)
    IN /\ report.error = "none" /\ report.status = "Passed" =>
            \A inv \in InvariantsOf(plan) :
              inv \in DOMAIN case.bindings /\ case.bindings[inv] \in DOMAIN current
                /\ current[case.bindings[inv]] = "T"
       /\ compiled # None /\ fast.error # "PlanChanged" => fast = report
       /\ (/\ report.error = "none" /\ decision.outcome.kind = "Candidate"
           /\ decision.facts = facts /\ decision.resource = resource) =>
            \A inv \in Implied(decision.outcome.candidate) : report.entries[inv] = "T"

(* A decision rests on what is true now, and so does its precheck          *)
(* (guard_planner.rs, fact_derivation.rs, invariant_precheck.rs).          *)
PlanIsSound == PlanIsJustified /\ PrecheckIsSound

(* Nothing a persisted trace rests on may have changed when it is used.    *)
ReplayStands ==
  kept # None =>
    LET g == kept.guarded
        again == CaptureDecisionTrace(resource, facts, freshness, g.trace.selected)
        sameFacts == ReplaysTrace(g.trace, resource, facts, freshness)
    IN /\ DecodesTrace(g.trace)
       /\ \A i \in DOMAIN kept.constraints : DecodesConstraint(kept.constraints[i])
       /\ facts # None /\ sameFacts =>
            /\ again = g.trace
            /\ g.trace.epoch = epoch /\ g.trace.generation = generation
            /\ Rederived = facts.truth
            /\ g.trace.selected # None => TrulyEligible(g.trace.selected)
            /\ ReplaysConstrained(g.trace, kept.constraints, resource, case.constraints,
                                  facts, freshness)
            /\ ReplaysGuarded(g, resource, context, facts, freshness)
            /\ g.precheck = PrecheckPlan([resource |-> resource, context |-> context,
                                          outcome |-> g.outcome], case.bindings, facts, freshness)

(* Two traces differ exactly where the difference says: none is reported   *)
(* only between equal traces, a change of guards is never reported as one  *)
(* of facts alone, and swapping the two reports the same places.           *)
DiffIsExact ==
  kept # None /\ facts # None =>
    \A answer \in {a \in Answers : a.kind = "Candidate"} \cup {Stopping("NoCandidate")} :
      LET old == kept.guarded.trace
          new == CaptureDecisionTrace(resource, facts, freshness, Selected(answer))
          changes == Diff(old, new)
      IN new.error = "none" =>
           /\ changes = {} <=> old = new
           /\ (\E c \in changes : c.kind = "Policy") <=> old.policy # new.policy
           /\ changes = Diff(new, old)

(* A persisted trace is one the decoder accepts.  It is replayed only      *)
(* while nothing it depends on has changed - not the guards, the epoch,    *)
(* the generation, nor any derived fact, though they may have been derived *)
(* again later - and then planning again classifies every transition as    *)
(* the trace does, its selection is eligible still, and its constraints    *)
(* read the same; and what changed between two traces is told exactly.     *)
TraceStands == ReplayStands /\ DiffIsExact
=============================================================================

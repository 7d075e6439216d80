--------------------------- MODULE GuardedPlanning ---------------------------
(***************************************************************************)
(* Planning under guards at run time: the transitions that the facts leave *)
(* eligible are the only ones a planner may choose among, and the          *)
(* invariants of the chosen one are checked on the same facts before       *)
(* anything is validated.                                                  *)
(* The record kept of a decision says which facts it was made on, how each *)
(* transition was classified, what was selected or why nothing was.  Such  *)
(* a trace is persisted, decoded with every redundancy in it checked       *)
(* again, compared with another one, and replayed: accepted only for the   *)
(* declaration and the facts it was made on.  A fingerprint is modelled by *)
(* what it digests.                                                        *)
(***************************************************************************)
EXTENDS PolicyAnalysis, Facts

CONSTANT MaxCompiled   \* MAX_COMPILED_INVARIANTS

ASSUME CompiledAssumption == MaxCompiled \in Nat

-----------------------------------------------------------------------------
(* Pruning: each declared transition with what its guards say of it. *)

View(resource, t, facts) ==
  LET gs == Applicable(resource, t)
      value(g) == EvaluateGuard(g, facts.truth)
      failed == {i \in DOMAIN gs : value(gs[i]) = "F"}
      undecided == SelectSeq(gs, LAMBDA g : value(g) = "U")
      class == EvaluateTransition(resource, t, facts.truth)
  IN [class |-> class, transition |-> t, grounded |-> Grounded(resource, t),
      failedScope |-> IF class = "Rejected" THEN gs[Min(failed)].scope ELSE None,
      unknownScopes |-> IF class = "Unknown"
                        THEN [i \in DOMAIN undecided |-> undecided[i].scope] ELSE <<>>]
PruneCandidates(resource, facts) ==
  [i \in DOMAIN resource.transitions |-> View(resource, resource.transitions[i], facts)]
Classified(report, class) == SelectSeq(report, LAMBDA v : v.class = class)

Prune(resource, facts, freshness) ==
  IF facts.binding # None /\ facts.binding.resource # resource.id
  THEN Failed("ResourceBindingMismatch")
  ELSE IF ValidateFreshness(facts, freshness) # "none"
  THEN Failed(ValidateFreshness(facts, freshness))
  ELSE [error |-> "none", views |-> PruneCandidates(resource, facts)]

-----------------------------------------------------------------------------
(* Planning. *)

SameTransition(a, b) == a.mechanism = b.mechanism /\ a.dimension = b.dimension

IsDeclaredIn(c, resource) ==
  /\ c.grounded
  /\ \E i \in DOMAIN resource.transitions :
       /\ SameTransition(resource.transitions[i], c)
       /\ Grounded(resource, resource.transitions[i])

(* `target` is <<"any">> or <<"transition", mechanism, dimension>>. *)
Accepts(target, c) ==
  target[1] = "any" \/ (c.mechanism = target[2] /\ c.dimension = target[3])

(* An outcome reached without asking the planner, or None. *)
PreplanningBlock(resource, report, target) ==
  LET accepted == SelectSeq(report, LAMBDA v : Accepts(target, v.transition))
  IN IF accepted = <<>> THEN Stopping("Unsupported")
     ELSE IF Classified(accepted, "Eligible") # <<>> THEN None
     ELSE IF Classified(accepted, "Unknown") # <<>> THEN Stopping("InsufficientEvidence")
     ELSE Stopping("NoCandidate")

(* The resource as the planner sees it. *)
RestrictToEligible(resource, report, target) ==
  LET kept == SelectSeq(report, LAMBDA v : v.class = "Eligible" /\ Accepts(target, v.transition))
      transitions == [i \in DOMAIN kept |-> kept[i].transition]
  IN [resource EXCEPT !.transitions = transitions,
        !.capabilities = {c \in @ : \E i \in DOMAIN transitions :
                            c = <<transitions[i].mechanism, transitions[i].dimension>>}]

(* A planner may return anything; a candidate passes only when the view it *)
(* was given declares it.                                                  *)
FilterPlannerOutcome(outcome, resource, view, report, target) ==
  IF outcome.kind # "Candidate" THEN outcome
  ELSE IF ~IsDeclaredIn(outcome.candidate, resource) \/ ~Accepts(target, outcome.candidate)
  THEN Stopping("Unsupported")
  ELSE IF IsDeclaredIn(outcome.candidate, view) THEN outcome
  ELSE IF \E i \in DOMAIN report :
            report[i].class = "Unknown" /\ SameTransition(report[i].transition, outcome.candidate)
  THEN Stopping("InsufficientEvidence")
  ELSE Stopping("NoCandidate")

(* `inner` is what the numeric planner answers when it is asked. *)
Decided(resource, target, context, facts, inner, report) ==
  LET blocked == PreplanningBlock(resource, report, target)
      view == RestrictToEligible(resource, report, target)
  IN [error |-> "none", report |-> report, context |-> context, facts |-> facts,
      resource |-> resource,
      outcome |-> IF blocked # None THEN blocked
                  ELSE FilterPlannerOutcome(inner, resource, view, report, target)]
ProposeAfter(pruned, resource, target, context, facts, inner) ==
  IF pruned.error # "none" THEN pruned
  ELSE Decided(resource, target, context, facts, inner, pruned.views)
ProposeTransition(resource, target, context, facts, freshness, inner) ==
  ProposeAfter(Prune(resource, facts, freshness), resource, target, context, facts, inner)

-----------------------------------------------------------------------------
(* The invariants of a plan, checked on the facts before the trusted       *)
(* validation: interpreted, or compiled once to two masks.  A plan is      *)
(* [resource, context, outcome].                                           *)

ValidateFactSnapshot(plan, facts, freshness) ==
  IF facts.binding = None THEN "MissingResourceBinding"
  ELSE IF facts.binding.resource # plan.resource.id THEN "ResourceBindingMismatch"
  ELSE ValidateFreshness(facts, freshness)

Report(status, entries) == [error |-> "none", status |-> status, entries |-> entries]
EntryTruth(inv, bindings, facts) ==
  IF inv \in DOMAIN bindings THEN FactTruth(facts, bindings[inv]) ELSE "U"
InvariantsOf(plan) ==
  {inv \in plan.resource.invariants : InvariantApplies(inv, plan.outcome.candidate)}

PrecheckPlan(plan, bindings, facts, freshness) ==
  IF plan.outcome.kind # "Candidate" THEN Report("NoCandidate", <<>>)
  ELSE IF ~IsDeclaredIn(plan.outcome.candidate, plan.resource)
  THEN Report("InvalidCandidate", <<>>)
  ELSE IF ValidateFactSnapshot(plan, facts, freshness) # "none"
  THEN Failed(ValidateFactSnapshot(plan, facts, freshness))
  ELSE LET entries == [inv \in InvariantsOf(plan) |-> EntryTruth(inv, bindings, facts)]
           values == {entries[inv] : inv \in DOMAIN entries}
       IN Report(CASE "F" \in values -> "Rejected"
                   [] "F" \notin values /\ "U" \in values -> "InsufficientEvidence"
                   [] OTHER -> "Passed", entries)

CompilePrecheck(plan, bindings) ==
  IF plan.outcome.kind # "Candidate" THEN Failed("NoCandidate")
  ELSE IF ~IsDeclaredIn(plan.outcome.candidate, plan.resource) THEN Failed("InvalidCandidate")
  ELSE LET slots == SetToSeq(InvariantsOf(plan))
       IN IF Len(slots) > MaxCompiled THEN Failed("TooManyApplicableInvariants")
          ELSE [error |-> "none", plan |-> plan, slots |-> slots, bindings |-> bindings,
                required |-> {i - 1 : i \in DOMAIN slots}]

MaskStatus(required, values) ==
  CASE values.no \cap required # {} -> "Rejected"
    [] required \subseteq values.yes -> "Passed"
    [] OTHER -> "InsufficientEvidence"
\* mutant: evaluated for a plan it was not compiled for
EvaluateAnyPlan(compiled, plan, facts, freshness) ==
  IF ValidateFactSnapshot(plan, facts, freshness) # "none"
  THEN Failed(ValidateFactSnapshot(plan, facts, freshness))
  ELSE LET truth(i) == EntryTruth(compiled.slots[i + 1], compiled.bindings, facts)
           values == [yes |-> {i \in compiled.required : truth(i) = "T"},
                      no |-> {i \in compiled.required : truth(i) = "F"}]
       IN Report(MaskStatus(compiled.required, values),
                 [inv \in Range(compiled.slots) |->
                    Get(values, CHOOSE i \in compiled.required : compiled.slots[i + 1] = inv)])
EvaluatePrecheck(compiled, plan, facts, freshness) ==
  IF compiled.plan # plan THEN Failed("PlanChanged")
  ELSE IF ValidateFactSnapshot(plan, facts, freshness) # "none"
  THEN Failed(ValidateFactSnapshot(plan, facts, freshness))
  ELSE LET truth(i) == EntryTruth(compiled.slots[i + 1], compiled.bindings, facts)
           values == [yes |-> {i \in compiled.required : truth(i) = "T"},
                      no |-> {i \in compiled.required : truth(i) = "F"}]
       IN Report(MaskStatus(compiled.required, values),
                 [inv \in Range(compiled.slots) |->
                    Get(values, CHOOSE i \in compiled.required : compiled.slots[i + 1] = inv)])

-----------------------------------------------------------------------------
(* Fingerprints of what a trace is of. *)

PolicyFingerprint(resource) == resource
FactEntries(truth) ==
  LET keys == FromKeys(DOMAIN truth)
  IN [i \in DOMAIN keys |-> <<keys[i], truth[keys[i]]>>]
FactFingerprint(facts) == <<facts.epoch, facts.binding, FactEntries(facts.truth)>>

(* From the entries of a decoded trace. *)
PersistedFactFingerprint(trace) ==
  LET entries == SelectSeq(trace.predicates, LAMBDA p : p.materialized)
  IN <<trace.epoch, [resource |-> trace.resource, generation |-> trace.generation],
       [i \in DOMAIN entries |-> <<entries[i].key, entries[i].truth>>]>>

-----------------------------------------------------------------------------
(* Capture. *)

ValidateTraceInputs(resource, facts, freshness) ==
  CASE ValidateFreshness(facts, freshness) # "none" -> ValidateFreshness(facts, freshness)
    [] facts.binding = None -> "MissingResourceBinding"
    [] facts.binding.resource # resource.id -> "ResourceBindingMismatch"
    [] OTHER -> "none"

Referenced(resource) ==
  UNION {Range(resource.guards[i].keys) : i \in DOMAIN resource.guards}
PredicateEntries(resource, facts) ==
  LET keys == FromKeys(DOMAIN facts.truth \cup Referenced(resource))
  IN [i \in DOMAIN keys |->
        [key |-> keys[i], truth |-> FactTruth(facts, keys[i]),
         materialized |-> keys[i] \in DOMAIN facts.truth,
         referenced |-> keys[i] \in Referenced(resource)]]

Traced(v) ==
  [mechanism |-> v.transition.mechanism, dimension |-> v.transition.dimension,
   grounded |-> v.grounded, magnitude |-> None]
TracedViews(report, class) ==
  LET views == Classified(report, class)
  IN [i \in DOMAIN views |->
        [candidate |-> Traced(views[i]), failedScope |-> views[i].failedScope,
         unknownScopes |-> views[i].unknownScopes]]

StopReason(total, eligible, unknown) ==
  CASE total = 0 -> "NoDeclaredTransitions"
    [] total > 0 /\ eligible # <<>> -> "NumericPlannerNoCandidate"
    [] total > 0 /\ eligible = <<>> /\ unknown # <<>> -> "InsufficientEvidence"
    [] OTHER -> "AllCandidatesRejected"

(* `selected` is a candidate or None. *)
TraceFromReport(resource, facts, report, selected) ==
  LET eligible == TracedViews(report, "Eligible")
      unknown == TracedViews(report, "Unknown")
  IN IF /\ selected # None
        /\ \A i \in DOMAIN eligible : ~SameTransition(eligible[i].candidate, selected)
     THEN Failed("SelectedCandidateNotEligible")
     ELSE [error |-> "none", resource |-> resource.id, policy |-> PolicyFingerprint(resource),
           facts |-> FactFingerprint(facts), epoch |-> facts.epoch,
           generation |-> facts.binding.generation,
           predicates |-> PredicateEntries(resource, facts),
           eligible |-> eligible, rejected |-> TracedViews(report, "Rejected"),
           unknown |-> unknown, selected |-> selected,
           stop |-> IF selected # None THEN None
                    ELSE StopReason(Len(report), eligible, unknown)]
CaptureDecisionTrace(resource, facts, freshness, selected) ==
  IF ValidateTraceInputs(resource, facts, freshness) # "none"
  THEN Failed(ValidateTraceInputs(resource, facts, freshness))
  ELSE TraceFromReport(resource, facts, PruneCandidates(resource, facts), selected)

Selected(outcome) == IF outcome.kind = "Candidate" THEN outcome.candidate ELSE None

(* Of a decision already made: refused unless the declaration, the context *)
(* and the facts are the ones it was made with.                            *)
CaptureGuardedTrace(resource, context, facts, freshness, decision, bindings) ==
  LET trace == TraceFromReport(resource, facts, decision.report, Selected(decision.outcome))
      plan == [resource |-> resource, context |-> context, outcome |-> decision.outcome]
      precheck == PrecheckPlan(plan, bindings, facts, freshness)
  IN CASE ValidateTraceInputs(resource, facts, freshness) # "none" ->
            Failed(ValidateTraceInputs(resource, facts, freshness))
       [] decision.resource # resource -> Failed("PruningReportResourceMismatch")
       [] decision.context # context -> Failed("PlanningContextMismatch")
       [] FactFingerprint(decision.facts) # FactFingerprint(facts) ->
            Failed("PlanningFactSnapshotMismatch")
       [] trace.error # "none" -> trace
       [] precheck.error # "none" -> precheck
       [] OTHER -> [error |-> "none", trace |-> trace, outcome |-> decision.outcome,
                    report |-> decision.report, context |-> context, precheck |-> precheck]

(* A weighted constraint on the same facts; its terms are in key order. *)
ConstraintTrace(declared, facts) ==
  LET keys == FromKeys({declared.terms[i].predicate : i \in DOMAIN declared.terms})
      bound == Bind(declared, keys)
      known == Truths(keys, facts.truth)
      bounds == Bounds(bound, known)
  IN [terms |-> [i \in DOMAIN declared.terms |->
                   LET key == declared.terms[i].predicate
                   IN [key |-> key, weight |-> declared.terms[i].weight,
                       truth |-> FactTruth(facts, key),
                       materialized |-> key \in DOMAIN facts.truth]],
      truth |-> EvaluateConstraint(bound, known), minimum |-> bounds.min,
      maximum |-> bounds.max, relation |-> declared.relation, threshold |-> declared.threshold]
ConstraintTraces(constraints, facts) ==
  [i \in DOMAIN constraints |-> ConstraintTrace(constraints[i], facts)]

-----------------------------------------------------------------------------
(* Decoding a persisted trace. *)

OrderedKeys(entries) == \A i \in 1 .. Len(entries) - 1 : entries[i].key < entries[i + 1].key

DistinctIdentities(entries) ==
  Cardinality({Identity(entries[i].candidate) : i \in DOMAIN entries}) = Len(entries)
PersistedCandidateSets(trace) ==
  LET all == trace.eligible \o trace.rejected \o trace.unknown
  IN /\ \A i \in DOMAIN trace.eligible : trace.eligible[i].candidate.grounded
     /\ DistinctIdentities(all)
     /\ IF trace.selected # None
        THEN /\ trace.selected.grounded /\ trace.stop = None
             /\ \E i \in DOMAIN trace.eligible :
                  SameTransition(trace.eligible[i].candidate, trace.selected)
        ELSE trace.stop = StopReason(Len(all), trace.eligible, trace.unknown)

DecodesTrace(trace) ==
  /\ OrderedKeys(trace.predicates)
  /\ \A i \in DOMAIN trace.predicates :
       ~trace.predicates[i].materialized =>
         trace.predicates[i].truth = "U" /\ trace.predicates[i].referenced
  /\ PersistedFactFingerprint(trace) = trace.facts
  /\ \A i \in DOMAIN trace.rejected :
       AppliesTo(trace.rejected[i].failedScope, trace.rejected[i].candidate)
  /\ \A i \in DOMAIN trace.unknown :
       LET u == trace.unknown[i]
       IN /\ u.candidate.grounded => u.unknownScopes # <<>>
          /\ \A s \in Range(u.unknownScopes) : AppliesTo(s, u.candidate)
  /\ PersistedCandidateSets(trace)

TermBounds(terms) ==
  LET low(t) == CASE t.truth = "T" -> t.weight [] t.truth = "F" -> 0
                  [] OTHER -> Min({t.weight, 0})
      high(t) == CASE t.truth = "T" -> t.weight [] t.truth = "F" -> 0
                   [] OTHER -> Max({t.weight, 0})
  IN [min |-> FoldLeft(LAMBDA s, t : CheckedAdd(s, low(t)), 0, terms),
      max |-> FoldLeft(LAMBDA s, t : CheckedAdd(s, high(t)), 0, terms)]
TruthFromBounds(c) ==
  LET min == c.minimum
      max == c.maximum
      n == c.threshold
  IN CASE c.relation = "le" /\ max <= n -> "T"
       [] c.relation = "le" /\ min > n -> "F"
       [] c.relation = "ge" /\ min >= n -> "T"
       [] c.relation = "ge" /\ max < n -> "F"
       [] c.relation = "eq" /\ min = max /\ min = n -> "T"
       [] c.relation = "eq" /\ (n < min \/ n > max) -> "F"
       [] OTHER -> "U"
DecodesConstraint(c) ==
  /\ Len(c.terms) <= MaxTerms /\ OrderedKeys(c.terms)
  /\ \A i \in DOMAIN c.terms :
       c.terms[i].weight # 0 /\ (~c.terms[i].materialized => c.terms[i].truth = "U")
  /\ c.minimum <= c.maximum
  /\ TermBounds(c.terms) = [min |-> c.minimum, max |-> c.maximum]
  /\ c.truth = TruthFromBounds(c)
  /\ c.truth = "U" => \E i \in DOMAIN c.terms : c.terms[i].truth = "U"

-----------------------------------------------------------------------------
(* Replay. *)

\* mutant: the guards may have been declared again since
ReplaysUnderAnyPolicy(trace, resource, facts, freshness) ==
  /\ ValidateTraceInputs(resource, facts, freshness) = "none"
  /\ trace.resource = resource.id
  /\ trace.facts = FactFingerprint(facts)
ReplaysTrace(trace, resource, facts, freshness) ==
  /\ ValidateTraceInputs(resource, facts, freshness) = "none"
  /\ trace.resource = resource.id
  /\ trace.policy = PolicyFingerprint(resource)
  /\ trace.facts = FactFingerprint(facts)
ReplaysGuarded(g, resource, context, facts, freshness) ==
  /\ ReplaysTrace(g.trace, resource, facts, freshness)
  /\ g.context = context
  /\ g.report = PruneCandidates(resource, facts)
ReplaysConstrained(trace, recorded, resource, constraints, facts, freshness) ==
  /\ ReplaysTrace(trace, resource, facts, freshness)
  /\ recorded = ConstraintTraces(constraints, facts)

-----------------------------------------------------------------------------
(* The difference of two traces: what changed, and of which kind. *)

Change(kind, path, l, r) == IF l = r THEN {} ELSE {[kind |-> kind, path |-> path]}
UnknownOr(kind, values) == IF "U" \in values THEN "Unknown" ELSE kind

DiffPredicates(l, r) ==
  LET entries(t) == [k \in {t.predicates[i].key : i \in DOMAIN t.predicates} |->
                       CHOOSE p \in Range(t.predicates) : p.key = k]
      left == entries(l)
      right == entries(r)
      both == DOMAIN left \cap DOMAIN right
      one == (DOMAIN left \cup DOMAIN right) \ both
  IN UNION {Change(UnknownOr("Fact", {left[k].truth, right[k].truth}), <<"truth", k>>,
                   left[k].truth, right[k].truth)
              \cup Change("Unknown", <<"materialized", k>>,
                          left[k].materialized, right[k].materialized)
              \cup Change("Policy", <<"referenced", k>>, left[k].referenced, right[k].referenced)
            : k \in both}
       \cup {[kind |-> "Unknown", path |-> <<p, k>>] : p \in {"truth", "materialized"}, k \in one}
       \cup {[kind |-> "Policy", path |-> <<"referenced", k>>] : k \in one}

(* A candidate with the class it has in a trace. *)
CandidateViews(t) ==
  LET views(class, entries) == {[class |-> class, view |-> entries[i]] : i \in DOMAIN entries}
      all == views("E", t.eligible) \cup views("R", t.rejected) \cup views("U", t.unknown)
  IN [id \in {Identity(v.view.candidate) : v \in all} |->
        CHOOSE v \in all : Identity(v.view.candidate) = id]
DiffView(id, l, r) ==
  Change(UnknownOr("Candidate", {l.class, r.class}), <<"classification", id>>, l.class, r.class)
    \cup Change(UnknownOr("Candidate", {l.class, r.class}), <<"grounded", id>>,
                l.view.candidate.grounded, r.view.candidate.grounded)
    \cup Change("Candidate", <<"magnitude", id>>,
                l.view.candidate.magnitude, r.view.candidate.magnitude)
    \cup Change("Candidate", <<"failed_scope", id>>, l.view.failedScope, r.view.failedScope)
    \cup Change("Unknown", <<"unknown_scopes", id>>,
                Range(l.view.unknownScopes), Range(r.view.unknownScopes))
DiffCandidates(l, r) ==
  LET left == CandidateViews(l)
      right == CandidateViews(r)
      both == DOMAIN left \cap DOMAIN right
      view(id) == IF id \in DOMAIN left THEN left[id] ELSE right[id]
  IN UNION {DiffView(id, left[id], right[id]) : id \in both}
       \cup {[kind |-> UnknownOr("Candidate", {view(id).class}),
              path |-> <<"classification", id>>] :
               id \in (DOMAIN left \cup DOMAIN right) \ both}

Diff(l, r) ==
  LET stops == {l.stop, r.stop}
  IN Change("Policy", <<"resource">>, l.resource, r.resource)
       \cup Change("Policy", <<"policy">>, l.policy, r.policy)
       \cup Change("Fact", <<"facts">>, l.facts, r.facts)
       \cup Change("Fact", <<"epoch">>, l.epoch, r.epoch)
       \cup Change("Fact", <<"generation">>, l.generation, r.generation)
       \cup DiffPredicates(l, r) \cup DiffCandidates(l, r)
       \cup Change("Candidate", <<"selected">>, l.selected, r.selected)
       \cup Change(IF "InsufficientEvidence" \in stops THEN "Unknown" ELSE "Candidate",
                   <<"stop_reason">>, l.stop, r.stop)

=============================================================================

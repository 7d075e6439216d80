-------------------------------- MODULE Facts --------------------------------
(***************************************************************************)
(* Facts derived from a snapshot of observations (elastic-runtime          *)
(* fact_derivation.rs): what each predicate is worth at a moment, and      *)
(* whether the facts are still those of the epoch and of the generation of *)
(* a resource.  What a planner may answer from them is a candidate or a    *)
(* reason to stop.                                                         *)
(*   observation  [value, at, valid], or None for a signal never seen      *)
(*   evaluator    [key, kind, signal, comparison, threshold, maxAge,       *)
(*                 available]                                              *)
(*   facts        [epoch, binding, at, truth]: `binding` is None or        *)
(*                [resource, generation], `truth` a function of keys       *)
(*   freshness    [epoch, generation]: the current epoch and the current   *)
(*                generation of each resource that has one                 *)
(*   candidate    [mechanism, dimension, grounded, magnitude]              *)
(*   outcome      [kind, candidate]                                        *)
(***************************************************************************)
EXTENDS Integers, Sequences

CONSTANTS
  None,
  MaxFacts       \* MAX_FACTS_PER_SNAPSHOT

ASSUME FactsAssumption == MaxFacts \in Nat

Failed(why) == [error |-> why]

Identity(c) == <<c.mechanism, c.dimension>>
Stopping(kind) == [kind |-> kind, candidate |-> None]
Candidate(c) == [kind |-> "Candidate", candidate |-> c]

-----------------------------------------------------------------------------
(* Deriving facts. *)

(* Only valid observations reach the planning context. *)
PlanningContext(observed) ==
  LET valid == {s \in DOMAIN observed : observed[s] # None /\ observed[s].valid}
  IN [s \in valid |-> observed[s].value]

Compared(comparison, value, threshold) ==
  CASE comparison = "lt" -> value < threshold
    [] comparison = "le" -> value <= threshold
    [] comparison = "gt" -> value > threshold
    [] comparison = "ge" -> value >= threshold
ToTruth(b) == IF b THEN "T" ELSE "F"

(* An observation stamped later than `now` has no age. *)
Aged(o, now) == o # None /\ o.valid /\ o.at <= now

Threshold(ev, context, observed, now) ==
  LET o == observed[ev.signal]
  IN IF ~Aged(o, now) \/ ev.signal \notin DOMAIN context THEN "U"
     ELSE IF now - o.at > ev.maxAge THEN "U"
     ELSE ToTruth(Compared(ev.comparison, context[ev.signal], ev.threshold))
Presence(ev, observed) ==
  IF observed[ev.signal] = None THEN "U" ELSE ToTruth(observed[ev.signal].valid)
Freshness(ev, observed, now) ==
  LET o == observed[ev.signal]
  IN IF ~Aged(o, now) THEN "U" ELSE ToTruth(now - o.at <= ev.maxAge)

PredicateValue(ev, context, observed, now) ==
  CASE ev.kind = "threshold" -> Threshold(ev, context, observed, now)
    [] ev.kind = "presence" -> Presence(ev, observed)
    [] ev.kind = "freshness" -> Freshness(ev, observed, now)
    [] ev.kind = "capability" -> ev.available

FactsOf(evaluators, context, observed, now) ==
  [k \in {evaluators[i].key : i \in DOMAIN evaluators} |->
     PredicateValue(evaluators[CHOOSE i \in DOMAIN evaluators : evaluators[i].key = k],
                    context, observed, now)]
DeriveFacts(evaluators, epoch, binding, context, observed, now) ==
  IF Len(evaluators) > MaxFacts THEN Failed("TooManyFacts")
  ELSE IF \E i, j \in DOMAIN evaluators : i # j /\ evaluators[i].key = evaluators[j].key
  THEN Failed("DuplicatePredicate")
  ELSE [error |-> "none", epoch |-> epoch, binding |-> binding, at |-> now,
        truth |-> FactsOf(evaluators, context, observed, now)]

FactTruth(facts, key) == IF key \in DOMAIN facts.truth THEN facts.truth[key] ELSE "U"

\* mutant: an epoch older than the current one will do
ValidateWithoutEpoch(facts, freshness) ==
  IF facts.binding = None THEN "none"
  ELSE IF facts.binding.resource \notin DOMAIN freshness.generation
  THEN "MissingResourceGeneration"
  ELSE IF facts.binding.generation # freshness.generation[facts.binding.resource]
  THEN "ResourceGenerationMismatch"
  ELSE "none"
(* Stale is what an epoch or a generation says is stale; the age of the    *)
(* snapshot itself is not looked at again.                                 *)
ValidateFreshness(facts, freshness) ==
  IF facts.epoch # freshness.epoch THEN "ObservationEpochMismatch"
  ELSE IF facts.binding = None THEN "none"
  ELSE IF facts.binding.resource \notin DOMAIN freshness.generation
  THEN "MissingResourceGeneration"
  ELSE IF facts.binding.generation # freshness.generation[facts.binding.resource]
  THEN "ResourceGenerationMismatch"
  ELSE "none"

=============================================================================

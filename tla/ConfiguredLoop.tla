--------------------------- MODULE ConfiguredLoop ---------------------------
(***************************************************************************)
(* The loop that is built of a configured resource and its controller:     *)
(* what validation accepts of the two (elastic-runtime operator_config.rs),*)
(* the planners an operator may name (elastic-adapters planners.rs), the   *)
(* controller (configured_controller.rs) and its cycles over the resource  *)
(* while the resource is used.                                             *)
(*                                                                         *)
(* A resource is [id, kind, total, min, max, initial, step]: of a          *)
(* concurrency resource only max and initial are read.  Fractions are      *)
(* counted in Whole-ths, the values of a planning context in Grain-ths; a  *)
(* key or an identifier the code refuses is 0.                             *)
(***************************************************************************)
EXTENDS Facts, SequencesExt

CONSTANTS
  Whole, Grain,
  Resources, Controllers   \* what may be configured

Capacity == 1
Concurrency == 2
Reinterpret == 1

Amounts(r) == {r.total, r.min, r.max, r.initial}
Fractions(p) ==
  CASE p.kind = "first" -> {}
    [] p.kind = "headroom" -> {p.headroom, p.deadband}
    [] p.kind = "threshold" -> {p.low, p.high, p.step}

ASSUME LoopAssumption ==
  /\ Whole \in Nat \ {0} /\ Grain \in Nat \ {0} /\ None \notin Int
  /\ \A r \in Resources : Amounts(r) \subseteq Nat /\ r.kind \in {"ram", "concurrency"}
  /\ \A k \in Controllers :
       /\ k.planner.kind \in {"first", "headroom", "threshold"} /\ Fractions(k.planner) \subseteq Int
       /\ k.forecaster.kind \in {"current", "ewma"}
       /\ k.forecaster.kind = "ewma" => k.forecaster.alpha \in Nat

CeilDiv(a, b) == -((-a) \div b)
AtLeastOne(n) == IF n < 1 THEN 1 ELSE n

-----------------------------------------------------------------------------
(* What validation accepts. *)

ResourceAccepted(r) ==
  /\ r.id # 0
  /\ IF r.kind = "ram"
     THEN 0 < r.min /\ r.min <= r.max /\ r.max <= r.total /\ r.min <= r.initial /\ r.initial <= r.max
     ELSE 0 < r.max /\ 0 < r.initial /\ r.initial <= r.max

HeadroomAccepted(p) == 0 <= p.deadband /\ p.deadband <= p.headroom /\ p.headroom <= Whole
ThresholdAccepted(p) ==
  0 <= p.low /\ p.low <= p.high /\ p.high <= Whole /\ 0 < p.step /\ p.step <= Whole
PlannerAccepted(p) ==
  CASE p.kind = "headroom" -> HeadroomAccepted(p)
    [] p.kind = "threshold" -> ThresholdAccepted(p)
    [] OTHER -> TRUE
ForecasterAccepted(f) == f.kind = "ewma" => 0 < f.alpha /\ f.alpha <= Whole
CadenceAccepted(c) == c.kind = "periodic" => c.interval > 0 /\ c.cycles > 0

Compatible(k, r) ==
  /\ r.kind = "concurrency" => k.planner.kind = "first"
  /\ k.planner.kind = "first" => k.mode \notin {"dry-run", "apply"}

Accepted(r, k) ==
  /\ ResourceAccepted(r)
  /\ PlannerAccepted(k.planner) /\ ForecasterAccepted(k.forecaster) /\ CadenceAccepted(k.cadence)
  /\ Compatible(k, r)

-----------------------------------------------------------------------------
(* Planners. *)

CapacityTransition == [mechanism |-> Reinterpret, dimension |-> Capacity]
WidthTransition == [mechanism |-> Reinterpret, dimension |-> Concurrency]

Offers(t, magnitude) ==
  Candidate([mechanism |-> t.mechanism, dimension |-> t.dimension, grounded |-> TRUE,
             magnitude |-> magnitude])

(* The capacity transition a planner may restate, or why there is none. *)
CapacityAdmission(resource) ==
  LET wanted == Identity(CapacityTransition)
  IN IF \A t \in Range(resource.transitions) : Identity(t) # wanted THEN Stopping("Unsupported")
     ELSE IF wanted \notin resource.capabilities THEN Stopping("InsufficientEvidence")
     ELSE None

ProposeFirst(resource) ==
  LET grounded == SelectSeq(resource.transitions, LAMBDA t : Identity(t) \in resource.capabilities)
  IN IF resource.transitions = <<>> THEN Stopping("Unsupported")
     ELSE IF grounded = <<>> THEN Stopping("InsufficientEvidence")
     ELSE Offers(grounded[1], None)

(* Of a commitment that is not whole the planners read the whole part. *)
Committed(context) == context["committed"] \div Grain

StepTarget(p, committed, grow) ==
  AtLeastOne(CeilDiv(committed * (Whole + IF grow THEN p.step ELSE -p.step), Whole))
ProposeThreshold(p, resource, context) ==
  LET blocked == CapacityAdmission(resource)
  IN IF "utilization" \notin DOMAIN context THEN Stopping("InsufficientEvidence")
     ELSE IF blocked # None THEN blocked
     ELSE IF "committed" \notin DOMAIN context THEN Stopping("InsufficientEvidence")
     ELSE IF context["utilization"] >= p.high * Grain
     THEN Offers(CapacityTransition, StepTarget(p, Committed(context), TRUE))
     ELSE IF context["utilization"] <= p.low * Grain /\ Committed(context) > 1
     THEN Offers(CapacityTransition, StepTarget(p, Committed(context), FALSE))
     ELSE Stopping("NoCandidate")

\* mutant: the gap is taken the wrong way round
ProposeAwayFromHeadroom(p, resource, context) ==
  LET blocked == CapacityAdmission(resource)
      gap == context["total"] * p.headroom - context["free"] * Whole
      target == AtLeastOne(Committed(context) + CeilDiv(gap, Whole * Grain))
  IN IF ~{"free", "committed", "total"} \subseteq DOMAIN context
     THEN Stopping("InsufficientEvidence")
     ELSE IF blocked # None THEN blocked
     ELSE IF gap <= context["total"] * p.deadband /\ -gap <= context["total"] * p.deadband
     THEN Stopping("NoCandidate")
     ELSE Offers(CapacityTransition, target)
ProposeHeadroom(p, resource, context) ==
  LET blocked == CapacityAdmission(resource)
      gap == context["free"] * Whole - context["total"] * p.headroom
      target == AtLeastOne(Committed(context) + CeilDiv(gap, Whole * Grain))
  IN IF ~{"free", "committed", "total"} \subseteq DOMAIN context
     THEN Stopping("InsufficientEvidence")
     ELSE IF blocked # None THEN blocked
     ELSE IF gap <= context["total"] * p.deadband /\ -gap <= context["total"] * p.deadband
     THEN Stopping("NoCandidate")
     ELSE Offers(CapacityTransition, target)

Propose(p, resource, context) ==
  CASE p.kind = "first" -> ProposeFirst(resource)
    [] p.kind = "threshold" -> ProposeThreshold(p, resource, context)
    [] p.kind = "headroom" -> ProposeHeadroom(p, resource, context)

-----------------------------------------------------------------------------
(* What is built.  A resource is kept as what it was configured with, its  *)
(* size - the committed bytes or the width - and how much of it is used.   *)

Declaration(r) ==
  LET t == IF r.kind = "ram" THEN CapacityTransition ELSE WidthTransition
  IN [id |-> r.id, elastic |-> {t.dimension}, transitions |-> <<t>>,
      capabilities |-> {<<t.mechanism, t.dimension>>},
      invariants |-> {[name |-> r.kind, scope |-> {}]}, guards |-> <<>>]

Scaled(context) == [s \in DOMAIN context |-> context[s] * Grain]
\* the fraction of `of` that `n` is
Share(n, of) == (n * Whole) \div of

(* The constructors of the adapters check again what validation checked. *)
NewResource(r) ==
  LET admitted == IF r.kind = "ram"
                  THEN /\ r.min # 0 /\ r.min <= r.max /\ r.max <= r.total
                       /\ r.initial >= r.min /\ r.initial <= r.max
                  ELSE r.initial # 0 /\ r.initial <= r.max
  IN IF admitted THEN [refused |-> FALSE, config |-> r, size |-> r.initial, used |-> 0]
     ELSE [refused |-> TRUE]
LiveContext(live) ==
  LET r == live.config
  IN Scaled(IF r.kind = "ram"
            THEN [free |-> IF live.size < r.total THEN r.total - live.size ELSE 0,
                  utilization |-> Share(live.size, r.total), committed |-> live.size,
                  total |-> r.total, min |-> r.min, max |-> r.max, inUse |-> live.used]
            ELSE [utilization |-> Share(live.used, live.size), capacity |-> r.max,
                  width |-> live.size, active |-> live.used])

(* Guards are refused first: this loop evaluates none. *)
Built(r, k) ==
  LET live == NewResource(r)
  IN IF k.guards # None THEN Failed("GuardsAttached")
     ELSE IF live.refused \/ ~PlannerAccepted(k.planner) \/ ~ForecasterAccepted(k.forecaster)
     THEN Failed("Configuration")
     ELSE [error |-> "none", live |-> live, planner |-> k.planner, mode |-> k.mode,
           dryRun |-> k.mode # "apply", forecaster |-> k.forecaster, smoothed |-> None,
           last |-> None]

(* What the forecaster makes of an observation: the observation itself, or *)
(* each of its signals smoothed with what it was before.                   *)
Forecast(c) ==
  LET now == LiveContext(c.live)
  IN IF c.forecaster.kind = "current" \/ c.smoothed = None THEN now
     ELSE [s \in DOMAIN now |->
             (c.forecaster.alpha * now[s] + (Whole - c.forecaster.alpha) * c.smoothed[s]) \div Whole]

-----------------------------------------------------------------------------
VARIABLE running      \* the controller that runs, or None

LoopInit == running = None

Start(r, k) ==
  /\ running = None
  /\ Accepted(r, k) /\ k.resource = r.id
  /\ Built(r, k).error = "none"
  /\ running' = Built(r, k)

ResizeAdmitted(live, target) ==
  LET r == live.config
  IN IF r.kind = "ram"
     THEN /\ r.min <= target /\ target <= r.max /\ target <= r.total /\ target >= live.used
          /\ r.step # None => target - live.size <= r.step /\ live.size - target <= r.step
     ELSE 0 < target /\ target <= r.max /\ target >= live.used
NextPlan(c) == Propose(c.planner, Declaration(c.live.config), Forecast(c))

(* A cycle: what the planner proposes of the forecast is carried out when   *)
(* it may be applied and the adapter admits it; otherwise the cycle ends    *)
(* without effect, and the forecaster remembers.                            *)
RunCycle ==
  /\ running # None
  /\ LET plan == NextPlan(running)
         target == plan.candidate.magnitude
         applied == /\ plan.kind = "Candidate" /\ ~running.dryRun /\ target # None
                    /\ ResizeAdmitted(running.live, target)
         seen == [running EXCEPT
                    !.smoothed = IF running.forecaster.kind = "ewma" THEN Forecast(running) ELSE None]
     IN running' = IF ~applied THEN seen
                   ELSE [seen EXCEPT !.live.size = target,
                                     !.last = [from |-> running.live.size, to |-> target]]

TakeOne ==
  /\ running # None /\ running.live.used < running.live.size
  /\ running' = [running EXCEPT !.live.used = @ + 1]
GiveOneBack ==
  /\ running # None /\ running.live.used > 0
  /\ running' = [running EXCEPT !.live.used = @ - 1]

LoopNext ==
  \/ \E r \in Resources, k \in Controllers : Start(r, k)
  \/ RunCycle \/ TakeOne \/ GiveOneBack
LoopSpec == LoopInit /\ [][LoopNext]_running

-----------------------------------------------------------------------------
(* A configured loop stays within what was configured and settles: a       *)
(* planner whose proposal was carried out does not turn round at once, and *)
(* the regulator proposes the same size again or nothing at all.  Of a     *)
(* smoothed forecast only the bounds hold: the planners read the whole     *)
(* part of a commitment that lags behind.                                  *)
LoopSettles ==
  running # None =>
    LET r == running.live.config
        plan == NextPlan(running)
        target == plan.candidate.magnitude
    IN /\ r.kind = "ram" => r.min <= running.live.size /\ running.live.size <= r.max
       /\ running.live.used <= running.live.size
       /\ running.last # None /\ plan.kind = "Candidate" /\ running.forecaster.kind = "current" =>
            /\ running.last.to > running.last.from => target >= running.last.to
            /\ running.last.to < running.last.from => target <= running.last.to
            /\ running.planner.kind = "headroom" => target = running.last.to

=============================================================================

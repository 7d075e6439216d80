---------------------------- MODULE Configuration ----------------------------
(***************************************************************************)
(* What an operator writes down and what is made of it: a document of      *)
(* resources and controllers (elastic-runtime operator_config.rs), the     *)
(* guard policies attached to it or kept in a file of their own            *)
(* (guard_config.rs), the planning view and the controllers built from     *)
(* them (configured_controller.rs) and the dry run of the command line     *)
(* (elastic-cli guard_cli.rs).                                             *)
(*                                                                         *)
(* A policy is [schema, predicates, guards] over keys; in a document and   *)
(* in an expression an atom is the key it names.  A unit the code refuses  *)
(* is Blank.                                                               *)
(***************************************************************************)
EXTENDS GuardedPlanning, ConfiguredLoop

CONSTANTS
  GuardSlack,          \* nesting beyond MAX_BOOLEAN_EXPR_DEPTH a policy may have
  OperatorSlack,       \* and an operator document
  MaxPredicates,       \* MAX_REGISTERED_PREDICATES
  MaxGuards,           \* MAX_GUARD_CONFIG_GUARDS
  MaxPolicySize,       \* MAX_GUARD_CONFIG_BYTES, in predicates and nodes
  MaxWritten,          \* bound: resources, and controllers, in a document
  Policies             \* what may be written, beside Resources and Controllers

Blank == ""
-----------------------------------------------------------------------------
(* Guard policies. *)

PredicateAccepted(p) == p.key # 0 /\ Blank \notin {p.signal, p.unit} /\ p.finite
KeysOf(g) == {g.predicates[i].key : i \in DOMAIN g.predicates}
ExpressionAccepted(e, keys) == ValidShape(e) /\ Predicates(e) \subseteq keys
ScopeAccepted(s) == \A i \in 2 .. Len(s) : s[i] # 0

PolicyAccepted(g) ==
  /\ g.schema = 1
  /\ Len(g.predicates) <= MaxPredicates
  /\ Len(g.guards) <= MaxGuards
  /\ \A i \in DOMAIN g.predicates : PredicateAccepted(g.predicates[i])
  /\ \A i, j \in DOMAIN g.predicates : g.predicates[i].key = g.predicates[j].key => i = j
  /\ \A i \in DOMAIN g.guards :
       ScopeAccepted(g.guards[i].scope) /\ ExpressionAccepted(g.guards[i].expr, KeysOf(g))

(* How deep the containers of a document nest: an operand is an object, a  *)
(* list of operands one more, and an atom holds its key.                   *)
RECURSIVE ExpressionNesting(_)
ExpressionNesting(e) ==
  CASE e.op = "const" -> 1
    [] e.op = "atom" -> 2
    [] e.op \in {"all", "any"} -> 2 + Max({0} \cup {ExpressionNesting(x) : x \in Range(e.args)})
    [] OTHER -> 1 + Max({ExpressionNesting(x) : x \in Range(e.args)})
ScopeNesting(s) == IF s[1] = "resource" THEN 1 ELSE 2
PolicyNesting(g) ==
  Max({2} \cup {4 : i \in DOMAIN g.predicates}
          \cup {3 + ExpressionNesting(r.expr) : r \in Range(g.guards)}
          \cup {3 + ScopeNesting(r.scope) : r \in Range(g.guards)})
PolicySize(g) == FoldLeft(LAMBDA n, r : n + Nodes(r.expr), Len(g.predicates), g.guards)

PolicyReads(g) ==
  PolicySize(g) <= MaxPolicySize /\ PolicyNesting(g) <= MaxDepth + GuardSlack /\ PolicyAccepted(g)
PolicyWrites(g) == PolicyAccepted(g) /\ PolicySize(g) <= MaxPolicySize

RECURSIVE LowerExpression(_, _)
LowerExpression(e, registry) ==
  IF e.op = "atom" THEN Atom(IdOf(registry, e.p))
  ELSE [e EXCEPT !.args = [i \in DOMAIN e.args |-> LowerExpression(e.args[i], registry)]]
LowerPredicate(p) ==
  [key |-> p.key, kind |-> "threshold", signal |-> p.signal, comparison |-> p.comparison,
   threshold |-> p.threshold * Grain, maxAge |-> p.maxAge, available |-> "T"]
\* mutant: a predicate is numbered by its place in the document
LowerInPlace(g) ==
  LET written == [i \in DOMAIN g.predicates |-> g.predicates[i].key]
  IN [evaluators |-> [i \in DOMAIN g.predicates |-> LowerPredicate(g.predicates[i])],
      guards |-> [i \in DOMAIN g.guards |->
                    NewGuard(g.guards[i].scope, KeysOf(g),
                             LowerExpression(g.guards[i].expr, written))]]
LowerPolicy(g) ==
  LET registry == FromKeys(KeysOf(g))
  IN [evaluators |-> [i \in DOMAIN g.predicates |-> LowerPredicate(g.predicates[i])],
      guards |-> [i \in DOMAIN g.guards |->
                    NewGuard(g.guards[i].scope, KeysOf(g),
                             LowerExpression(g.guards[i].expr, registry))]]

-----------------------------------------------------------------------------
(* The operator's document. *)

ControllerAccepted(k) ==
  /\ k.resource # 0
  /\ PlannerAccepted(k.planner) /\ ForecasterAccepted(k.forecaster) /\ CadenceAccepted(k.cadence)
  /\ k.guards # None => PolicyWrites(k.guards)
ResourceIn(c, id) == c.resources[Min({i \in DOMAIN c.resources : c.resources[i].id = id})]
ControllerIn(c, id) == c.controllers[Min({i \in DOMAIN c.controllers : c.controllers[i].resource = id})]
Listed(c) == {c.resources[i].id : i \in DOMAIN c.resources}
Controlled(c) == {c.controllers[i].resource : i \in DOMAIN c.controllers}

DocumentAccepted(c) ==
  /\ c.version = 1
  /\ \A i \in DOMAIN c.resources : ResourceAccepted(c.resources[i])
  /\ \A i, j \in DOMAIN c.resources : c.resources[i].id = c.resources[j].id => i = j
  /\ \A i \in DOMAIN c.controllers :
       LET k == c.controllers[i]
       IN /\ ControllerAccepted(k)
          /\ k.resource \in Listed(c)
          /\ Compatible(k, ResourceIn(c, k.resource))
  /\ \A i, j \in DOMAIN c.controllers : c.controllers[i].resource = c.controllers[j].resource => i = j

DocumentNesting(c) ==
  Max({2} \cup {3 : r \in Range(c.resources)} \cup {4 : k \in Range(c.controllers)}
          \cup {3 + PolicyNesting(k.guards) : k \in {x \in Range(c.controllers) : x.guards # None}})
DocumentReads(c) == DocumentNesting(c) <= MaxDepth + OperatorSlack /\ DocumentAccepted(c)

-----------------------------------------------------------------------------
DeclaredContext(r) ==
  Scaled(IF r.kind = "ram"
         THEN [free |-> r.total - r.initial, utilization |-> Share(r.initial, r.total),
               committed |-> r.initial, total |-> r.total, min |-> r.min, max |-> r.max, inUse |-> 0]
         ELSE [utilization |-> 0, capacity |-> r.max, width |-> r.initial, active |-> 0])

(* For planning only: nothing is allocated and nothing can be actuated. *)
ViewOf(r, planner, lowered) ==
  IF lowered # None /\ \E g \in Range(lowered.guards) : g.refused THEN Failed("Lowering")
  ELSE [error |-> "none", ir |-> Declaration(r), planner |-> planner,
        policy |-> lowered, context |-> DeclaredContext(r)]
PlanningView(c, id) ==
  IF ~DocumentAccepted(c) \/ id \notin Controlled(c) THEN Failed("Configuration")
  ELSE LET k == ControllerIn(c, id)
       IN ViewOf(ResourceIn(c, id), k.planner,
                 IF k.guards = None THEN None ELSE LowerPolicy(k.guards))

BuildController(c, id) ==
  IF ~DocumentAccepted(c) \/ id \notin Controlled(c) THEN Failed("Configuration")
  ELSE Built(ResourceIn(c, id), ControllerIn(c, id))

\* mutant: the controllers a policy is attached to are left out
BuildUnguarded(c) ==
  LET free == {id \in Controlled(c) : ControllerIn(c, id).guards = None}
      built == [i \in 1 .. Cardinality(free) |-> BuildController(c, SetToSortSeq(free, <)[i])]
  IN IF ~DocumentAccepted(c) THEN Failed("Configuration")
     ELSE [error |-> "none", controllers |-> built]
(* All of them in the order of their resources, or none. *)
BuildControllers(c) ==
  LET ids == SetToSortSeq(Controlled(c), <)
      built == [i \in DOMAIN ids |-> BuildController(c, ids[i])]
  IN IF ~DocumentAccepted(c) THEN Failed("Configuration")
     ELSE IF \E k \in Range(c.controllers) : k.guards # None THEN Failed("GuardsAttached")
     ELSE IF \E b \in Range(built) : b.error # "none" THEN Failed("Configuration")
     ELSE [error |-> "none", controllers |-> built]

-----------------------------------------------------------------------------
(* The command line.  Facts on it are [key, truth]; a predicate it does    *)
(* not mention is unknown.                                                 *)

ParseFacts(assignments, g) ==
  IF \E i \in DOMAIN assignments :
       \/ assignments[i].key \notin KeysOf(g)
       \/ \E j \in 1 .. i - 1 : assignments[j].key = assignments[i].key
  THEN Failed("InvalidInput")
  ELSE [error |-> "none",
        facts |-> [k \in {assignments[i].key : i \in DOMAIN assignments} |->
                     assignments[CHOOSE i \in DOMAIN assignments : assignments[i].key = k].truth]]
EvaluateFile(g, assignments) ==
  LET parsed == ParseFacts(assignments, g)
      lowered == LowerPolicy(g)
  IN IF ~PolicyReads(g) THEN Failed("Configuration")
     ELSE IF parsed.error # "none" THEN parsed
     ELSE [error |-> "none",
           truths |-> [i \in DOMAIN g.guards |-> EvaluateGuard(lowered.guards[i], parsed.facts)]]

(* The policy a dry run goes by: the one in the document or the one in the *)
(* file, and never a choice between the two.                               *)
PolicyInForce(embedded, beside) ==
  IF (beside = None) = (embedded = None) THEN Failed("InvalidInput")
  ELSE IF beside = None THEN [error |-> "none", policy |-> embedded]
  ELSE IF ~PolicyReads(beside) THEN Failed("Configuration")
  ELSE [error |-> "none", policy |-> LowerPolicy(beside)]

TracedPlan(decision, trace) ==
  IF trace.error # "none" THEN trace
  ELSE [error |-> "none", outcome |-> decision.outcome, trace |-> trace]
TracedDecision(resource, context, facts, freshness, decision) ==
  IF decision.error # "none" THEN decision
  ELSE TracedPlan(decision, CaptureGuardedTrace(resource, context, facts, freshness, decision,
                                                [i \in {} |-> 0]))

PlanWith(view, policy) ==
  LET resource == [view.ir EXCEPT !.guards = policy.guards]
      signals == DOMAIN view.context \cup {ev.signal : ev \in Range(policy.evaluators)}
      observed == [s \in signals |-> IF s \in DOMAIN view.context
                                     THEN [value |-> view.context[s], at |-> 0, valid |-> TRUE]
                                     ELSE None]
      binding == [resource |-> view.ir.id, generation |-> 0]
      freshness == [epoch |-> 1, generation |-> [r \in {view.ir.id} |-> 0]]
      facts == DeriveFacts(policy.evaluators, 1, binding, view.context, observed, 0)
      seen == RestrictToEligible(resource, PruneCandidates(resource, facts), <<"any">>)
      decision == ProposeTransition(resource, <<"any">>, view.context, facts, freshness,
                                    Propose(view.planner, seen, view.context))
  IN IF ~Bindable(view.ir, policy.guards) THEN Failed("Binding")
     ELSE IF facts.error # "none" THEN facts
     ELSE TracedDecision(resource, view.context, facts, freshness, decision)
PlanUnder(view, chosen) ==
  IF chosen.error # "none" THEN chosen ELSE PlanWith(view, chosen.policy)
PlanFrom(view, beside) ==
  IF view.error # "none" THEN view ELSE PlanUnder(view, PolicyInForce(view.policy, beside))
PlanDryRun(c, id, beside) ==
  IF ~DocumentReads(c) THEN Failed("Configuration") ELSE PlanFrom(PlanningView(c, id), beside)

-----------------------------------------------------------------------------
(* The document is written piece by piece, a policy may be kept in a file, *)
(* and a controller built from what stands there runs cycles while the     *)
(* resource is used.                                                       *)

VARIABLES document, file
configurationVars == <<document, file, running>>

ConfigurationInit ==
  /\ document = [version |-> 1, resources |-> <<>>, controllers |-> <<>>]
  /\ file = None /\ LoopInit

WriteResource(r) ==
  /\ running = None /\ Len(document.resources) < MaxWritten
  /\ document' = [document EXCEPT !.resources = Append(@, r)]
  /\ UNCHANGED <<file, running>>
WriteController(k) ==
  /\ running = None /\ Len(document.controllers) < MaxWritten
  /\ document' = [document EXCEPT !.controllers = Append(@, k)]
  /\ UNCHANGED <<file, running>>
WriteFile(g) ==
  /\ running = None /\ file = None
  /\ file' = g
  /\ UNCHANGED <<document, running>>

StartController(id) ==
  /\ file = None /\ DocumentAccepted(document)
  /\ Start(ResourceIn(document, id), ControllerIn(document, id))
  /\ UNCHANGED <<document, file>>

ConfigurationNext ==
  \/ \E r \in Resources : WriteResource(r)
  \/ \E k \in Controllers : WriteController(k)
  \/ \E g \in Policies : WriteFile(g)
  \/ \E id \in Controlled(document) : StartController(id)
  \/ (RunCycle \/ TakeOne \/ GiveOneBack) /\ UNCHANGED <<document, file>>
ConfigurationSpec == ConfigurationInit /\ [][ConfigurationNext]_configurationVars

-----------------------------------------------------------------------------
(* What validation accepts can be built: the view of every controller, and *)
(* the controllers themselves, in the order of their resources, unless a   *)
(* policy is attached to one - then none is built.  A controller starts in *)
(* the state its view planned on, and a policy that can be read from its   *)
(* own file can be read in the document.                                   *)
BuildsWhatItAccepts ==
  LET built == BuildControllers(document)
      guarded == {k \in Range(document.controllers) : k.guards # None}
  IN /\ DocumentAccepted(document) =>
          /\ \A id \in Controlled(document) :
               LET view == PlanningView(document, id)
                   c == BuildController(document, id)
               IN /\ view.error = "none"
                  /\ (ControllerIn(document, id).guards = None) <=> (c.error = "none")
                  /\ c.error = "none" =>
                       /\ LiveContext(c.live) = view.context
                       /\ c.dryRun <=> ControllerIn(document, id).mode # "apply"
          /\ built.error = "none" <=> guarded = {}
          /\ built.error = "none" =>
               /\ {b.live.config.id : b \in Range(built.controllers)} = Controlled(document)
               /\ \A i, j \in DOMAIN built.controllers :
                    i < j => built.controllers[i].live.config.id < built.controllers[j].live.config.id
     /\ \A k \in guarded : PolicyReads(k.guards) => 3 + PolicyNesting(k.guards) <= MaxDepth + OperatorSlack

(* An expression as it is written, evaluated on what is said of its keys. *)
WrittenTruth(e, source) ==
  LET said(v) == {k \in DOMAIN source : source[k] = v}
  IN EvaluateAt(e, [yes |-> said("T"), no |-> said("F")], 1 + Max({0} \cup Predicates(e)), 0)
Policy(k) == IF k.guards # None THEN k.guards ELSE file

(* A guard means what was written, in whatever order the predicates were   *)
(* declared, and the command line evaluates it so.                         *)
GuardsMeanWhatIsWritten ==
  \A g \in {Policy(k) : k \in Range(document.controllers)} \ {None} :
    PolicyReads(g) =>
      \A source \in [KeysOf(g) -> Truth] :
        LET said == SetToSeq({[key |-> k, truth |-> source[k]] :
                                k \in {x \in KeysOf(g) : source[x] # "U"}})
            answer == EvaluateFile(g, said)
        IN /\ answer.error = "none"
           /\ \A i \in DOMAIN g.guards : answer.truths[i] = WrittenTruth(g.guards[i].expr, source)

DryRunPlans(k, dry, first, truths) ==
  dry.error = "none" =>
    /\ (file = None) # (k.guards = None)
    /\ dry.outcome.kind = "Candidate" => truths \subseteq {"T"} /\ dry.outcome = first
    /\ truths \subseteq {"T"} => dry.outcome = first
    /\ DecodesTrace(dry.trace.trace)

(* A dry run plans what the controller would do first, had it no guards,   *)
(* when every guard written for its transition is true of the configured   *)
(* state, and proposes nothing otherwise.                                  *)
DryRunIsFaithful ==
  \A id \in Controlled(document) :
    LET k == ControllerIn(document, id)
        bare == [document EXCEPT !.controllers = [i \in DOMAIN @ |-> [@[i] EXCEPT !.guards = None]]]
        controller == BuildController(bare, id)   \* its forecaster has seen nothing yet
        context == LiveContext(controller.live)
        g == Policy(k)
        fact(p) == IF p.signal \notin DOMAIN context THEN "U"
                   ELSE ToTruth(Compared(p.comparison, context[p.signal], p.threshold * Grain))
        source == [key \in KeysOf(g) |-> fact(CHOOSE p \in Range(g.predicates) : p.key = key)]
        truths == {WrittenTruth(r.expr, source) : r \in Range(g.guards)}
    IN DryRunPlans(k, PlanDryRun(document, id, file), NextPlan(controller), truths)

ConfigurationMeansWhatItSays == BuildsWhatItAccepts /\ GuardsMeanWhatIsWritten /\ DryRunIsFaithful

=============================================================================

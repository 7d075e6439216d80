---------------------------- MODULE MCGuardLogic ----------------------------
(* Small expressions over four keys, three of which fit the one-word masks, *)
(* guarding a resource with two transitions; or a caller that plans on such *)
(* a resource while the world moves; or the configuration of two budgets    *)
(* and a pool of permits, with policies in the document and beside it; or   *)
(* providers that observe a host.                                           *)
EXTENDS GuardLogic, PlanningSession, Observers, Configuration

MCKeys == 0 .. 3
Literal == {Const(TRUE), Const(FALSE), Atom(0), Not(Atom(0)), Atom(3)}
Pairs(es, fs) ==
  {Xor(a, b) : a \in es, b \in fs} \cup {Implies(a, b) : a \in es, b \in fs}
    \cup {AllOf(<<a, b>>) : a \in es, b \in fs} \cup {AnyOf(<<a, b>>) : a \in es, b \in fs}
Level2 == Pairs(Literal, Literal)
Nested ==
  {AllOf(<<AllOf(<<Atom(1), Not(Atom(0))>>), Atom(0)>>),
   AnyOf(<<AnyOf(<<Atom(1), Not(Atom(0))>>), Const(FALSE), Atom(1)>>),
   AllOf(<<AnyOf(<<Atom(0), Atom(1)>>), AnyOf(<<Atom(1), Atom(0)>>)>>),
   Not(Not(Xor(Atom(1), Atom(0)))), Not(Not(Not(Atom(1)))),
   AllOf(<<>>), AnyOf(<<>>), AllOf(<<Const(FALSE), Atom(3)>>),
   AnyOf(<<AllOf(<<Atom(0), Atom(1)>>), AllOf(<<Atom(0), Not(Atom(1))>>)>>)}

Live == [mechanism |-> 1, dimension |-> 1]
Other == [mechanism |-> 2, dimension |-> 2]
Safe == [name |-> 1, scope |-> {}]
Local == [name |-> 2, scope |-> {2}]
Base ==
  [elastic |-> {1, 2}, transitions |-> <<Live, Other>>, capabilities |-> {<<1, 1>>, <<2, 2>>},
   invariants |-> {Safe, Local}, guards |-> <<>>]
Bindings == [i \in {Safe} |-> 0]

GuardsOf(a, b) ==
  SelectSeq(<<NewGuard(<<"resource">>, {0, 1}, a), NewGuard(<<"dimension", 2>>, {0, 2}, b),
              NewGuard(<<"transition", 1, 1>>, {1, 2}, b)>>, LAMBDA g : ~g.refused)
Case(a, b, caps) ==
  [raw |-> <<a>>, bindings |-> Bindings, constraint |-> Unconstrained, registry |-> <<1, 2, 3>>,
   resource |-> [Base EXCEPT !.guards = GuardsOf(a, b), !.capabilities = caps]]
Bare ==
  [raw |-> <<>>, bindings |-> Bindings, constraint |-> Unconstrained, registry |-> <<1, 2, 3>>,
   resource |-> Base]

Idle == [Bare EXCEPT !.resource.transitions = <<>>]

Terms(w) == [i \in 1 .. 3 |-> [predicate |-> 4 - i, weight |-> w[i]]]
Constraints ==
  {NewConstraint(Terms(w), rel, n) :
     w \in {<<1, 1, 1>>, <<1, -1, 2>>, <<2, 2, -2>>}, rel \in {"le", "ge", "eq"}, n \in -1 .. 2}
    \cup {AtMost(<<2, 1>>, 1), AtLeast(<<3, 1>>, 1), Exactly(<<1, 2, 3>>, 1),
          MutuallyExclusive(<<1, 3>>), Requires(1, 2), Equivalent(3, 1),
          NewConstraint(Terms(<<1, 0, 1>>), "le", 1), CapacityBudget(Terms(<<1, -1, 1>>), 1)}

Clause == AnyOf(<<Atom(0), Not(Atom(1))>>)
MCDeclared ==
  {Case(a, Clause, Base.capabilities) : a \in Level2}
    \cup {Case(a, b, {<<1, 1>>}) : a \in Nested, b \in {Clause, Not(Atom(0)), Const(FALSE)}}
    \cup {Idle} \cup {[Bare EXCEPT !.constraint = c] : c \in {d \in Constraints : ~d.refused}}

-----------------------------------------------------------------------------
(* Two signals and three predicates under a resource with two transitions, *)
(* declared with either of two sets of guards.                             *)
Operated(guards, capabilities, invariants) ==
  [id |-> "r", elastic |-> {1, 2}, transitions |-> <<Live, Other>>,
   capabilities |-> capabilities, invariants |-> invariants,
   guards |-> SelectSeq(guards, LAMBDA g : ~g.refused)]
Both == {<<1, 1>>, <<2, 2>>}
Still == [Operated(<<>>, {}, {}) EXCEPT !.transitions = <<>>]

(* 0: the first signal is high, and of this very tick; 1: the second is    *)
(* fresh, derived in the first case only; 2: the first is present, or a    *)
(* capability.                                                             *)
Evaluator(key, kind, signal) ==
  [key |-> key, kind |-> kind, signal |-> signal, comparison |-> "ge", threshold |-> 1,
   maxAge |-> 0, available |-> "T"]
High == Evaluator(0, "threshold", 1)
Fresh == Evaluator(1, "freshness", 2)
Present == Evaluator(2, "presence", 1)
Capable == Evaluator(2, "capability", 1)

Guarded ==
  Operated(<<NewGuard(<<"resource">>, {0, 1}, Implies(Atom(1), Atom(0))),
             NewGuard(<<"dimension", 1>>, {0}, Atom(0)),
             NewGuard(<<"transition", 2, 2>>, {1, 2}, AllOf(<<Not(Atom(0)), Atom(1)>>))>>,
           Both, {Safe, Local})
Looser ==
  Operated(<<NewGuard(<<"dimension", 1>>, {0}, Atom(0)),
             NewGuard(<<"transition", 2, 2>>, {1, 2}, AnyOf(<<Atom(0), Atom(1)>>))>>,
           {<<1, 1>>}, {Safe})

Constraint(relation, n) ==
  NewConstraint(<<[predicate |-> 2, weight |-> -1], [predicate |-> 0, weight |-> 2],
                    [predicate |-> 1, weight |-> 1]>>, relation, n)
Seen(value, other) ==
  (1 :> [value |-> value, at |-> 0, valid |-> TRUE]) @@ (2 :> other)
Session(declarations, evaluators, target, seen) ==
  [seen |-> seen, declarations |-> declarations, evaluators |-> evaluators, target |-> target,
   bindings |-> [i \in {Safe, Local} |-> IF i = Safe THEN 0 ELSE 2],
   constraints |-> <<Constraint("le", 1), Constraint("eq", 2)>>]
MCCases ==
  {Session({Guarded, Looser}, <<High, Fresh, Present>>, <<"any">>,
        {Seen(1, None), Seen(0, [value |-> 0, at |-> 0, valid |-> FALSE])}),
   Session({Guarded}, <<High, Capable>>, <<"transition", 2, 2>>,
        {1 :> None}),
   Session({Still}, <<High>>, <<"any">>, {1 :> None})}

Offer(t, grounded, magnitude) ==
  Candidate([mechanism |-> t.mechanism, dimension |-> t.dimension, grounded |-> grounded,
             magnitude |-> magnitude])
MCAnswers ==
  {Stopping("NoCandidate"), Offer(Live, TRUE, None), Offer(Live, FALSE, None),
   Offer(Other, TRUE, 1)}

MCSamples ==
  {[value |-> 1, ahead |-> 0, valid |-> TRUE], [value |-> 0, ahead |-> 0, valid |-> TRUE],
   [value |-> 1, ahead |-> 1, valid |-> TRUE]}

-----------------------------------------------------------------------------
Ram(id, total, min, max, initial, step) ==
  [id |-> id, kind |-> "ram", total |-> total, min |-> min, max |-> max, initial |-> initial,
   step |-> step]
Permits(id, max, initial) == [Ram(id, max, 1, max, initial, None) EXCEPT !.kind = "concurrency"]
MCResources ==
  {Ram(1, 4, 1, 4, 3, None), Ram(2, 2, 1, 2, 1, 1), Ram(1, 2, 2, 1, 1, None),
   Ram(2, 4, 0, 3, 0, None), Permits(2, 2, 1), Permits(3, 1, 2)}

First == [kind |-> "first"]
Headroom(headroom, deadband) == [kind |-> "headroom", headroom |-> headroom, deadband |-> deadband]
Band(low, high, step) == [kind |-> "threshold", low |-> low, high |-> high, step |-> step]
Current == [kind |-> "current"]
Ewma(alpha) == [kind |-> "ewma", alpha |-> alpha]
Once == [kind |-> "once"]
Every(cycles) == [kind |-> "periodic", interval |-> 1, cycles |-> cycles]
Controller(id, planner, mode, policy) ==
  [resource |-> id, planner |-> planner, forecaster |-> Current, cadence |-> Once, mode |-> mode,
   guards |-> policy]

Predicate(key, signal, comparison, value) ==
  [key |-> key, signal |-> signal, comparison |-> comparison, threshold |-> value, finite |-> TRUE,
   unit |-> "u", maxAge |-> 0]
Rule(scope, e) == [scope |-> scope, expr |-> e]
(* The second declares its predicates out of order; the third cannot be    *)
(* bound to a budget; the fourth names a predicate it does not declare.     *)
MCPolicies ==
  {[schema |-> 1, predicates |-> <<Predicate(1, "utilization", "ge", 3)>>,
    guards |-> <<Rule(<<"resource">>, Atom(1))>>],
   [schema |-> 1, predicates |-> <<Predicate(3, "free", "gt", 0), Predicate(1, "missing", "le", 1)>>,
    guards |-> <<Rule(<<"dimension", 1>>, AnyOf(<<Atom(3), Not(Atom(3))>>)),
                 Rule(<<"transition", 1, 1>>, Implies(Atom(1), Atom(3)))>>],
   [schema |-> 1, predicates |-> <<Predicate(2, "width", "le", 1)>>,
    guards |-> <<Rule(<<"dimension", 2>>, Xor(Atom(2), Const(FALSE)))>>],
   [schema |-> 1, predicates |-> <<Predicate(2, "width", "le", 1)>>,
    guards |-> <<Rule(<<"resource">>, AllOf(<<Atom(2), Atom(3)>>))>>],
   [schema |-> 1, predicates |-> <<>>,
    guards |-> <<Rule(<<"resource">>, AllOf(<<AllOf(<<AllOf(<<Const(TRUE)>>)>>)>>))>>]}
Bindable1 == CHOOSE g \in MCPolicies : Len(g.guards) = 2
Bindable2 == CHOOSE g \in MCPolicies : g.guards[1].scope = <<"dimension", 2>>
MCControllers ==
  {Controller(1, Headroom(2, 0), "apply", None), Controller(1, Headroom(1, 1), "apply", Bindable1),
   Controller(2, Band(1, 2, 2), "apply", None), Controller(2, First, "plan-only", Bindable2),
   Controller(2, Headroom(1, 0), "apply", None), Controller(1, Band(3, 4, 2), "apply", None),
   Controller(1, Band(3, 3, 1), "dry-run", None),
   Controller(2, First, "apply", None), Controller(3, Headroom(1, 2), "plan-only", None),
   [Controller(2, Band(1, 2, 2), "apply", None) EXCEPT !.forecaster = Ewma(2), !.cadence = Every(1)],
   [Controller(1, First, "observe-only", None) EXCEPT !.forecaster = Ewma(0)],
   [Controller(1, First, "observe-only", None) EXCEPT !.cadence = Every(0)]}

-----------------------------------------------------------------------------
Trips(kinds, limits) ==
  [f \in {<<"kind", 1, i>> : i \in DOMAIN kinds} |-> kinds[f[3]]]
    @@ [f \in {<<"limit", 1, i>> : i \in DOMAIN kinds} |-> limits[f[3]]]
Thermal ==
  Trips(<<"critical", "passive", "critical">>, <<3, 1, 2>>)
    @@ [f \in {<<"type", 1>>} |-> "cpu"] @@ [f \in {<<"temp", 1>>} |-> 1]
    @@ [f \in {<<"trips", 1>>} |-> {1, 2, 3}]
    @@ [f \in {<<"type", 2>>} |-> "gpu"] @@ [f \in {<<"temp", 2>>} |-> 3]
    @@ [f \in {<<"trips", 2>>} |-> {1}]
    @@ [f \in {<<"kind", 2, 1>>} |-> "critical"] @@ [f \in {<<"limit", 2, 1>>} |-> 4]
Load(some, full) == [some |-> some, full |-> full]
Cpu ==
  [f \in {<<"status">>} |-> <<<<0, 2>>, <<2, 3>>>>] @@ [f \in {<<"cgroup">>} |-> 1]
    @@ [f \in {<<"max", 1>>} |-> [quota |-> 3, period |-> 2]]
    @@ [f \in {<<"max", 2>>} |-> [quota |-> NoQuota, period |-> 2]]
    @@ [f \in {<<"pressure", 1>>} |-> Load(1, None)] @@ [f \in {<<"pressure", 2>>} |-> None]
    @@ [f \in {<<"pressure", System>>} |-> Load(5, 2)]
Rest ==
  [f \in {<<"power">>} |-> 2] @@ [f \in {<<"meminfo">>} |-> [total |-> 3, available |-> 1]]
MCHosts == {Thermal, Cpu, Rest}
MCChanges ==
  {<<<<"temp", 1>>, 2>>, <<<<"temp", 1>>, None>>, <<<<"type", 1>>, "">>, <<<<"kind", 2, 1>>, "hot">>,
   <<<<"status">>, <<<<3, 1>>>>>>, <<<<"cgroup">>, 2>>, <<<<"max", 1>>, [quota |-> 1, period |-> 0]>>,
   <<<<"max", 2>>, [quota |-> 1, period |-> 1]>>, <<<<"pressure", 1>>, None>>,
   <<<<"pressure", System>>, None>>, <<<<"power">>, 9>>,
   <<<<"meminfo">>, [total |-> 1, available |-> 2]>>, <<<<"meminfo">>, [total |-> 5, available |-> 5]>>}
MCObserverSets ==
  {<<<<"thermal", 1>>, <<"thermal", 2>>>>, <<<<"timing">>, <<"cpu">>>>,
   <<<<"power">>, <<"memory">>>>}
Reads(key, signal, value, age) ==
  [key |-> key, kind |-> "threshold", signal |-> signal, comparison |-> "ge", threshold |-> value,
   maxAge |-> age, available |-> "T"]
MCEvaluators ==
  {Reads(1, s, v, age) : s \in {"margin", "power", "cpus", "quota", "unlimited", "some", "used", "utilization",
                                "uptime"}, v \in 1 .. 2, age \in 0 .. 1}

(* One is at work while the others keep an initial state; of the moments   *)
(* and the changes of a host, three pass, and of a tick, an observation    *)
(* and a commit two.                                                       *)
VARIABLE surface
MCInit ==
  /\ surface \in {"logic", "planning", "configuration", "observation"}
  /\ LogicInit /\ (surface # "logic" => declaration = Idle)
  /\ ConfigurationInit
  /\ Init /\ (surface # "planning" => resource = Still)
  /\ ObserversInit /\ (surface # "observation" => host = Thermal)
MCNext ==
  /\ UNCHANGED surface
  /\ \/ surface = "logic" /\ LogicNext /\ UNCHANGED <<vars, configurationVars, observerVars>>
     \/ surface = "planning" /\ Next /\ clock' + epoch' + generation' <= 2
          /\ UNCHANGED <<logicVars, configurationVars, observerVars>>
     \/ surface = "configuration" /\ ConfigurationNext
          /\ UNCHANGED <<logicVars, vars, observerVars>>
     \/ surface = "observation" /\ ObserversNext /\ moment' + changed' <= 3
          /\ UNCHANGED <<logicVars, vars, configurationVars>>
MCSpec ==
  MCInit /\ [][MCNext]_<<surface, logicVars, vars, configurationVars, observerVars>>
=============================================================================

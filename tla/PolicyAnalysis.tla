--------------------------- MODULE PolicyAnalysis ---------------------------
(***************************************************************************)
(* Guards bound to a resource, the decision they give about each of its    *)
(* transitions, and the analysis that is run on the declaration before any *)
(* observation exists: which transitions can never become eligible, which  *)
(* guards add nothing, which invariants the guards already imply.          *)
(*                                                                         *)
(* A predicate is known outside by its key, a number here, whose order is  *)
(* the order of keys; a registry is the sorted sequence of the keys of one *)
(* guard, and the predicate of an expression is its index there.           *)
(*   guard       [scope, keys, expr]                                       *)
(*   scope       <<"resource">>, <<"dimension", d>>, <<"transition", m, d>> *)
(*   transition  [mechanism, dimension]                                    *)
(*   resource    [elastic, transitions, capabilities, invariants, guards], *)
(*     where an invariant is [name, scope] with a scope that is a set of   *)
(*     at most one dimension                                               *)
(***************************************************************************)
EXTENDS BooleanLogic

-----------------------------------------------------------------------------
(* The two oracles.  Both number the assignments of the expressions'       *)
(* predicates and stop at the first one of interest: `base` = 3 tries      *)
(* False, True and Unknown, `base` = 2 only False and True.                *)

AssignmentAt(ps, base, n) ==
  LET digit(i) == (n \div base^(i - 1)) % base
  IN [yes |-> {ps[i] : i \in {j \in DOMAIN ps : digit(j) = 1}},
      no |-> {ps[i] : i \in {j \in DOMAIN ps : digit(j) = 0}}]

(* What an oracle refuses to enumerate. *)
Prepare(es, base) ==
  LET predicates == UNION {Predicates(e) : e \in es}
      n == Cardinality(predicates)
  IN CASE \E e \in es : Depth(e) > MaxDepth -> "TooDeep"
       [] \E p \in predicates : p >= Fast -> "OutOfRange"
       [] n > MaxVariables -> "TooManyVariables"
       [] base^n > MaxAssignments -> "TooManyAssignments"
       [] OTHER -> "none"
PredicatesOf(es) == SetToSortSeq(UNION {Predicates(e) : e \in es}, <)
Assignments(es, base) ==
  {AssignmentAt(PredicatesOf(es), base, n) : n \in 0 .. base^Len(PredicatesOf(es)) - 1}

(* The search stops at the first assignment of the set looked for. *)
Search(es, base, stops) ==
  LET ps == PredicatesOf(es)
      space == base^Len(ps)
      hits == {n \in 0 .. space - 1 : AssignmentAt(ps, base, n) \in stops}
      report(err, n, hit, known) ==
        [error |-> err, evaluated |-> n, found |-> hit, facts |-> known]
  IN IF Prepare(es, base) # "none" THEN report(Prepare(es, base), 0, FALSE, NoFacts)
     ELSE IF hits = {} THEN report("none", space, FALSE, NoFacts)
     ELSE report("none", Min(hits) + 1, TRUE, AssignmentAt(ps, base, Min(hits)))

(* Each property is searched for its counterexample. *)
Satisfiability(e, base) ==
  Search({e}, base, {f \in Assignments({e}, base) : Evaluate(e, f) = "T"})
Tautology(e, base) ==
  Search({e}, base, {f \in Assignments({e}, base) : Evaluate(e, f) # "T"})
Contradiction(e, base) ==
  Search({e}, base, {f \in Assignments({e}, base) : Evaluate(e, f) = "T"})
Implication(l, r, base) ==
  Search({l, r}, base,
         {f \in Assignments({l, r}, base) : Evaluate(l, f) = "T" /\ Evaluate(r, f) # "T"})
Equivalence(l, r, base) ==
  Search({l, r}, base, {f \in Assignments({l, r}, base) : Evaluate(l, f) # Evaluate(r, f)})
MutualExclusion(l, r, base) ==
  Search({l, r}, base,
         {f \in Assignments({l, r}, base) : Evaluate(l, f) = "T" /\ Evaluate(r, f) = "T"})
ClauseRedundancy(clauses, i, base) ==
  Equivalence(AllOf(clauses), AllOf(RemoveAt(clauses, i)), base)
Holds(report) == report.error = "none" /\ ~report.found

-----------------------------------------------------------------------------
(* Registries and guards. *)

FromKeys(keys) == SetToSortSeq(keys, <)
IdOf(registry, key) == (CHOOSE i \in DOMAIN registry : registry[i] = key) - 1

(* `source` gives the truth of a key; a key it does not hold is unknown. *)
Truths(registry, source) ==
  LET known(v) == {i \in DOMAIN registry :
                     registry[i] \in DOMAIN source /\ source[registry[i]] = v}
  IN [yes |-> {i - 1 : i \in known("T")}, no |-> {i - 1 : i \in known("F")}]

(* An expression is stored in canonical form, and refused when an atom it  *)
(* keeps has no key in the registry.                                       *)
GuardOver(scope, registry, e, canonical) ==
  IF \/ ~ValidShape(e)
     \/ Len(registry) > Fast
     \/ \E p \in Predicates(canonical) : p >= Len(registry)
  THEN [refused |-> TRUE]
  ELSE [refused |-> FALSE, scope |-> scope, keys |-> registry, expr |-> canonical]
NewGuard(scope, keys, e) == GuardOver(scope, FromKeys(keys), e, CanonicalizeValidated(e))
EvaluateGuard(guard, source) == Evaluate(guard.expr, Truths(guard.keys, source))

AppliesTo(scope, t) ==
  \/ scope[1] = "resource"
  \/ scope[1] = "dimension" /\ scope[2] = t.dimension
  \/ scope[1] = "transition" /\ scope[2] = t.mechanism /\ scope[3] = t.dimension

(* One guard a scope, and none on a dimension that is not elastic or a     *)
(* transition that is not admitted.                                        *)
Bindable(resource, guards) ==
  /\ \A i, j \in DOMAIN guards : guards[i].scope = guards[j].scope => i = j
  /\ \A i \in DOMAIN guards :
       LET s == guards[i].scope
       IN /\ s[1] = "dimension" => s[2] \in resource.elastic
          /\ s[1] = "transition" =>
               \E t \in Range(resource.transitions) : AppliesTo(s, t)

Applicable(resource, t) == SelectSeq(resource.guards, LAMBDA g : AppliesTo(g.scope, t))
Grounded(resource, t) == <<t.mechanism, t.dimension>> \in resource.capabilities

(* What the guards say of a transition: the first that is false rejects    *)
(* it; one that is unknown, or a missing capability, leaves it undecided.  *)
EvaluateTransition(resource, t, source) ==
  LET vs == [i \in DOMAIN Applicable(resource, t) |->
               EvaluateGuard(Applicable(resource, t)[i], source)]
  IN CASE "F" \in Range(vs) -> "Rejected"
       [] "U" \in Range(vs) \/ ~Grounded(resource, t) -> "Unknown"
       [] OTHER -> "Eligible"

-----------------------------------------------------------------------------
(* The analysis. *)

RECURSIVE Remap(_, _, _)
Remap(e, from, to) ==
  IF e.op = "atom" THEN Atom(IdOf(to, from[e.p + 1]))
  ELSE [e EXCEPT !.args = [i \in DOMAIN e.args |-> Remap(e.args[i], from, to)]]

\* mutant: the clauses keep the predicate numbers of their own registries
MergeUnmapped(guards) ==
  LET keys == FromKeys(UNION {Range(guards[i].keys) : i \in DOMAIN guards})
      clauses == [i \in DOMAIN guards |-> guards[i].expr]
  IN [keys |-> keys, clauses |-> clauses, expr |-> AllOf(clauses)]
MergeGuards(guards) ==
  LET keys == FromKeys(UNION {Range(guards[i].keys) : i \in DOMAIN guards})
      clauses == [i \in DOMAIN guards |-> Remap(guards[i].expr, guards[i].keys, keys)]
  IN [keys |-> keys, clauses |-> clauses, expr |-> AllOf(clauses)]

InvariantApplies(inv, t) == inv.scope \subseteq {t.dimension}

AnalyzeInvariant(inv, bindings, merged, unreachable) ==
  IF inv \notin DOMAIN bindings THEN [status |-> "Unbound", error |-> "none"]
  ELSE LET keys == FromKeys(Range(merged.keys) \cup {bindings[inv]})
           found == Implication(Remap(merged.expr, merged.keys, keys),
                                Atom(IdOf(keys, bindings[inv])), 3)
       IN [error |-> found.error,
           status |-> IF unreachable THEN "VacuousUnreachable"
                      ELSE IF Holds(found) THEN "ImpliedForEligibility"
                      ELSE "NotImpliedForEligibility"]

Diagnose(resource, t, bindings, merged, unreachable) ==
  [inv \in {i \in resource.invariants : InvariantApplies(i, t)} |->
     AnalyzeInvariant(inv, bindings, merged, unreachable)]
TransitionReport(t, guards, merged, sat, redundancy, diagnostics) ==
  [transition |-> t, merged |-> merged, satisfiability |-> sat,
   redundant |-> {guards[i].scope : i \in {j \in DOMAIN guards : Holds(redundancy[j])}},
   invariants |-> [inv \in DOMAIN diagnostics |-> diagnostics[inv].status],
   errors |-> ({sat.error} \cup {redundancy[i].error : i \in DOMAIN guards}
                \cup {diagnostics[inv].error : inv \in DOMAIN diagnostics}) \ {"none"}]
AnalyzeTransition(resource, t, bindings) ==
  LET guards == Applicable(resource, t)
      merged == MergeGuards(guards)
      sat == Satisfiability(merged.expr, 3)
  IN TransitionReport(t, guards, merged, sat,
       [i \in DOMAIN guards |-> ClauseRedundancy(merged.clauses, i, 3)],
       Diagnose(resource, t, bindings, merged, Holds(sat)))

AnalyzePair(left, right) ==
  LET keys == FromKeys(Range(left.merged.keys) \cup Range(right.merged.keys))
  IN MutualExclusion(Remap(left.merged.expr, left.merged.keys, keys),
                     Remap(right.merged.expr, right.merged.keys, keys), 3)

AnalyzePairs(reports) ==
  [p \in {q \in (DOMAIN reports) \X (DOMAIN reports) : q[1] < q[2]} |->
     AnalyzePair(reports[p[1]], reports[p[2]])]
PolicyReport(reports, pairs) ==
  [transitions |-> reports, pairs |-> pairs,
   ok |-> /\ \A i \in DOMAIN reports : reports[i].errors = {}
          /\ \A p \in DOMAIN pairs : pairs[p].error = "none"]
AnalyzeResourcePolicy(resource, bindings) ==
  LET reports == [i \in DOMAIN resource.transitions |->
                    AnalyzeTransition(resource, resource.transitions[i], bindings)]
  IN PolicyReport(reports, AnalyzePairs(reports))

=============================================================================

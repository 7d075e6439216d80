----------------------------- MODULE GuardLogic -----------------------------
(***************************************************************************)
(* What is known of the predicates grows one fact at a time while the same *)
(* declaration - expressions, a guarded resource, a weighted constraint -  *)
(* is evaluated in each of the ways the code has.                          *)
(*                                                                         *)
(* A member of Declared is a record                                       *)
(* A member of Declared is a record                                        *)
(* the expressions as they were written, over the keys 0, 1, ... as the    *)
(* predicates of one registry; the resource they guard; the predicate that *)
(* stands for each of its invariants; a constraint declared over keys, or  *)
(* Unconstrained, and the registry it is bound to.                         *)
(***************************************************************************)
EXTENDS PolicyAnalysis

CONSTANTS Declared, Keys, Unconstrained

VARIABLES declaration, source
logicVars == <<declaration, source>>

LogicInit == declaration \in Declared /\ source = [k \in Keys |-> "U"]

(* FactSet::set on a predicate nothing was known about. *)
Learn(k, v) ==
  /\ source[k] = "U"
  /\ source' = [source EXCEPT ![k] = v]
  /\ UNCHANGED declaration
LogicNext == \E k \in Keys, v \in {"T", "F"} : Learn(k, v)
LogicSpec == LogicInit /\ [][LogicNext]_logicVars

learned == Truths(FromKeys(Keys), source)
Completed(f) == {g \in [Keys -> {"T", "F"}] : \A k \in Keys : f[k] # "U" => g[k] = f[k]}

-----------------------------------------------------------------------------
(* An expression means one thing whichever way it is evaluated: by the     *)
(* interpreter that stops early, by the one-word and the multiword masks   *)
(* compiled once, and in the canonical form a guard is stored in.  It is   *)
(* decided only when every completion of what is known decides it the same *)
(* way, and the two oracles agree with both.                               *)
EvaluatorsAgree ==
  \A i \in DOMAIN declaration.raw :
    LET e == declaration.raw[i]
        canonical == CanonicalizeValidated(e)
        value == EvaluateAt(e, learned, Cardinality(Keys), 0)
        compiled == Compile(e)
        wide == MultiwordCompile(e, Max({0} \cup {p + 1 : p \in Predicates(e)}))
        sat == Satisfiability(e, 3)
        sat2 == Satisfiability(e, 2)
        taut == Tautology(e, 2)
    IN /\ compiled.path # "refused" =>
            /\ CompiledEvaluate(compiled, learned) = value
            /\ Evaluate(e, learned) = value
            /\ IsContradictory(compiled) => ~sat.found
       /\ wide.path # "refused" =>
            /\ MultiwordEvaluate(wide, learned, Cardinality(Keys)) = value
            /\ EvaluateAt(canonical, learned, Cardinality(Keys), 0) = value
            /\ CanonicalizeValidated(canonical) = canonical
            /\ Nodes(canonical) <= Nodes(e)
            /\ value \in {"T", "F"} =>
                 \A f \in Completed(source) :
                   EvaluateAt(e, Truths(FromKeys(Keys), f), Cardinality(Keys), 0) = value
       /\ BatchCompiles(declaration.raw, Cardinality(Keys)) =>
            BatchEvaluate(declaration.raw, learned, Cardinality(Keys))[i] = value
       /\ sat.error = "none" =>
            /\ sat.found <=> sat2.found
            /\ sat.found => Evaluate(e, sat.facts) = "T"
            /\ sat.found <=> ~Holds(Contradiction(e, 3))
            /\ value = "T" => sat.found
            /\ value = "F" => taut.found

Eligible(r, t) == EvaluateTransition(r, t, source) = "Eligible"
Without(r, scope) == [r EXCEPT !.guards = SelectSeq(r.guards, LAMBDA g : g.scope # scope)]
(* Of one transition of a resource. *)
ReportHolds(r, report, bindings) ==
  LET t == report.transition
      witness == [k \in Range(report.merged.keys) |->
                    Get(report.satisfiability.facts, IdOf(report.merged.keys, k))]
  IN /\ Eligible(r, t) => report.satisfiability.found
     /\ report.satisfiability.found /\ Grounded(r, t) =>
          EvaluateTransition(r, t, witness) = "Eligible"
     /\ \A scope \in report.redundant :
          EvaluateTransition(Without(r, scope), t, source) = EvaluateTransition(r, t, source)
     /\ \A inv \in DOMAIN report.invariants :
          report.invariants[inv] \in {"ImpliedForEligibility", "VacuousUnreachable"}
            => (Eligible(r, t) => source[bindings[inv]] = "T")
ConclusionsHold(r, bindings, analysis) ==
  analysis.ok =>
    /\ \A i \in DOMAIN analysis.transitions : ReportHolds(r, analysis.transitions[i], bindings)
    /\ \A p \in DOMAIN analysis.pairs :
         Holds(analysis.pairs[p]) =>
           ~(Eligible(r, r.transitions[p[1]]) /\ Eligible(r, r.transitions[p[2]]))

(* What the analysis of a declaration concludes is what planning then does *)
(* with any facts: a transition found unreachable is never eligible, one   *)
(* with a witness is unless its capability is missing, dropping a guard    *)
(* found redundant changes no decision, an invariant found implied is true *)
(* whenever its transition is eligible, two transitions found exclusive    *)
(* are never eligible together.                                            *)
AnalysisHolds ==
  ConclusionsHold(declaration.resource, declaration.bindings,
                  AnalyzeResourcePolicy(declaration.resource, declaration.bindings))

(* A weighted constraint is declared true or false only when every         *)
(* completion of what is known makes it so, in sums that never wrap; an    *)
(* inequality is declared as soon as that is the case, and the enumerating *)
(* oracle never disagrees with the interval.                               *)
ConstraintIsExact ==
  declaration.constraint # Unconstrained =>
    LET over == declaration.constraint
        c == Bind(over, declaration.registry)
        known == Truths(declaration.registry, source)
        value == EvaluateConstraint(c, known)
        oracle == AnalyzeConstraint(c, known)
        sum(f) == FoldLeft(LAMBDA s, t : s + IF f[t.predicate] = "T" THEN t.weight ELSE 0,
                           0, over.terms)
        meets(f) == CASE c.relation = "le" -> sum(f) <= c.threshold
                      [] c.relation = "ge" -> sum(f) >= c.threshold
                      [] c.relation = "eq" -> sum(f) = c.threshold
        always == \A f \in Completed(source) : meets(f)
        never == \A f \in Completed(source) : ~meets(f)
    IN ~c.refused =>
         /\ value = "T" \/ oracle = "T" => always
         /\ value = "F" \/ oracle = "F" => never
         /\ value = "U" /\ c.relation # "eq" => ~always /\ ~never
         /\ {value, oracle} \subseteq Truth /\ c.relation # "eq" => oracle = value

=============================================================================

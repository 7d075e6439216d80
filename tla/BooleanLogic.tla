---------------------------- MODULE BooleanLogic ----------------------------
(***************************************************************************)
(* The three-valued logic every guard is written in: expressions over      *)
(* predicates, their evaluation on what is known, the canonical form a     *)
(* guard is stored in, the two compiled forms that replace the evaluation  *)
(* by mask operations, and the two bounded oracles that decide properties  *)
(* of an expression by enumeration; and the weighted constraints over the  *)
(* same predicates.                                                        *)
(*                                                                         *)
(* An expression is a record [op, p, args]: `p` is the predicate of an     *)
(* "atom" and the value 0 or 1 of a "const"; `args` are the operands.  A   *)
(* truth value is "T", "F" or "U"; an evaluation that fails returns one of *)
(* Errors instead.  What is known is a set of predicates known to be true  *)
(* and a set of predicates known to be false, as in the code's two masks.  *)
(***************************************************************************)
EXTENDS Integers, Sequences, FiniteSets, SequencesExt

CONSTANTS
  MaxDepth,      \* MAX_BOOLEAN_EXPR_DEPTH
  Fast,          \* FAST_PREDICATE_CAPACITY: predicates the one-word masks hold
  WordBits,      \* MULTIWORD_FACT_WORD_BITS
  MaxNodes,      \* MAX_CANONICAL_EXPRESSION_NODES
  MaxVariables,  \* limits of the oracles
  MaxAssignments,
  MaxTerms,      \* terms a weighted constraint may have
  MaxSum         \* the largest 128-bit integer

ASSUME LogicAssumption ==
  /\ {MaxDepth, MaxNodes, MaxVariables, MaxTerms, MaxSum} \subseteq Nat
  /\ {Fast, WordBits, MaxAssignments} \subseteq Nat \ {0}

Truth == {"T", "F", "U"}
Errors == {"TooDeep", "TooLarge", "OutOfRange", "TooManyVariables", "TooManyAssignments"}

Const(b) == [op |-> "const", p |-> IF b THEN 1 ELSE 0, args |-> <<>>]
Atom(p) == [op |-> "atom", p |-> p, args |-> <<>>]
Not(e) == [op |-> "not", p |-> 0, args |-> <<e>>]
AllOf(es) == [op |-> "all", p |-> 0, args |-> es]
AnyOf(es) == [op |-> "any", p |-> 0, args |-> es]
Xor(l, r) == [op |-> "xor", p |-> 0, args |-> <<l, r>>]
Implies(l, r) == [op |-> "implies", p |-> 0, args |-> <<l, r>>]

-----------------------------------------------------------------------------
(* Strong Kleene connectives. *)

Negated(a) == CASE a = "T" -> "F" [] a = "F" -> "T" [] OTHER -> "U"
KleeneOr(a, b) == IF "T" \in {a, b} THEN "T" ELSE IF "U" \in {a, b} THEN "U" ELSE "F"
KleeneXor(a, b) == IF "U" \in {a, b} THEN "U" ELSE IF a # b THEN "T" ELSE "F"
KleeneImplies(a, b) == KleeneOr(Negated(a), b)

(* Facts: `yes` and `no` are the predicates known to be true and false. *)
NoFacts == [yes |-> {}, no |-> {}]
Get(facts, p) == IF p \in facts.yes THEN "T" ELSE IF p \in facts.no THEN "F" ELSE "U"

-----------------------------------------------------------------------------
(* Evaluation.  A conjunction stops at the first operand that is false, a  *)
(* disjunction at the first that is true, and either at the first error:   *)
(* an operand after that point is never looked at.                         *)

Stopped(vs, absorbing) ==
  LET stops == {i \in DOMAIN vs : vs[i] = absorbing \/ vs[i] \in Errors}
  IN IF stops # {} THEN vs[CHOOSE i \in stops : \A j \in stops : i <= j]
     ELSE IF "U" \in Range(vs) THEN "U" ELSE Negated(absorbing)

RECURSIVE EvaluateAt(_, _, _, _)
EvaluateAt(e, facts, capacity, depth) ==
  LET vs == [i \in DOMAIN e.args |-> EvaluateAt(e.args[i], facts, capacity, depth + 1)]
      failed == {i \in DOMAIN vs : vs[i] \in Errors}
  IN IF depth > MaxDepth THEN "TooDeep"
     ELSE CASE e.op = "const" -> IF e.p = 1 THEN "T" ELSE "F"
            [] e.op = "atom" -> IF e.p >= capacity THEN "OutOfRange" ELSE Get(facts, e.p)
            [] e.op = "all" -> Stopped(vs, "F")
            [] e.op = "any" -> Stopped(vs, "T")
            [] failed # {} -> vs[CHOOSE i \in failed : \A j \in failed : i <= j]
            [] e.op = "not" -> Negated(vs[1])
            [] e.op = "xor" -> KleeneXor(vs[1], vs[2])
            [] e.op = "implies" -> KleeneImplies(vs[1], vs[2])
Evaluate(e, facts) == EvaluateAt(e, facts, Fast, 0)

(* The checks made once, before an expression is compiled or stored.  Here *)
(* every operand is looked at.                                             *)
RECURSIVE Depth(_), Nodes(_), Predicates(_)
Depth(e) == IF e.args = <<>> THEN 0 ELSE 1 + Max({Depth(e.args[i]) : i \in DOMAIN e.args})
Nodes(e) == 1 + FoldLeft(LAMBDA n, x : n + Nodes(x), 0, e.args)
Predicates(e) ==
  IF e.op = "atom" THEN {e.p} ELSE UNION {Predicates(e.args[i]) : i \in DOMAIN e.args}

ValidPredicates(e) == Depth(e) <= MaxDepth /\ \A p \in Predicates(e) : p < Fast
ValidShape(e) == Depth(e) <= MaxDepth /\ Nodes(e) <= MaxNodes
ValidMultiword(e, capacity) == ValidShape(e) /\ \A p \in Predicates(e) : p < capacity

-----------------------------------------------------------------------------
(* The canonical form: constants folded, nests of one connective flattened, *)
(* operands sorted and repeated ones dropped, so that a guard written two  *)
(* ways is stored once.                                                    *)

Rank == [const |-> 0, atom |-> 1, not |-> 2, all |-> 3, any |-> 4, xor |-> 5, implies |-> 6]
(* An expression read from its root: comparing two such sequences compares *)
(* the expressions, the shorter list of operands first.                    *)
RECURSIVE Key(_)
Key(e) ==
  <<Rank[e.op], e.p>> \o FoldLeft(LAMBDA k, x : k \o Key(x), <<>>, e.args) \o <<-1>>
Before(a, b) ==
  LET s == Key(a)
      t == Key(b)
      apart == {i \in 1 .. Min({Len(s), Len(t)}) : s[i] # t[i]}
  IN apart # {} /\ s[Min(apart)] < t[Min(apart)]

NormalizeNot(e) ==
  CASE e.op = "const" -> Const(e.p = 0) [] e.op = "not" -> e.args[1] [] OTHER -> Not(e)

(* A conjunction: absorbing = FALSE; a disjunction: absorbing = TRUE. *)
NormalizeNest(es, op, absorbing) ==
  LET flat == FoldLeft(LAMBDA s, e : s \cup IF e.op = op THEN Range(e.args) ELSE {e}, {}, es)
      kept == flat \ {Const(~absorbing)}
      sorted == SortSeq(SetToSeq(kept), Before)
  IN IF Const(absorbing) \in Range(es) THEN Const(absorbing)
     ELSE CASE kept = {} -> Const(~absorbing)
            [] Cardinality(kept) = 1 -> sorted[1]
            [] OTHER -> [op |-> op, p |-> 0, args |-> sorted]

NormalizeXor(l, r) ==
  CASE l.op = "const" /\ r.op = "const" -> Const(l.p # r.p)
    [] l = Const(FALSE) -> r
    [] r = Const(FALSE) -> l
    [] l = Const(TRUE) -> NormalizeNot(r)
    [] r = Const(TRUE) -> NormalizeNot(l)
    [] OTHER -> IF Before(r, l) THEN Xor(r, l) ELSE Xor(l, r)

NormalizeImplies(l, r) ==
  CASE l = Const(FALSE) \/ r = Const(TRUE) -> Const(TRUE)
    [] l = Const(TRUE) -> r
    [] r = Const(FALSE) -> NormalizeNot(l)
    [] OTHER -> Implies(l, r)

RECURSIVE CanonicalizeValidated(_)
CanonicalizeValidated(e) ==
  LET args == [i \in DOMAIN e.args |-> CanonicalizeValidated(e.args[i])]
  IN CASE e.op \in {"const", "atom"} -> e
       [] e.op = "not" -> NormalizeNot(args[1])
       [] e.op = "all" -> NormalizeNest(args, "all", FALSE)
       [] e.op = "any" -> NormalizeNest(args, "any", TRUE)
       [] e.op = "xor" -> NormalizeXor(args[1], args[2])
       [] e.op = "implies" -> NormalizeImplies(args[1], args[2])

-----------------------------------------------------------------------------
(* Compilation.  A conjunction of literals becomes two masks; anything     *)
(* else keeps the expression.  The multiword form also compiles a          *)
(* disjunction of literals.                                                *)

(* The literals of a nest of `op`s, or ok = FALSE when it holds anything   *)
(* else.  `absorbed` is set by a constant that decides the whole nest.     *)
RECURSIVE Literals(_, _)
Literals(e, op) ==
  LET parts == [i \in DOMAIN e.args |-> Literals(e.args[i], op)]
      none == [ok |-> FALSE, yes |-> {}, no |-> {}, absorbed |-> FALSE]
      unit == [none EXCEPT !.ok = TRUE]
  IN CASE e.op = "const" -> [unit EXCEPT !.absorbed = (e.p = 1) = (op = "any")]
       [] e.op = "atom" -> [unit EXCEPT !.yes = {e.p}]
       [] e.op = "not" /\ e.args[1].op = "atom" -> [unit EXCEPT !.no = {e.args[1].p}]
       [] e.op = op /\ \A i \in DOMAIN parts : parts[i].ok ->
            [ok |-> TRUE,
             yes |-> UNION {parts[i].yes : i \in DOMAIN parts},
             no |-> UNION {parts[i].no : i \in DOMAIN parts},
             absorbed |-> \E i \in DOMAIN parts : parts[i].absorbed]
       [] OTHER -> none

Conjunction(e) == Literals(e, "all")
Disjunction(e) == Literals(e, "any")

Compile(e) ==
  LET conjunction == Conjunction(e)
  IN IF ~ValidPredicates(e) THEN [path |-> "refused", e |-> e]
     ELSE IF ~conjunction.ok THEN [path |-> "fallback", e |-> e]
     ELSE [path |-> "mask", required |-> conjunction]

CompiledEvaluate(guard, facts) ==
  IF guard.path = "fallback" THEN Evaluate(guard.e, facts)
  ELSE LET r == guard.required
       IN IF r.absorbed \/ facts.no \cap r.yes # {} \/ facts.yes \cap r.no # {} THEN "F"
          ELSE IF r.yes \subseteq facts.yes /\ r.no \subseteq facts.no THEN "T" ELSE "U"

IsContradictory(guard) ==
  guard.path = "mask" /\ (guard.required.absorbed \/ guard.required.yes \cap guard.required.no # {})

(* Multiword masks: a predicate is bit p % WordBits of word p \div WordBits,*)
(* and a mask maps each of the guard's words to the bits set in it.        *)
Words(capacity) == 0 .. ((capacity + WordBits - 1) \div WordBits) - 1
Split(ps, capacity) ==
  [w \in Words(capacity) |-> {p % WordBits : p \in {q \in ps : q \div WordBits = w}}]

MultiwordCompile(e, capacity) ==
  LET masks(l) == [yes |-> Split(l.yes, capacity), no |-> Split(l.no, capacity),
                   absorbed |-> l.absorbed]
      guard(path, l) == [path |-> path, capacity |-> capacity, masks |-> masks(l)]
  IN IF ~ValidMultiword(e, capacity) THEN [path |-> "refused", e |-> e]
     ELSE IF Conjunction(e).ok THEN guard("conjunction", Conjunction(e))
     ELSE IF Disjunction(e).ok THEN guard("disjunction", Disjunction(e))
     ELSE [path |-> "generic", capacity |-> capacity, e |-> e]

(* Each word contributes the literals it decides one way and the literals  *)
(* it leaves open; the answer is read from the union over the words.       *)
\* mutant: a negated literal counts as met unless its predicate is known true
ConjunctionUnlessTrue(m, yes, no, words) ==
  LET conflict == UNION {(no[w] \cap m.yes[w]) \cup (yes[w] \cap m.no[w]) : w \in words}
      missing == UNION {m.yes[w] \ yes[w] : w \in words}
  IN IF m.absorbed \/ conflict # {} THEN "F" ELSE IF missing = {} THEN "T" ELSE "U"
EvaluateConjunction(m, yes, no, words) ==
  LET conflict == UNION {(no[w] \cap m.yes[w]) \cup (yes[w] \cap m.no[w]) : w \in words}
      missing == UNION {(m.yes[w] \ yes[w]) \cup (m.no[w] \ no[w]) : w \in words}
  IN IF m.absorbed \/ conflict # {} THEN "F" ELSE IF missing = {} THEN "T" ELSE "U"
EvaluateDisjunction(m, yes, no, words) ==
  LET satisfied == UNION {(yes[w] \cap m.yes[w]) \cup (no[w] \cap m.no[w]) : w \in words}
      missing == UNION {(m.yes[w] \ no[w]) \cup (m.no[w] \ yes[w]) : w \in words}
  IN IF m.absorbed \/ satisfied # {} THEN "T" ELSE IF missing = {} THEN "F" ELSE "U"

MultiwordEvaluate(guard, facts, capacity) ==
  LET yes == Split(facts.yes, capacity)
      no == Split(facts.no, capacity)
      words == Words(guard.capacity)
  IN CASE capacity < guard.capacity -> "CapacityTooSmall"
       [] guard.path = "generic" -> EvaluateAt(guard.e, facts, capacity, 0)
       [] guard.path = "conjunction" -> EvaluateConjunction(guard.masks, yes, no, words)
       [] guard.path = "disjunction" -> EvaluateDisjunction(guard.masks, yes, no, words)

(* A batch compiles every guard or refuses them all, and answers in their  *)
(* order.                                                                  *)
BatchCompiles(es, capacity) == \A i \in DOMAIN es : ValidMultiword(es[i], capacity)
BatchEvaluate(es, facts, capacity) ==
  [i \in DOMAIN es |-> MultiwordEvaluate(MultiwordCompile(es[i], capacity), facts, capacity)]

-----------------------------------------------------------------------------
(* Weighted constraints over predicates: the sum of the weights of the     *)
(* predicates that are true, against a threshold.  With some predicates    *)
(* unknown the sum is an interval, and a relation is decided when the      *)
(* interval lies on one side of the threshold.  The sums refuse to         *)
(* overflow.                                                               *)
(*   term        [predicate, weight]                                       *)
(*   constraint  [terms, relation, threshold], terms in predicate order    *)

Refused == [refused |-> TRUE]

(* Declared over keys and again, after binding, over predicates: the same  *)
(* two checks and the same order.                                          *)
NewConstraint(terms, relation, threshold) ==
  IF \/ Len(terms) > MaxTerms
     \/ \E i \in DOMAIN terms : terms[i].weight = 0
     \/ \E i, j \in DOMAIN terms : i # j /\ terms[i].predicate = terms[j].predicate
  THEN Refused
  ELSE [refused |-> FALSE, relation |-> relation, threshold |-> threshold,
        terms |-> SortSeq(terms, LAMBDA a, b : a.predicate < b.predicate)]

NewNonNegative(terms, relation, threshold) ==
  IF \E i \in DOMAIN terms : terms[i].weight < 0 THEN Refused
  ELSE NewConstraint(terms, relation, threshold)

Weighted(predicates, w) ==
  [i \in DOMAIN predicates |-> [predicate |-> predicates[i], weight |-> w]]
StableCardinality(predicates, relation, n) ==
  NewNonNegative(Weighted(predicates, 1), relation, n)
AtMost(predicates, n) == StableCardinality(predicates, "le", n)
AtLeast(predicates, n) == StableCardinality(predicates, "ge", n)
Exactly(predicates, n) == StableCardinality(predicates, "eq", n)
MutuallyExclusive(predicates) == AtMost(predicates, 1)
CapacityBudget(terms, maximum) == NewNonNegative(terms, "le", maximum)
Difference(a, b) == Weighted(<<a>>, 1) \o Weighted(<<b>>, -1)
Requires(feature, required) == NewConstraint(Difference(feature, required), "le", 0)
Equivalent(left, right) == NewConstraint(Difference(left, right), "eq", 0)

(* Binding replaces each key by its index in a registry. *)
Bind(c, registry) ==
  LET known == {registry[i] : i \in DOMAIN registry}
      at(k) == (CHOOSE i \in DOMAIN registry : registry[i] = k) - 1
  IN IF \E i \in DOMAIN c.terms :
          c.terms[i].predicate \notin known \/ at(c.terms[i].predicate) >= Fast
     THEN Refused
     ELSE NewConstraint([i \in DOMAIN c.terms |->
                          [c.terms[i] EXCEPT !.predicate = at(c.terms[i].predicate)]],
                        c.relation, c.threshold)

Overflowed == MaxSum + 1  \* no sum has this value
CheckedAdd(sum, w) ==
  IF sum = Overflowed \/ sum + w > MaxSum \/ sum + w < -MaxSum - 1 THEN Overflowed
  ELSE sum + w

\* mutant: an unknown predicate only ever raises the sum
BoundsRaised(c, facts) ==
  LET low(t) == IF Get(facts, t.predicate) = "T" THEN t.weight ELSE 0
      high(t) == IF Get(facts, t.predicate) = "F" THEN 0 ELSE t.weight
  IN [min |-> FoldLeft(LAMBDA s, t : CheckedAdd(s, low(t)), 0, c.terms),
      max |-> FoldLeft(LAMBDA s, t : CheckedAdd(s, high(t)), 0, c.terms)]
Bounds(c, facts) ==
  LET low(t) == CASE Get(facts, t.predicate) = "T" -> t.weight
                  [] Get(facts, t.predicate) = "F" -> 0
                  [] OTHER -> Min({t.weight, 0})
      high(t) == CASE Get(facts, t.predicate) = "T" -> t.weight
                   [] Get(facts, t.predicate) = "F" -> 0
                   [] OTHER -> Max({t.weight, 0})
  IN [min |-> FoldLeft(LAMBDA s, t : CheckedAdd(s, low(t)), 0, c.terms),
      max |-> FoldLeft(LAMBDA s, t : CheckedAdd(s, high(t)), 0, c.terms)]

Compare(c, b) ==
  CASE c.relation = "le" ->
         IF b.max <= c.threshold THEN "T" ELSE IF b.min > c.threshold THEN "F" ELSE "U"
    [] c.relation = "ge" ->
         IF b.min >= c.threshold THEN "T" ELSE IF b.max < c.threshold THEN "F" ELSE "U"
    [] c.relation = "eq" ->
         IF b.min = b.max /\ b.min = c.threshold THEN "T"
         ELSE IF c.threshold < b.min \/ c.threshold > b.max THEN "F" ELSE "U"
EvaluateConstraint(c, facts) ==
  LET b == Bounds(c, facts)
  IN IF Overflowed \in {b.min, b.max} THEN "overflow" ELSE Compare(c, b)

(* The oracle: every completion of the unknown predicates, counted.        *)
CompleteFacts(facts, unknown, n) ==
  [yes |-> facts.yes \cup {unknown[i] : i \in {j \in DOMAIN unknown : (n \div 2^(j - 1)) % 2 = 1}},
   no |-> facts.no \cup {unknown[i] : i \in {j \in DOMAIN unknown : (n \div 2^(j - 1)) % 2 = 0}}]
AnalyzeConstraint(c, facts) ==
  LET open == SelectSeq(c.terms, LAMBDA t : Get(facts, t.predicate) = "U")
      unknown == [i \in DOMAIN open |-> open[i].predicate]
      space == 2^Len(unknown)
      values == [n \in 0 .. space - 1 |-> EvaluateConstraint(c, CompleteFacts(facts, unknown, n))]
  IN CASE Len(unknown) > MaxVariables -> "TooManyVariables"
       [] space > MaxAssignments -> "TooManyAssignments"
       [] \E n \in DOMAIN values : values[n] = "overflow" -> "overflow"
       [] \A n \in DOMAIN values : values[n] = "T" -> "T"
       [] \A n \in DOMAIN values : values[n] = "F" -> "F"
       [] OTHER -> "U"

=============================================================================

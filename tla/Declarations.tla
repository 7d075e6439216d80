---------------------------- MODULE Declarations -----------------------------
(***************************************************************************)
(* What callers declare in whatever order suits them and then hand to one  *)
(* checked construction: the elastic dimensions of a resource and what     *)
(* goes with them, the parts of a resource group, the advice of a policy,  *)
(* and the candidates of a kernel plan.                                    *)
(***************************************************************************)
EXTENDS ResourceGroup, KernelPlanner

CONSTANTS
    SpecOffer,    \* [list -> what a resource's builder may be given for it]
    GroupOffer,   \* the same for a group's builder; envelopes are prepared
    AdviceOffer,  \* the same for advice about Advised
    Advised,      \* a built resource
    Known,        \* the resources of the document a group is lowered into
    Begun,        \* members a group's builder was given first
    MaxDeclared   \* bound: [kind of builder -> further calls]

VARIABLES
    kind,      \* what is being declared
    declared,  \* the calls so far, by list
    calls,     \* how many
    made       \* what was built, or Unanswered

declarationVars == <<kind, declared, calls, made>>
allVars == <<declarationVars, vars>>

NoAdvice == [objectives |-> <<>>, hints |-> <<>>]

Resting == CHOOSE x \in Setting : TRUE

DeclarationInit ==
    /\ calls = 0 /\ made = Unanswered
    /\ \/ kind = "kernel" /\ declared = NoAdvice /\ Init
       \/ /\ \/ kind = "resource" /\ declared = Empty
             \/ /\ kind = "group"
                /\ declared \in {[Nothing EXCEPT !.members = m] : m \in Begun}
             \/ kind = "advice" /\ declared = NoAdvice
          /\ policy = Resting[1] /\ snapshot = Resting[2] /\ offered = <<>> /\ outcome = Unanswered

(* A call of a builder's method: it only remembers.                        *)
DeclareIn(list, item) == declared' = [declared EXCEPT ![list] = Append(@, item)]

(* safety_capacity_envelope declares its adaptive budget too.              *)
DeclareForGroup(list, item) ==
    IF list = "envelopes"
    THEN declared' = [declared EXCEPT !.envelopes = Append(@, item),
                                      !.budgets = Append(@, item.adaptive)]
    ELSE DeclareIn(list, item)

Declare ==
    /\ kind # "kernel"
    /\ made = Unanswered /\ calls < MaxDeclared[kind] /\ calls' = calls + 1
    /\ \/ kind = "resource" /\ \E l \in DOMAIN SpecOffer : \E x \in SpecOffer[l] : DeclareIn(l, x)
       \/ kind = "group" /\ \E l \in DOMAIN GroupOffer : \E x \in GroupOffer[l] : DeclareForGroup(l, x)
       \/ kind = "advice" /\ \E l \in DOMAIN AdviceOffer : \E x \in AdviceOffer[l] : DeclareIn(l, x)
    /\ UNCHANGED <<kind, made, vars>>

Result(k, d) ==
    CASE k = "resource" -> BuildSpec(1, d)
      [] k = "group" -> BuildGroup(1, d)
      [] k = "advice" -> Advise(Advised, d.objectives, d.hints)

Make ==
    /\ made = Unanswered /\ kind # "kernel"
    /\ made' = Result(kind, declared)
    /\ UNCHANGED <<kind, declared, calls, vars>>

DeclarationNext ==
    \/ Declare \/ Make
    \/ kind = "kernel" /\ Next /\ UNCHANGED declarationVars

DeclarationSpec == DeclarationInit /\ [][DeclarationNext]_allVars

-----------------------------------------------------------------------------
(* Properties.                                                             *)

Built(k) == kind = k /\ made # Unanswered /\ ~IsErr(made)

(* The same declarations in another order: that of their values.  Labels   *)
(* keep theirs (a later one wins), and so do a resource's objectives (they *)
(* are ranked by it).                                                      *)
Reordered ==
    CASE kind = "resource" -> [Canonical(declared) EXCEPT !.labels = declared.labels]
      [] kind = "group" ->
            [declared EXCEPT !.members = Sorted(@), !.dependencies = SortedPairs(@),
                 !.budgets = SortSeq(@, LAMBDA a, b : a.id < b.id),
                 !.invariants = SortSeq(@, LAMBDA a, b : a.contract < b.contract)]
      [] kind = "advice" -> [objectives |-> Sorted(declared.objectives),
                             hints |-> SortedPairs(declared.hints)]

(* Whether declarations are accepted, and what is made of them, does not   *)
(* depend on the order they came in; nor does the outcome of a plan.       *)
OrderIrrelevant ==
    /\ OfferOrderIrrelevant
    /\ kind # "kernel" /\ made # Unanswered =>
          LET again == Result(kind, Reordered)
          IN  /\ IsErr(again) = IsErr(made)
              /\ ~IsErr(made) => again = made

(* The builder and the document check alike: what the builder made lowers  *)
(* into the document that the same declarations give as parts, and what it *)
(* refused is refused there for the same reason.                           *)
BuilderMatchesDocument ==
    kind = "resource" /\ made # Unanswered =>
        LET direct == FromDeclarations(<<1>>, <<declared>>)
        IN  IF IsErr(made) THEN direct = made
            ELSE /\ LowerSpecs(<<made>>) = direct
                 /\ PolicyError(<<"resource", 1>>, made, 0) = "none"

(* What is built does not depend on who builds it or in which order.       *)
BuildersAgree == OrderIrrelevant /\ BuilderMatchesDocument

(* A group that was built can be ordered: no members depend on each other  *)
(* in a circle, and every name in it is a member's.  A reported circle is  *)
(* one.  A document with the group resolves its members, and no others.    *)
GroupIsOrdered ==
    kind = "group" /\ made # Unanswered =>
        LET needs(S) == \A m \in S : \E n \in S : <<m, n>> \in Elements(declared.dependencies)
            cycle == FindDependencyCycle(Sorted(declared.members),
                                         SortedPairs(declared.dependencies))
            document == Assemble([i \in DOMAIN Known |-> [id |-> Known[i]]])
            grouped == GroupedDocument(document, <<made>>)
        IN  /\ IsErr(made) /\ made.error = "DependencyCycle" =>
                 /\ cycle # {}
                 /\ \A S \in SUBSET cycle \ {{}, cycle} : \E m \in S, n \in cycle \ S :
                       <<m, n>> \in Elements(declared.dependencies)
            /\ ~IsErr(made) =>
                 /\ \A S \in SUBSET Elements(made.members) \ {{}} : ~needs(S)
                 /\ UNION {{d[1], d[2]} : d \in Elements(made.dependencies)}
                      \subseteq Elements(made.members)
                 /\ IsErr(grouped) <=> ~(Elements(made.members) \subseteq Elements(Known))
                 /\ ~IsErr(grouped) =>
                      /\ TargetIsBound(<<"group", 1>>, grouped)
                      /\ \A id \in Elements(Known) :
                            GroupResource(grouped, 1, id) # {} <=> id \in Elements(made.members)

(* Whatever the adaptive budgets of a group admit, together with what      *)
(* safety reserved it is within the total of the policy.                   *)
SafetyReserved ==
    Built("group") =>
        \A e \in Elements(made.envelopes) :
            LET terms == e.adaptive.terms
                bytes(S) == FoldLeft(LAMBDA n, t : IF t.predicate \in S THEN n + t.weight ELSE n,
                                     0, terms)
                known(S) == [yes |-> S, no |-> {t.predicate : t \in Elements(terms)} \ S]
                reserved == FoldLeft(LAMBDA n, r : n + r.bytes, 0, e.reservations)
            IN  /\ e.adaptive \in Elements(made.budgets)
                /\ \A S \in SUBSET {t.predicate : t \in Elements(terms)} :
                      P!EvaluateConstraint(e.adaptive.constraint, known(S)) = "T"
                        => reserved + bytes(S) <= e.total

(* Plans about any members of a group that was built make one envelope,    *)
(* however they were listed, in which what is required comes before what   *)
(* depends on it, also through members no plan is about; a second plan     *)
(* about a member, one about a member that is defined otherwise now, or    *)
(* one without a declared candidate, makes none.                           *)
EnvelopeIsOrdered ==
    Built("group") =>
        LET members == Elements(made.members)
            document == [resources |-> [i \in DOMAIN made.members |->
                                           [id |-> made.members[i], declared |-> {1}]]]
            grouped == GroupedDocument(document, <<made>>)
            Of(m) == [resource |-> m, definition |-> [id |-> m, declared |-> {1}],
                      candidate |-> {1}, finite |-> TRUE]
            Requires(m, n) == \A S \in SUBSET members :
                (m \in S /\ \A d \in Elements(made.dependencies) : d[1] \in S => d[2] \in S) => n \in S
            Enveloped(order) == CompositeEnvelope(grouped, 1, [i \in DOMAIN order |-> Of(order[i])])
        IN  \A T \in SUBSET members \ {{}} :
                LET listed == SetToSeq(T)
                    envelope == Enveloped(listed)
                    Spoilt(plan) == CompositeEnvelope(grouped, 1,
                        <<plan>> \o [i \in DOMAIN listed |-> Of(listed[i])])
                IN  /\ ~IsErr(envelope) /\ Enveloped(Reverse(listed)) = envelope
                    /\ [k \in DOMAIN envelope.subplans |-> envelope.subplans[k].resource]
                          \in SetToSeqs(T)
                    /\ \A i, k \in DOMAIN envelope.subplans : i < k =>
                          ~Requires(envelope.subplans[i].resource, envelope.subplans[k].resource)
                    /\ \A m \in members : \A plan \in
                          {[Of(m) EXCEPT !.definition.declared = {1, 2}], [Of(m) EXCEPT !.candidate = {}],
                           [Of(m) EXCEPT !.candidate = {2}], [Of(m) EXCEPT !.finite = FALSE]} :
                             IsErr(Spoilt(plan))
                    /\ \A m \in T : IsErr(Spoilt(Of(m)))

(* A group that was built is one its members can be planned with.          *)
GroupIsSound == GroupIsOrdered /\ SafetyReserved /\ EnvelopeIsOrdered

(* What builders accept (spec.rs, bridge.rs, group.rs) is one thing however*)
(* it was said, and fit to be planned with.                                *)
DeclarationsAreSound == BuildersAgree /\ GroupIsSound
=============================================================================

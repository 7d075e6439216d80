---------------------------- MODULE ResourceGroup ----------------------------
(***************************************************************************)
(* Declarations (elastic-core, resource/): of one elastic resource, and of *)
(* a group of resources that are planned together.                         *)
(*                                                                         *)
(* A resource is checked by its builder (spec.rs), and again when it is    *)
(* lowered into the document the runtime plans from (elastic-eir), which   *)
(* may also be assembled from parts; a policy names it (policy.rs).  A     *)
(* group (group.rs, budget.rs; elastic-eir, group.rs) has members, which   *)
(* may depend on each other, what they share of one budget, invariants     *)
(* across them, and the capacity that safety keeps out of the budgets.     *)
(*                                                                         *)
(* A declaration is a record of lists in the order of the calls.  Names    *)
(* are numbers, ordered as the code orders them; a transition or a         *)
(* capability is <<mechanism, dimension>>, an invariant <<kind, scope>>    *)
(* with scope 0 for the whole resource, a label <<key, value>> with key 0  *)
(* for a blank one, a dependency <<dependent, required>>.  An error is its *)
(* name in the code.  Sums of bytes are 64-bit and refuse to overflow;     *)
(* MaxBytes stands for the largest.                                        *)
(***************************************************************************)
EXTENDS Naturals, Sequences, FiniteSets, SequencesExt

CONSTANTS MaxResources, MaxConstraints, MaxHints   \* MAX_EIR_DOCUMENT_RESOURCES, ...

ASSUME SpecAssumption == {MaxResources, MaxConstraints, MaxHints} \subseteq Nat

Err(name) == [error |-> name]
IsErr(x) == DOMAIN x = {"error"}

InOrder(a, b) == a < b
PairsInOrder(a, b) == a[1] < b[1] \/ (a[1] = b[1] /\ a[2] < b[2])
Elements(s) == {s[i] : i \in DOMAIN s}
Sorted(s) == SortSeq(s, InOrder)
SortedPairs(s) == SortSeq(s, PairsInOrder)

RepeatsInARow(s) ==             \* mutant: the list is not sorted first
    \E i \in 1 .. Len(s) - 1 : s[i] = s[i + 1]

(* reject_duplicate.                                                       *)
Repeats(s) == Cardinality(Elements(s)) < Len(s)

Empty == [dimensions |-> <<>>, invariants |-> <<>>, objectives |-> <<>>,
          transitions |-> <<>>, capabilities |-> <<>>, observations |-> <<>>,
          labels |-> <<>>]

(* The map of the labels: of two with one key, the later call wins.        *)
LabelsOf(labels) ==
    [k \in {l[1] : l \in Elements(labels)} |->
        labels[CHOOSE i \in DOMAIN labels : /\ labels[i][1] = k
                  /\ \A j \in i + 1 .. Len(labels) : labels[j][1] # k][2]]

(* Checks run in order: the first that fails gives the error.              *)
FirstFailure(checks) ==
    LET failed == {i \in DOMAIN checks : checks[i][1]}
    IN  IF failed = {} THEN "none"
        ELSE checks[CHOOSE i \in failed : \A j \in failed : i <= j][2]

BeyondDimensions(pairs, parts) ==
    \E p \in Elements(pairs) : p[2] \notin Elements(parts.dimensions)

(* The first capability without a transition: beyond the declared          *)
(* dimensions, or only not grounded in what is admitted.                   *)
FirstUngrounded(parts) ==
    SelectSeq(parts.capabilities, LAMBDA c : c \notin Elements(parts.transitions))
CapabilityBeyond(parts) ==
    /\ FirstUngrounded(parts) # <<>>
    /\ Head(FirstUngrounded(parts))[2] \notin Elements(parts.dimensions)

(* ResourceSpecBuilder::build.                                             *)
SpecError(parts) == FirstFailure(<<
    <<\E l \in Elements(parts.labels) : l[1] = 0, "InvalidLabelKey">>,
    <<Repeats(parts.dimensions), "DuplicateDimension">>,
    <<parts.dimensions = <<>>, "NoElasticDimensions">>,
    <<Repeats(parts.objectives), "DuplicateObjective">>,
    <<Repeats(parts.invariants), "DuplicateInvariant">>,
    <<\E i \in Elements(parts.invariants) :
         i[2] # 0 /\ i[2] \notin Elements(parts.dimensions), "VacuousInvariant">>,
    <<Repeats(parts.transitions), "DuplicateTransition">>,
    <<BeyondDimensions(parts.transitions, parts), "TransitionBeyondElasticDimensions">>,
    <<Repeats(parts.capabilities), "DuplicateCapabilityRequirement">>,
    <<CapabilityBeyond(parts), "CapabilityBeyondElasticDimensions">>,
    <<FirstUngrounded(parts) # <<>>, "CapabilityNotGrounded">>,
    <<Repeats(parts.observations), "DuplicateObservation">> >>)

(* Every list becomes canonical; the objectives keep their order: it ranks *)
(* them.                                                                   *)
Canonical(parts) ==
    [dimensions |-> Sorted(parts.dimensions),
     invariants |-> SortedPairs(parts.invariants),
     objectives |-> parts.objectives,
     transitions |-> SortedPairs(parts.transitions),
     capabilities |-> SortedPairs(parts.capabilities),
     observations |-> Sorted(parts.observations),
     labels |-> LabelsOf(parts.labels)]

BuildSpec(id, parts) ==
    IF SpecError(parts) # "none" THEN Err(SpecError(parts))
    ELSE [id |-> id, parts |-> Canonical(parts)]

-----------------------------------------------------------------------------
(* The document.                                                           *)

(* validate_resource_parts; the labels are a map by now.                   *)
DocumentError(parts) == FirstFailure(<<
    <<0 \in DOMAIN parts.labels, "InvalidLabelKey">>,
    <<Repeats(parts.dimensions), "DuplicateDimension">>,
    <<parts.dimensions = <<>>, "NoElasticDimensions">>,
    <<Repeats(parts.objectives), "DuplicateObjective">>,
    <<Repeats(parts.invariants), "DuplicateInvariant">>,
    <<\E i \in DOMAIN parts.invariants : parts.invariants[i][2] \notin
         {0} \cup Elements(parts.dimensions), "VacuousInvariant">>,
    <<Repeats(parts.transitions), "DuplicateTransition">>,
    <<BeyondDimensions(parts.transitions, parts), "TransitionBeyondElasticDimensions">>,
    <<Repeats(parts.capabilities), "DuplicateCapabilityRequirement">>,
    <<CapabilityBeyond(parts), "CapabilityBeyondElasticDimensions">>,
    <<FirstUngrounded(parts) # <<>>, "CapabilityNotGrounded">>,
    <<Repeats(parts.observations), "DuplicateObservation">> >>)

NormalizeInCallOrder(id, parts) ==  \* mutant: the transitions are not sorted
    [id |-> id,
     parts |-> [parts EXCEPT !.dimensions = Sorted(@), !.invariants = SortedPairs(@),
                    !.capabilities = SortedPairs(@), !.observations = Sorted(@)],
     grounded |-> {t \in Elements(parts.transitions) : t \in Elements(parts.capabilities)}]

(* EirResource::normalize: a transition is grounded when the resource also *)
(* requires the capability for it.                                         *)
Normalize(id, parts) ==
    [id |-> id,
     parts |-> [parts EXCEPT !.dimensions = Sorted(@), !.invariants = SortedPairs(@),
                    !.transitions = SortedPairs(@), !.capabilities = SortedPairs(@),
                    !.observations = Sorted(@)],
     grounded |-> {t \in Elements(parts.transitions) : t \in Elements(parts.capabilities)}]

FromParts(id, parts) ==
    IF DocumentError(parts) # "none" THEN Err(DocumentError(parts)) ELSE Normalize(id, parts)

(* EirDocument::assemble: resources of different names, in their order.    *)
Assemble(resources) ==
    CASE resources = <<>> -> Err("EmptyDocument")
      [] Len(resources) > MaxResources -> Err("TooManyResources")
      [] \E i, j \in DOMAIN resources : i # j /\ resources[i].id = resources[j].id ->
             Err("DuplicateResourceIdentity")
      [] OTHER -> [resources |-> SortSeq(resources, LAMBDA a, b : a.id < b.id)]

(* push of each specification, then finish.                                *)
LowerSpecs(specs) == Assemble([i \in DOMAIN specs |-> FromParts(specs[i].id, specs[i].parts)])

(* The same declarations, given as parts: each is validated by itself.     *)
FromDeclarations(ids, declared) ==
    LET parts == [i \in DOMAIN ids |-> [declared[i] EXCEPT !.labels = LabelsOf(@)]]
        lowered == [i \in DOMAIN ids |-> FromParts(ids[i], parts[i])]
        bad == {i \in DOMAIN ids : IsErr(lowered[i])}
    IN  CASE Len(ids) > MaxResources -> Err("TooManyResources")
          [] bad # {} -> lowered[CHOOSE i \in bad : \A j \in bad : i <= j]
          [] OTHER -> Assemble(lowered)

Resource(document, id) == {r \in Elements(document.resources) : r.id = id}

-----------------------------------------------------------------------------
(* The policy of a resource, and the advice that goes with it.             *)

(* ResourcePolicySpec::new: the target is <<kind, name>>.                  *)
PolicyError(target, spec, constraints) == FirstFailure(<<
    <<target[1] # "resource", "TargetKindMismatch">>,
    <<target[2] # spec.id, "TargetResourceMismatch">>,
    <<constraints > MaxConstraints, "TooManyConstraints">> >>)

RankIn(spec, o) == CHOOSE i \in DOMAIN spec.parts.objectives : spec.parts.objectives[i] = o

(* ResourcePolicyAdvisorySpec::new: objectives by their declared rank,     *)
(* hints <<key, value>> by key.                                            *)
Advise(spec, objectives, hints) ==
    IF \/ Elements(objectives) \ Elements(spec.parts.objectives) # {}
       \/ Repeats(objectives) \/ Len(hints) > MaxHints
       \/ Repeats([i \in DOMAIN hints |-> hints[i][1]])
    THEN Err("advice")
    ELSE [objectives |-> SortSeq(objectives,
                             LAMBDA a, b : RankIn(spec, a) < RankIn(spec, b)),
          hints |-> SortSeq(hints, LAMBDA a, b : a[1] < b[1])]

-----------------------------------------------------------------------------
(* Groups.                                                                *)

CONSTANTS
    MaxMembers, MaxDependencies, MaxListed,  \* MAX_RESOURCE_GROUP_...
    MaxReservations,                         \* MAX_SAFETY_RESERVATIONS_PER_ENVELOPE
    MaxBytes,                                \* largest u64
    MaxDepth, Fast, WordBits, MaxNodes, MaxVariables, MaxAssignments, MaxTerms, MaxSum

P == INSTANCE BooleanLogic

ASSUME GroupAssumption ==
    {MaxMembers, MaxDependencies, MaxListed, MaxReservations, MaxBytes} \subseteq Nat

-----------------------------------------------------------------------------
(* What a group is declared from; each is checked when it is made.         *)

TermsInOrder(a, b) ==
    \/ a.resource < b.resource
    \/ a.resource = b.resource /\ a.predicate < b.predicate
    \/ a.resource = b.resource /\ a.predicate = b.predicate /\ a.weight < b.weight

(* SharedBudget::new, of terms [resource, predicate, weight].  Neighbours  *)
(* in the order of resources are compared here; the constraint finds what  *)
(* is left of a predicate used twice.                                      *)
NewBudget(id, terms, maximum) ==
    LET sorted == SortSeq(terms, TermsInOrder)
        constraint == P!CapacityBudget([i \in DOMAIN sorted |->
            [predicate |-> sorted[i].predicate, weight |-> sorted[i].weight]], maximum)
    IN  CASE \E t \in Elements(terms) : t.weight <= 0 -> Err("NonPositiveWeight")
          [] terms = <<>> -> Err("EmptyBudget")
          [] maximum < 0 -> Err("NegativeMaximum")
          [] \E i \in 1 .. Len(sorted) - 1 : sorted[i].predicate = sorted[i + 1].predicate ->
                 Err("DuplicatePredicate")
          [] OTHER -> IF constraint.refused THEN Err("PseudoBoolean")
                      ELSE [id |-> id, terms |-> sorted, constraint |-> constraint]

(* CapacityBudgetContract::new: a budget of bytes, each term some.         *)
CapacityContract(id, terms, maximum) ==
    IF \E t \in Elements(terms) : t.weight = 0 THEN Err("ZeroCost")
    ELSE NewBudget(id, terms, maximum)

(* CrossResourceInvariant::new: the owner is one of several participants.  *)
NewInvariant(contract, owner, participants) ==
    CASE Len(participants) < 2 -> Err("TooFewParticipants")
      [] Repeats(participants) -> Err("DuplicateParticipant")
      [] owner \notin Elements(participants) -> Err("OwnerNotParticipant")
      [] OTHER -> [contract |-> contract, owner |-> owner, participants |-> Sorted(participants)]

BytesWrapping(reservations) ==  \* mutant: the sum wraps
    FoldLeft(LAMBDA sum, r : (sum + r.bytes) % (MaxBytes + 1), 0, reservations)

(* The bytes of a list of reservations, as a checked sum.                  *)
BytesOf(reservations) ==
    FoldLeft(LAMBDA sum, r : IF sum + r.bytes > MaxBytes THEN MaxBytes + 1 ELSE sum + r.bytes,
             0, reservations)

(* SafetyCapacityEnvelope::new: what is reserved bounds the adaptive       *)
(* budget.                                                                 *)
NewEnvelope(kind, id, total, reservations, terms) ==
    LET reserved == BytesOf(reservations)
        adaptive == CapacityContract(id, terms, total - reserved)
    IN  CASE \E r \in Elements(reservations) : r.bytes = 0 -> Err("ZeroReservation")
          [] reservations = <<>> -> Err("EmptyReservations")
          [] Len(reservations) > MaxReservations -> Err("TooManyReservations")
          [] Repeats([i \in DOMAIN reservations |-> reservations[i].id]) ->
                 Err("DuplicateReservation")
          [] \E r \in Elements(reservations) : r.kind # kind -> Err("ReservationKindMismatch")
          [] reserved > MaxBytes -> Err("ReservedBytesOverflow")
          [] reserved > total -> Err("ReservationsExceedTotal")
          [] OTHER -> IF IsErr(adaptive) THEN adaptive
                      ELSE [kind |-> kind, total |-> total, reserved |-> reserved,
                            reservations |-> SortSeq(reservations, LAMBDA a, b : a.id < b.id),
                            adaptive |-> adaptive]

-----------------------------------------------------------------------------
(* Cycles among the dependencies: a depth-first search over the members,   *)
(* by their index.  0 is not visited, 1 on the path, 2 done.               *)

Outgoing(members, dependencies) ==
    LET from(m) == SelectSeq(dependencies, LAMBDA d : d[1] = m)
    IN  [m \in Elements(members) |->
            [i \in DOMAIN from(m) |-> from(m)[i][2]]]

RECURSIVE Visit(_, _, _)
Visit(node, outgoing, search) ==
    LET entered == [search EXCEPT !.mark[node] = 1, !.path = Append(@, node)]
        step(s, next) ==
            IF s.cycle # {} THEN s
            ELSE CASE s.mark[next] = 0 -> Visit(next, outgoing, s)
                   [] s.mark[next] = 1 ->
                        [s EXCEPT !.cycle = {s.path[i] : i \in
                            {k \in DOMAIN s.path :
                               \E j \in 1 .. k : s.path[j] = next}}]
                   [] OTHER -> s
        left == FoldLeft(step, entered, outgoing[node])
    IN  IF left.cycle # {} THEN left
        ELSE [left EXCEPT !.mark[node] = 2, !.path = Front(@)]

CycleOnPath(members, dependencies) ==  \* mutant: the whole path is reported
    LET outgoing == Outgoing(members, dependencies)
        start == [mark |-> [m \in Elements(members) |-> 0], path |-> <<>>, cycle |-> {}]
        found == FoldLeft(LAMBDA s, m : IF s.cycle = {} /\ s.mark[m] = 0
                                        THEN Visit(m, outgoing, s) ELSE s, start, members)
    IN  IF found.cycle = {} THEN {} ELSE Elements(found.path)

(* The members of the first cycle found; none if there is no cycle.        *)
FindDependencyCycle(members, dependencies) ==
    LET outgoing == Outgoing(members, dependencies)
        start == [mark |-> [m \in Elements(members) |-> 0], path |-> <<>>, cycle |-> {}]
    IN  FoldLeft(LAMBDA s, m : IF s.cycle = {} /\ s.mark[m] = 0
                               THEN Visit(m, outgoing, s) ELSE s, start, members).cycle

-----------------------------------------------------------------------------
(* Building.                                                               *)

Nothing == [members |-> <<>>, dependencies |-> <<>>, budgets |-> <<>>,
            invariants |-> <<>>, envelopes |-> <<>>]

(* The first dependency that is not between two different members.         *)
BadDependency(d) ==
    LET bad == SelectSeq(d.dependencies, LAMBDA e :
                   e[1] = e[2] \/ {e[1], e[2]} \ Elements(d.members) # {})
    IN  IF bad = <<>> THEN "none"
        ELSE IF Head(bad)[1] = Head(bad)[2] THEN "SelfDependency" ELSE "UnknownDependencyMember"

IdsOf(list) == [i \in DOMAIN list |-> list[i].id]

(* ResourceGroupBuilder::build.                                            *)
GroupError(d) ==
    LET members == Elements(d.members)
        shares(b) == {t.resource : t \in Elements(b.terms)}
    IN  FirstFailure(<<
        <<d.members = <<>>, "EmptyGroup">>,
        <<Len(d.members) > MaxMembers, "TooManyMembers">>,
        <<Len(d.dependencies) > MaxDependencies, "TooManyDependencies">>,
        <<Len(d.budgets) > MaxListed, "TooManySharedBudgets">>,
        <<Len(d.invariants) > MaxListed, "TooManyCrossInvariants">>,
        <<Len(d.envelopes) > MaxListed, "TooManySafetyCapacityEnvelopes">>,
        <<Repeats(d.members), "DuplicateMember">>,
        <<BadDependency(d) # "none", BadDependency(d)>>,
        <<Repeats(d.dependencies), "DuplicateDependency">>,
        <<BadDependency(d) = "none"
            /\ FindDependencyCycle(Sorted(d.members), SortedPairs(d.dependencies)) # {},
          "DependencyCycle">>,
        <<Repeats(IdsOf(d.budgets)), "DuplicateSharedBudget">>,
        <<\E b \in Elements(d.budgets) : shares(b) \ members # {}, "UnknownSharedBudgetMember">>,
        <<Repeats([i \in DOMAIN d.invariants |-> d.invariants[i].contract]),
          "DuplicateCrossInvariant">>,
        <<\E v \in Elements(d.invariants) : Elements(v.participants) \ members # {},
          "UnknownCrossInvariantMember">>,
        <<\E e \in Elements(d.envelopes) : \E r \in Elements(e.reservations) :
             r.resource \notin members, "UnknownSafetyReservationMember">> >>)

BuildGroup(id, d) ==
    IF GroupError(d) # "none"
    THEN Err(GroupError(d))
    ELSE [id |-> id, members |-> Sorted(d.members), dependencies |-> SortedPairs(d.dependencies),
          budgets |-> SortSeq(d.budgets, LAMBDA a, b : a.id < b.id),
          invariants |-> SortSeq(d.invariants, LAMBDA a, b : a.contract < b.contract),
          envelopes |-> SortSeq(d.envelopes, LAMBDA a, b : a.adaptive.id < b.adaptive.id)]

-----------------------------------------------------------------------------
(* EirGroupedDocument: groups over the resources of one document; names    *)
(* are resolved through a group only for its members.                      *)

LowerGroup(g, document) ==
    IF \E m \in Elements(g.members) : Resource(document, m) = {}
    THEN Err("UnknownResource") ELSE g

GroupedDocument(document, groups) ==
    LET lowered == [i \in DOMAIN groups |-> LowerGroup(groups[i], document)]
    IN  CASE groups = <<>> -> Err("EmptyGroupEnvelope")
          [] Len(groups) > MaxListed -> Err("TooManyGroups")
          [] \E i \in DOMAIN groups : IsErr(lowered[i]) -> Err("UnknownResource")
          [] Repeats(IdsOf(lowered)) -> Err("DuplicateGroupIdentity")
          [] OTHER -> [document |-> document,
                       groups |-> SortSeq(lowered, LAMBDA a, b : a.id < b.id)]

ResourceIn(g, id) == id \in Elements(g.members)

GroupResource(grouped, group, id) ==
    UNION {Resource(grouped.document, id) :
             g \in {h \in Elements(grouped.groups) : h.id = group /\ ResourceIn(h, id)}}

(* EirPolicyHeader: a policy names a resource or a group that is there.    *)
TargetIsBound(target, grouped) ==
    IF target[1] = "resource" THEN Resource(grouped.document, target[2]) # {}
    ELSE target[2] \in {g.id : g \in Elements(grouped.groups)}

-----------------------------------------------------------------------------
(* CompositePlanEnvelope (elastic-runtime, composite_plan.rs): plans about *)
(* members of one group, [resource, definition, candidate, finite], in the *)
(* order in which they have to be carried out.                             *)

(* Members without an open requirement, the least first; a cycle is left   *)
(* out.                                                                    *)
Ordered(members, dependencies) ==
    LET dependents(m) == {d[1] : d \in {e \in Elements(dependencies) : e[2] = m}}
        degree == [m \in Elements(members) |->
                      Cardinality({d \in Elements(dependencies) : d[1] = m})]
        start == [done |-> <<>>, degree |-> degree,
                  ready |-> {m \in Elements(members) : degree[m] = 0}]
        pop(s, turn) ==
            IF s.ready = {} THEN s
            ELSE LET m == CHOOSE r \in s.ready : \A q \in s.ready : r <= q
                     left == [n \in DOMAIN s.degree |->
                                 IF n \in dependents(m) THEN s.degree[n] - 1 ELSE s.degree[n]]
                 IN  [done |-> Append(s.done, m), degree |-> left,
                      ready |-> (s.ready \ {m}) \cup {n \in dependents(m) : left[n] = 0}]
    IN  FoldLeft(pop, start, members).done

OrderAmongTargeted(g, targeted) ==  \* mutant: only what is targeted is ordered
    [members |-> Ordered(SelectSeq(g.members, LAMBDA m : m \in targeted),
                         SelectSeq(g.dependencies, LAMBDA d : {d[1], d[2]} \subseteq targeted))]

(* The whole group is ordered: a dependency may go through members that    *)
(* no plan is about.                                                       *)
CompositeExecutionOrder(g, targeted) ==
    LET all == Ordered(g.members, g.dependencies)
    IN  IF Len(all) # Len(g.members) THEN Err("OrderingCycle")
        ELSE [members |-> SelectSeq(all, LAMBDA m : m \in targeted)]

SubplanError(grouped, group, plans, i) ==
    LET plan == plans[i]
        authoritative == GroupResource(grouped, group, plan.resource)
    IN  FirstFailure(<<
        <<authoritative = {}, "ResourceOutsideGroup">>,
        <<plan.definition \notin authoritative, "ResourceDefinitionMismatch">>,
        <<plan.candidate = {}, "MissingCandidate">>,
        <<~(plan.candidate \subseteq plan.definition.declared), "UndeclaredCandidate">>,
        <<~plan.finite, "NonFinitePlanningValue">>,
        <<\E j \in 1 .. i - 1 : plans[j].resource = plan.resource, "DuplicateResourcePlan">> >>)

CompositeEnvelope(grouped, group, plans) ==
    LET known == SelectSeq(grouped.groups, LAMBDA g : g.id = group)
        error == IF known = <<>> THEN "UnknownGroup"
                 ELSE FirstFailure(<<
                    <<plans = <<>>, "EmptyEnvelope">>,
                    <<Len(plans) > MaxMembers \/ Len(plans) > Len(known[1].members), "TooManySubplans">> >>
                    \o [i \in DOMAIN plans |-> <<SubplanError(grouped, group, plans, i) # "none",
                                                 SubplanError(grouped, group, plans, i)>>])
        order == CompositeExecutionOrder(known[1], {plan.resource : plan \in Elements(plans)})
        subplans == [k \in DOMAIN order.members |->
                        SelectSeq(plans, LAMBDA plan : plan.resource = order.members[k])[1]]
    IN  IF error # "none" THEN Err(error)
        ELSE IF IsErr(order) THEN order
        ELSE [group |-> group, subplans |-> subplans,
              fingerprint |-> <<grouped, group, subplans>>]
=============================================================================

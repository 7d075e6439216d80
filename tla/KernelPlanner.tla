------------------------------ MODULE KernelPlanner ------------------------------
(***************************************************************************)
(* The objective-ordered selection among kernel candidates of              *)
(* elastic-kernel: adapters offer candidates in some order, and a plan     *)
(* filters them, compares the rest along the policy's objectives, and      *)
(* selects one or says honestly why it cannot.                             *)
(*                                                                         *)
(* A candidate is a record of its realization's identity (0 is blank), the *)
(* resource and the contract it is for, its requirements, and the evidence *)
(* attached to some objectives; the order of identities is that of         *)
(* numbers.  A requirement of no subgroup width has width 0 - 1, a         *)
(* snapshot without a range of widths the range <<>>.  A fingerprint is    *)
(* what it digests.                                                        *)
(***************************************************************************)
EXTENDS Integers, Sequences, FiniteSets

CONSTANTS
    Setting,       \* pairs of a selection policy and a capability snapshot
    Offerable,     \* [setting -> the candidates that adapters may offer]
    Direction,     \* [objective -> "lower", "higher" or, if custom, "none"]
    MaxProduct,    \* u64::MAX
    MaxOffers      \* bound: candidates offered

Tier == 0..2       \* unknown, static, measured
Feature == {"shader_f16", "matrix_ops"}
FeatureSupport == {"known-true", "known-false", "unknown"}
Limits == {"invocations", "workgroups", "storage", "groups", "binding"}

(* What with_options accepts: objectives, and none of them twice. *)
IsPolicy(p) ==
    /\ p.objectives \in Seq(DOMAIN Direction) /\ p.objectives # <<>>
    /\ \A i, j \in DOMAIN p.objectives : p.objectives[i] = p.objectives[j] => i = j
    /\ {p.allowStatic, p.acceptUncontested} \subseteq BOOLEAN

(* What CapabilitySnapshot::validate accepts: every limit is some, and a   *)
(* range of subgroup widths goes with subgroups.                           *)
SubgroupIsValid(g) ==
    /\ g.supported <=> g.range # <<>>
    /\ g.supported => g.range[1] # 0 /\ g.range[1] <= g.range[2]
IsSnapshot(s) ==
    /\ \A axis \in 1 .. 3 : s.axes[axis] >= 1
    /\ \A l \in Limits : s[l] >= 1
    /\ SubgroupIsValid(s.subgroup)

(* No number is negative, and a width that is not required is 0 - 1.       *)
IsCandidate(c) ==
    /\ c.id \in Nat
    /\ \A o \in DOMAIN c.evidence :
          c.evidence[o].tier \in Tier /\ c.evidence[o].magnitude \in Nat
    /\ \A axis \in 1 .. 3 : c.requirements.axes[axis] \in Nat
    /\ \A l \in Limits \ {"workgroups"} : c.requirements[l] \in Nat
    /\ c.requirements.width \in Nat \cup {-1} /\ c.requirements.features \subseteq Feature
IsSetting(x) ==
    /\ x = <<x[1], x[2]>>
    /\ IsPolicy(x[1]) /\ IsSnapshot(x[2]) /\ x[2].features \in [Feature -> FeatureSupport]
    /\ \A axis \in 1 .. 3 : x[2].axes[axis] \in Nat
    /\ \A l \in Limits : x[2][l] \in Nat
    /\ x[2].subgroup.range \in {<<>>} \cup ((0 .. MaxProduct) \X (0 .. MaxProduct))

ASSUME InputsAreWellFormed ==
    /\ \A x \in Setting : IsSetting(x) /\ \A c \in Offerable[x] : IsCandidate(c)
    /\ {MaxProduct, MaxOffers} \subseteq Nat

-----------------------------------------------------------------------------
(* What a realization needs, and whether a snapshot has it.                *)

(* The product of the axes, checked; MaxProduct + 1 when it overflows.     *)
CheckedProduct(axes) ==
    LET times(n, m) == IF n = MaxProduct + 1 \/ n * m > MaxProduct THEN MaxProduct + 1 ELSE n * m
    IN  times(times(axes[1], axes[2]), axes[3])

AxesAreSeparate(r) ==           \* mutant: each axis fits, their product is not looked at
    /\ \A need \in {r.invocations, r.storage, r.groups} : need # 0
    /\ \A axis \in 1 .. 3 : r.axes[axis] <= r.invocations
    /\ r.width # 0

IsRequirement(r) ==
    /\ \A need \in {r.invocations, r.storage, r.groups} : need # 0
    /\ \A axis \in 1 .. 3 : r.axes[axis] <= r.invocations
    /\ CheckedProduct(r.axes) <= MaxProduct /\ CheckedProduct(r.axes) <= r.invocations
    /\ r.width # 0

(* KernelRequirements::check_against; an unknown feature is not had.       *)
CheckFeature(r, s, f) == f \in r.features => s.features[f] = "known-true"
CheckAgainst(r, s) ==
    /\ r.invocations <= s.invocations
    /\ \A axis \in 1 .. 3 : r.axes[axis] <= s.axes[axis]
    /\ r.storage <= s.storage /\ r.groups <= s.groups /\ r.binding <= s.binding
    /\ r.width # -1 => s.subgroup.supported /\ s.subgroup.range # <<>> /\ s.subgroup.range[2] >= r.width
    /\ \A f \in Feature : CheckFeature(r, s, f)

SnapshotFingerprint(s) ==
    [s EXCEPT !.subgroup.range = IF s.subgroup.range = <<>> THEN <<MaxProduct, MaxProduct>> ELSE @]

VARIABLES
    policy,
    snapshot,      \* of the device's capabilities
    offered,       \* the candidates, in offer order
    outcome        \* of the plan, once it was made

vars == <<policy, snapshot, offered, outcome>>

Unanswered == [status |-> "none"]
Unsupported == [status |-> "unsupported"]
NoCandidate(rejected) == [status |-> "no candidate", rejected |-> rejected]
Insufficient(ids, shortfall) ==
    [status |-> "insufficient", admissible |-> ids, shortfall |-> shortfall]
Uncontested == [tier |-> 0, magnitude |-> 0, unit |-> "uncontested"]
Selected(c, rejected, decisive, of) ==
    [status |-> "selected", id |-> c.id, rejected |-> rejected, decisive |-> decisive, of |-> of]

-----------------------------------------------------------------------------
(* Comparison. *)
Better(direction, v, w) == IF direction = "lower" THEN v < w ELSE v > w

(* Of several attached to one objective the last counts; none is unknown.  *)
UnknownEvidence == [tier |-> 0, magnitude |-> 0, unit |-> "none"]
EvidenceOn(c, o) == IF o \in DOMAIN c.evidence THEN c.evidence[o] ELSE UnknownEvidence

(* A more trusted tier goes first; magnitudes of one tier are compared     *)
(* whatever their units.                                                   *)
BeatsOn(o, c, d) ==
    LET e == EvidenceOn(c, o)
        f == EvidenceOn(d, o)
    IN  \/ e.tier > f.tier
        \/ e.tier = f.tier /\ e.tier # 0 /\ Better(Direction[o], e.magnitude, f.magnitude)

TiedOn(o, c, d) == ~BeatsOn(o, c, d) /\ ~BeatsOn(o, d, c)

(* The first objective on which two candidates differ decides. *)
BeatsOnObjectives(objectives, c, d) ==
    \E i \in DOMAIN objectives :
        /\ BeatsOn(objectives[i], c, d)
        /\ \A j \in 1 .. i - 1 : TiedOn(objectives[j], c, d)

Before(objectives, c, d) ==
    \/ BeatsOnObjectives(objectives, c, d)
    \/ ~BeatsOnObjectives(objectives, d, c) /\ c.id < d.id

(* Of the candidates at some places, the first after a stable sort.        *)
Precedes(objectives, cs, i, j) ==
    \/ Before(objectives, cs[i], cs[j])
    \/ i < j /\ ~Before(objectives, cs[j], cs[i])
Winner(objectives, cs, places) ==
    cs[CHOOSE i \in places : \A j \in places \ {i} : Precedes(objectives, cs, i, j)]

-----------------------------------------------------------------------------
(* Planning. *)
Reason(p, s, c) ==
    CASE c.resource # 1 -> "resource"
      [] c.resource = 1 /\ c.contract # p.contract -> "contract"
      [] OTHER -> IF CheckAgainst(c.requirements, s) THEN "fits" ELSE "infeasible"
Fits(p, s, c) == Reason(p, s, c) = "fits"
Admitted(p, s, cs) == {i \in DOMAIN cs : Fits(p, s, cs[i])}
Rejected(p, s, cs) ==
    {[id |-> cs[i].id, reason |-> Reason(p, s, cs[i])] : i \in DOMAIN cs \ Admitted(p, s, cs)}
Ids(cs) == {cs[i].id : i \in DOMAIN cs}

(* The units on the primary objective among those of the winner's tier. *)
UnitsOf(cs, places, o, tier) ==
    {EvidenceOn(cs[i], o).unit : i \in {k \in places : EvidenceOn(cs[k], o).tier = tier}}

AnyEvidenceDecides(p, cs, places) ==   \* mutant: only missing evidence stops a plan
    LET primary == p.objectives[1]
        w == Winner(p.objectives, cs, places)
    IN  IF EvidenceOn(w, primary).tier = 0 THEN "all unknown" ELSE "none"

(* Why the evidence on the primary objective cannot decide, if so. *)
Shortfall(p, cs, places) ==
    LET primary == p.objectives[1]
        tier == EvidenceOn(Winner(p.objectives, cs, places), primary).tier
    IN  CASE tier = 0 -> "all unknown"
          [] tier = 1 /\ ~p.allowStatic -> "only static"
          [] OTHER -> IF Cardinality(UnitsOf(cs, places, primary, tier)) > 1
                      THEN "unit mismatch" ELSE "none"

PlanOf(p, s, cs) ==
    LET admitted == Admitted(p, s, cs)
        rejected == Rejected(p, s, cs)
        w == Winner(p.objectives, cs, admitted)
    IN  IF \E i \in DOMAIN p.objectives : Direction[p.objectives[i]] = "none"
        THEN Unsupported
        ELSE IF admitted = {} THEN NoCandidate(rejected)
        ELSE IF Cardinality(admitted) = 1 /\ p.acceptUncontested
        THEN Selected(w, rejected, Uncontested, SnapshotFingerprint(s))
        ELSE IF Shortfall(p, cs, admitted) # "none"
        THEN Insufficient({cs[i].id : i \in admitted}, Shortfall(p, cs, admitted))
        ELSE Selected(w, rejected, EvidenceOn(w, p.objectives[1]), SnapshotFingerprint(s))

-----------------------------------------------------------------------------
Init == (\E x \in Setting : policy = x[1] /\ snapshot = x[2]) /\ offered = <<>> /\ outcome = Unanswered

(* Adapters offer candidates of different realizations; one whose name is  *)
(* blank or whose requirements cannot be is not made.                      *)
Offer(c) ==
    /\ outcome = Unanswered /\ Len(offered) < MaxOffers
    /\ c.id # 0 /\ IsRequirement(c.requirements)
    /\ c.id \notin Ids(offered)
    /\ offered' = Append(offered, c)
    /\ UNCHANGED <<policy, snapshot, outcome>>

Plan ==
    /\ outcome = Unanswered
    /\ outcome' = PlanOf(policy, snapshot, offered)
    /\ UNCHANGED <<policy, snapshot, offered>>

Next == (\E c \in Offerable[<<policy, snapshot>>] : Offer(c)) \/ Plan

Spec == Init /\ [][Next]_vars

-----------------------------------------------------------------------------
Planned == outcome.status = "selected" /\ outcome.decisive # Uncontested
Survivors == {offered[i] : i \in {k \in DOMAIN offered : Fits(policy, snapshot, offered[k])}}
Chosen == CHOOSE c \in Survivors : c.id = outcome.id

(* Whatever order the candidates are offered in, the outcome is the same.  *)
OfferOrderIrrelevant ==
    outcome # Unanswered =>
        \A p \in {f \in [DOMAIN offered -> DOMAIN offered] :
                     \A i, j \in DOMAIN offered : f[i] = f[j] => i = j} :
            PlanOf(policy, snapshot, [i \in DOMAIN offered |-> offered[p[i]]]) = outcome

(* What was selected can run on the device it was selected for: all its    *)
(* invocations together are within a workgroup, some subgroup is wide      *)
(* enough, and what it needs is known to be there.  A candidate is         *)
(* rejected as infeasible only for a need that is not met.                 *)
Met(c) ==
    LET r == c.requirements IN
    /\ r.axes[1] * r.axes[2] * r.axes[3] <= snapshot.invocations
    /\ \A axis \in 1 .. 3 : r.axes[axis] <= snapshot.axes[axis]
    /\ \A l \in Limits \ {"workgroups"} : r[l] <= snapshot[l]
    /\ r.width = -1 \/ \E w \in 1 .. MaxProduct :
          /\ w >= r.width /\ snapshot.subgroup.range # <<>>
          /\ snapshot.subgroup.range[1] <= w /\ w <= snapshot.subgroup.range[2]
    /\ \A f \in r.features : snapshot.features[f] = "known-true"
SelectionCanRun ==
    /\ outcome.status = "selected" => Met(Chosen)
    /\ outcome.status \in {"selected", "no candidate"} =>
          \A x \in outcome.rejected : x.reason = "infeasible" =>
              \A i \in DOMAIN offered : offered[i].id = x.id => ~Met(offered[i])

(* A selection that was compared rests on evidence that the policy trusts, *)
(* in one unit, and no survivor has better evidence on the primary         *)
(* objective; a plan never stops although the evidence could decide.       *)
HonestSelection ==
    LET primary == policy.objectives[1]
        On(c) == EvidenceOn(c, primary)
        best == {c \in Survivors : \A d \in Survivors : On(c).tier >= On(d).tier}
    IN  /\ Planned =>
            /\ Chosen \in best
            /\ On(Chosen).tier >= IF policy.allowStatic THEN 1 ELSE 2
            /\ \A d \in best : On(d).unit = On(Chosen).unit /\ ~BeatsOn(primary, d, Chosen)
        /\ outcome.status = "insufficient" =>
              ~ \E c \in best : /\ On(c).tier = 2
                                /\ \A d \in best \ {c} : On(d).unit = On(c).unit
        /\ SelectionCanRun

=============================================================================

------------------------- MODULE KernelPlannerProofs -------------------------
(***************************************************************************)
(* The kernel planner is honest whatever is offered, in whatever order,    *)
(* under any policy and on any device.                                     *)
(*                                                                         *)
(* What a plan answers is a function of what was offered; what needs proof *)
(* is that a first candidate exists, so that the answer is about one of    *)
(* the candidates and about the best of them.  Along one objective the     *)
(* candidates are in a weak order, hence along all of them too, and        *)
(* identities break its ties; a finite set that is strictly ordered has a  *)
(* first element.                                                          *)
(*                                                                         *)
(* A configured loop settles whatever is configured and however its        *)
(* resource is used: the second part, from "The configured loop" on.  Its  *)
(* arithmetic is exact, but for the roundings the code asks for.           *)
(***************************************************************************)
EXTENDS KernelPlanner, ConfiguredLoop, FiniteSetTheorems, TLAPS

Measurement(e) == e.tier \in Tier /\ e.magnitude \in Int
Comparable(c) == c.id \in Nat /\ \A o : Measurement(EvidenceOn(c, o))

(* A candidate is comparable on every objective: it has at least unknown   *)
(* evidence.                                                               *)
LEMMA CandidatesCompare ==
    ASSUME NEW c, IsCandidate(c)
    PROVE  Comparable(c)
BY DEF IsCandidate, Comparable, Measurement, EvidenceOn, UnknownEvidence, Tier

-----------------------------------------------------------------------------
(* One objective.                                                          *)

(* Along one objective candidates are in a strict weak order.              *)
LEMMA BeatsIsAWeakOrder ==
    ASSUME NEW o, NEW c, NEW d, NEW e, Comparable(c), Comparable(d), Comparable(e)
    PROVE  /\ BeatsOn(o, c, d) => ~BeatsOn(o, d, c)
           /\ BeatsOn(o, c, d) /\ BeatsOn(o, d, e) => BeatsOn(o, c, e)
           /\ BeatsOn(o, c, d) /\ TiedOn(o, d, e) => BeatsOn(o, c, e)
           /\ TiedOn(o, c, d) /\ BeatsOn(o, d, e) => BeatsOn(o, c, e)
           /\ TiedOn(o, c, d) /\ TiedOn(o, d, e) => TiedOn(o, c, e)
           /\ TiedOn(o, c, d) => TiedOn(o, d, c)
<1>1. /\ Measurement(EvidenceOn(c, o)) /\ Measurement(EvidenceOn(d, o))
      /\ Measurement(EvidenceOn(e, o))
      BY DEF Comparable
<1> QED BY <1>1 DEF Measurement, BeatsOn, TiedOn, Better, Tier

-----------------------------------------------------------------------------
(* All objectives.                                                         *)

(* Two candidates of which neither beats the other tie on everything: the  *)
(* first objective on which they do not would decide.                      *)
LEMMA UndecidedIsTied ==
    ASSUME NEW S, NEW objectives \in Seq(S), NEW c, NEW d, Comparable(c), Comparable(d),
           ~BeatsOnObjectives(objectives, c, d), ~BeatsOnObjectives(objectives, d, c)
    PROVE  \A i \in DOMAIN objectives : TiedOn(objectives[i], c, d)
<1> DEFINE Decided == {i \in DOMAIN objectives : ~TiedOn(objectives[i], c, d)}
<1>1. DOMAIN objectives = 1 .. Len(objectives) /\ Len(objectives) \in Nat OBVIOUS
<1>2. SUFFICES ASSUME Decided # {} PROVE FALSE OBVIOUS
<1>3. Decided \subseteq Nat BY <1>1
<1> HIDE DEF Decided
<1>4. PICK i \in Decided : \A j \in Decided : ~ (<<j, i>> \in OpToRel(<, Nat))
      BY <1>2, <1>3, NatLessThanWellFounded, WFMin
<1>5. i \in DOMAIN objectives /\ ~TiedOn(objectives[i], c, d) BY DEF Decided
<1>6. ASSUME NEW j \in 1 .. i - 1 PROVE TiedOn(objectives[j], c, d)
  <2>1. j \in DOMAIN objectives /\ j \in Nat /\ i \in Nat /\ j < i BY <1>1, <1>5
  <2>2. <<j, i>> \in OpToRel(<, Nat) BY <2>1 DEF OpToRel
  <2> QED BY <1>4, <2>1, <2>2 DEF Decided
<1>7. \A j \in 1 .. i - 1 : TiedOn(objectives[j], d, c) BY <1>6, BeatsIsAWeakOrder
<1> QED BY <1>5, <1>6, <1>7 DEF BeatsOnObjectives, TiedOn

(* Who beats a candidate that beats, or ties with, a third, beats it too.  *)
LEMMA ObjectivesAreAWeakOrder ==
    ASSUME NEW S, NEW objectives \in Seq(S), NEW c, NEW d, NEW e,
           Comparable(c), Comparable(d), Comparable(e),
           BeatsOnObjectives(objectives, c, d),
           \/ BeatsOnObjectives(objectives, d, e)
           \/ \A k \in DOMAIN objectives : TiedOn(objectives[k], d, e)
    PROVE  BeatsOnObjectives(objectives, c, e)
<1>1. DOMAIN objectives = 1 .. Len(objectives) /\ Len(objectives) \in Nat OBVIOUS
<1>2. PICK i \in DOMAIN objectives :
         /\ BeatsOn(objectives[i], c, d)
         /\ \A k \in 1 .. i - 1 : TiedOn(objectives[k], c, d)
      BY DEF BeatsOnObjectives
<1>3. CASE \A k \in DOMAIN objectives : TiedOn(objectives[k], d, e)
  <2>1. BeatsOn(objectives[i], c, e) BY <1>2, <1>3, BeatsIsAWeakOrder
  <2>2. \A k \in 1 .. i - 1 : k \in DOMAIN objectives BY <1>1
  <2>3. \A k \in 1 .. i - 1 : TiedOn(objectives[k], c, e)
        BY <1>2, <1>3, <2>2, BeatsIsAWeakOrder
  <2> QED BY <2>1, <2>3 DEF BeatsOnObjectives
<1>4. CASE BeatsOnObjectives(objectives, d, e)
  <2>1. PICK j \in DOMAIN objectives :
           /\ BeatsOn(objectives[j], d, e)
           /\ \A k \in 1 .. j - 1 : TiedOn(objectives[k], d, e)
        BY <1>4 DEF BeatsOnObjectives
  <2>2. i \in Nat /\ j \in Nat BY <1>1
  <2>3. CASE i <= j
    <3>1. \A k \in 1 .. i - 1 : k \in 1 .. j - 1 BY <2>2, <2>3
    <3>2. \A k \in 1 .. i - 1 : TiedOn(objectives[k], c, e)
          BY <1>2, <2>1, <3>1, BeatsIsAWeakOrder
    <3>3. i = j \/ i \in 1 .. j - 1 BY <1>1, <2>2, <2>3
    <3>4. BeatsOn(objectives[i], d, e) \/ TiedOn(objectives[i], d, e) BY <2>1, <3>3
    <3>5. BeatsOn(objectives[i], c, e) BY <1>2, <3>4, BeatsIsAWeakOrder
    <3> QED BY <3>2, <3>5 DEF BeatsOnObjectives
  <2>4. CASE j < i
    <3>1. j \in 1 .. i - 1 /\ \A k \in 1 .. j - 1 : k \in 1 .. i - 1
          BY <1>1, <2>2, <2>4
    <3>2. TiedOn(objectives[j], c, d) BY <1>2, <3>1
    <3>3. BeatsOn(objectives[j], c, e) BY <2>1, <3>2, BeatsIsAWeakOrder
    <3>4. \A k \in 1 .. j - 1 : TiedOn(objectives[k], c, e)
          BY <1>2, <2>1, <3>1, BeatsIsAWeakOrder
    <3> QED BY <3>3, <3>4 DEF BeatsOnObjectives
  <2> QED BY <2>2, <2>3, <2>4
<1> QED BY <1>3, <1>4

(* Nobody beats whom it ties with, or who beats it.                        *)
LEMMA ObjectivesAreAsymmetric ==
    ASSUME NEW S, NEW objectives \in Seq(S), NEW c, NEW d, Comparable(c), Comparable(d),
           BeatsOnObjectives(objectives, c, d)
    PROVE  ~BeatsOnObjectives(objectives, d, c)
<1>1. SUFFICES ASSUME BeatsOnObjectives(objectives, d, c) PROVE FALSE OBVIOUS
<1>2. BeatsOnObjectives(objectives, c, c) BY <1>1, ObjectivesAreAWeakOrder
<1>3. PICK i \in DOMAIN objectives : BeatsOn(objectives[i], c, c)
      BY <1>2 DEF BeatsOnObjectives
<1> QED BY <1>3, BeatsIsAWeakOrder

(* A tie on everything carries over to the right of a comparison.          *)
LEMMA TiesCarryOver ==
    ASSUME NEW S, NEW objectives \in Seq(S), NEW c, NEW d, NEW e,
           Comparable(c), Comparable(d), Comparable(e),
           \A k \in DOMAIN objectives : TiedOn(objectives[k], c, d),
           BeatsOnObjectives(objectives, d, e)
    PROVE  BeatsOnObjectives(objectives, c, e)
<1>1. DOMAIN objectives = 1 .. Len(objectives) /\ Len(objectives) \in Nat OBVIOUS
<1>2. PICK i \in DOMAIN objectives :
         /\ BeatsOn(objectives[i], d, e)
         /\ \A k \in 1 .. i - 1 : TiedOn(objectives[k], d, e)
      BY DEF BeatsOnObjectives
<1>3. \A k \in 1 .. i - 1 : k \in DOMAIN objectives BY <1>1
<1>4. BeatsOn(objectives[i], c, e) BY <1>2, BeatsIsAWeakOrder
<1>5. \A k \in 1 .. i - 1 : TiedOn(objectives[k], c, e)
      BY <1>2, <1>3, BeatsIsAWeakOrder
<1> QED BY <1>4, <1>5 DEF BeatsOnObjectives

(* Candidates of different realizations are strictly ordered.              *)
THEOREM BeforeIsAStrictOrder ==
    ASSUME NEW S, NEW objectives \in Seq(S), NEW c, NEW d, NEW e,
           Comparable(c), Comparable(d), Comparable(e)
    PROVE  /\ c.id # d.id => Before(objectives, c, d) \/ Before(objectives, d, c)
           /\ Before(objectives, c, d) => ~Before(objectives, d, c)
           /\ Before(objectives, c, d) /\ Before(objectives, d, e)
                => Before(objectives, c, e)
<1>1. c.id \in Nat /\ d.id \in Nat /\ e.id \in Nat BY DEF Comparable
<1>2. c.id # d.id => Before(objectives, c, d) \/ Before(objectives, d, c)
      BY <1>1 DEF Before
<1>3. Before(objectives, c, d) => ~Before(objectives, d, c)
      BY <1>1, ObjectivesAreAsymmetric DEF Before
<1>4. ASSUME Before(objectives, c, d), Before(objectives, d, e)
      PROVE  Before(objectives, c, e)
  <2>1. CASE BeatsOnObjectives(objectives, c, d)
    <3>1. CASE BeatsOnObjectives(objectives, d, e)
          BY <2>1, <3>1, ObjectivesAreAWeakOrder DEF Before
    <3>2. CASE ~BeatsOnObjectives(objectives, d, e)
      <4>1. ~BeatsOnObjectives(objectives, e, d) BY <1>4, <3>2 DEF Before
      <4>2. \A k \in DOMAIN objectives : TiedOn(objectives[k], d, e)
            BY <3>2, <4>1, UndecidedIsTied
      <4> QED BY <2>1, <4>2, ObjectivesAreAWeakOrder DEF Before
    <3> QED BY <3>1, <3>2
  <2>2. CASE ~BeatsOnObjectives(objectives, c, d)
    <3>1. ~BeatsOnObjectives(objectives, d, c) /\ c.id < d.id BY <1>4, <2>2 DEF Before
    <3>2. \A k \in DOMAIN objectives : TiedOn(objectives[k], c, d)
          BY <2>2, <3>1, UndecidedIsTied
    <3>3. CASE BeatsOnObjectives(objectives, d, e)
          BY <3>2, <3>3, TiesCarryOver DEF Before
    <3>4. CASE ~BeatsOnObjectives(objectives, d, e)
      <4>1. ~BeatsOnObjectives(objectives, e, d) /\ d.id < e.id BY <1>4, <3>4 DEF Before
      <4>2. c.id < e.id BY <1>1, <3>1, <4>1
      <4>3. SUFFICES ASSUME BeatsOnObjectives(objectives, e, c) PROVE FALSE
            BY <4>2 DEF Before
      <4>4. BeatsOnObjectives(objectives, e, d)
            BY <3>2, <4>3, ObjectivesAreAWeakOrder
      <4> QED BY <4>1, <4>4
    <3> QED BY <3>3, <3>4
  <2> QED BY <2>1, <2>2
<1> QED BY <1>2, <1>3, <1>4

-----------------------------------------------------------------------------
(* The first candidate.                                                    *)

(* A finite set in a strict order has a first element: the one with the    *)
(* fewest before it.                                                       *)
LEMMA FirstExists ==
    ASSUME NEW I, IsFiniteSet(I), I # {}, NEW R,
           \A i, j \in I : i # j => <<i, j>> \in R \/ <<j, i>> \in R,
           \A i, j \in I : <<i, j>> \in R => <<j, i>> \notin R,
           \A i, j, k \in I : <<i, j>> \in R /\ <<j, k>> \in R => <<i, k>> \in R
    PROVE  \E i \in I : \A j \in I \ {i} : <<i, j>> \in R
<1> DEFINE Earlier(i) == {j \in I : <<j, i>> \in R}
           Sizes == {Cardinality(Earlier(i)) : i \in I}
<1>1. \A i \in I : IsFiniteSet(Earlier(i)) /\ Cardinality(Earlier(i)) \in Nat
      BY FS_Subset, FS_CardinalityType
<1>2. Sizes \subseteq Nat /\ Sizes # {}
  <2>1. PICK i \in I : TRUE OBVIOUS
  <2>2. Cardinality(Earlier(i)) \in Sizes BY <2>1
  <2>3. ASSUME NEW n \in Sizes PROVE n \in Nat
    <3>1. PICK k \in I : n = Cardinality(Earlier(k)) BY <2>3
    <3> QED BY <1>1, <3>1
  <2> QED BY <2>2, <2>3
<1>3. PICK n \in Sizes : \A m \in Sizes : ~ (<<m, n>> \in OpToRel(<, Nat))
  <2> HIDE DEF Sizes
  <2> QED BY <1>2, NatLessThanWellFounded, WFMin
<1>4. PICK i \in I : n = Cardinality(Earlier(i)) BY <1>3
<1>5. ASSUME NEW j \in Earlier(i) PROVE FALSE
  <2>1. j \in I /\ <<j, i>> \in R BY <1>5
  <2>2. Earlier(j) \subseteq Earlier(i) \ {j} BY <2>1
  <2>3. /\ Cardinality(Earlier(i) \ {j}) = Cardinality(Earlier(i)) - 1
        /\ IsFiniteSet(Earlier(i) \ {j})
        BY <1>1, <1>5, FS_RemoveElement
  <2>4. Cardinality(Earlier(j)) <= Cardinality(Earlier(i) \ {j}) BY <2>2, <2>3, FS_Subset
  <2>5. Cardinality(Earlier(j)) \in Nat /\ Cardinality(Earlier(i)) \in Nat BY <1>1, <2>1
  <2> DEFINE m == Cardinality(Earlier(j))
  <2>6. m < n BY <1>4, <2>3, <2>4, <2>5
  <2>7. m \in Sizes BY <2>1
  <2>8. <<m, n>> \in OpToRel(<, Nat) BY <1>4, <2>5, <2>6 DEF OpToRel
  <2> QED BY <1>3, <2>7, <2>8
<1> QED BY <1>5

-----------------------------------------------------------------------------
(* What was offered, and what it is answered.                              *)

OfferedInv ==
    /\ <<policy, snapshot>> \in Setting
    /\ offered \in Seq(Offerable[<<policy, snapshot>>])
    /\ \A i \in DOMAIN offered :
          offered[i].id # 0 /\ IsRequirement(offered[i].requirements)
    /\ \A i, j \in DOMAIN offered : offered[i].id = offered[j].id => i = j

IInv == OfferedInv /\ outcome \in {Unanswered, PlanOf(policy, snapshot, offered)}

(* At first nothing was offered and nothing is answered.                   *)
LEMMA InitIInv == ASSUME InputsAreWellFormed, Init PROVE IInv
<1>1. PICK x \in Setting : policy = x[1] /\ snapshot = x[2] BY DEF Init
<1>2. <<policy, snapshot>> \in Setting
      BY <1>1 DEF InputsAreWellFormed, IsSetting
<1>3. offered = <<>> /\ outcome = Unanswered BY DEF Init
<1>4. OfferedInv BY <1>2, <1>3 DEF OfferedInv
<1> QED BY <1>3, <1>4 DEF IInv

(* An offer adds a realization that was not offered before.                *)
LEMMA OfferInv ==
    ASSUME IInv, NEW c \in Offerable[<<policy, snapshot>>], Offer(c)
    PROVE  IInv'
<1>1. /\ offered \in Seq(Offerable[<<policy, snapshot>>])
      /\ offered' = Append(offered, c) /\ UNCHANGED <<policy, snapshot, outcome>>
      /\ c.id # 0 /\ IsRequirement(c.requirements) /\ c.id \notin Ids(offered)
      /\ outcome = Unanswered
      BY DEF IInv, OfferedInv, Offer
<1>2. /\ offered' \in Seq(Offerable[<<policy, snapshot>>])
      /\ Len(offered) \in Nat /\ DOMAIN offered = 1 .. Len(offered)
      /\ DOMAIN offered' = 1 .. Len(offered) + 1
      /\ offered'[Len(offered) + 1] = c
      /\ \A i \in DOMAIN offered : offered'[i] = offered[i]
      BY <1>1
<1>3. \A i \in DOMAIN offered' : i \in DOMAIN offered \/ i = Len(offered) + 1 BY <1>2
<1>4. \A i \in DOMAIN offered : offered[i].id # c.id BY <1>1 DEF Ids
<1>5. \A i \in DOMAIN offered' :
         offered'[i].id # 0 /\ IsRequirement(offered'[i].requirements)
      BY <1>1, <1>2, <1>3 DEF IInv, OfferedInv
<1>6. ASSUME NEW i \in DOMAIN offered', NEW j \in DOMAIN offered',
             offered'[i].id = offered'[j].id
      PROVE  i = j
  <2>1. CASE i \in DOMAIN offered /\ j \in DOMAIN offered
        BY <1>2, <1>6, <2>1 DEF IInv, OfferedInv
  <2>2. CASE i \in DOMAIN offered /\ j = Len(offered) + 1 BY <1>2, <1>4, <1>6, <2>2
  <2>3. CASE i = Len(offered) + 1 /\ j \in DOMAIN offered BY <1>2, <1>4, <1>6, <2>3
  <2> QED BY <1>3, <2>1, <2>2, <2>3
<1>7. OfferedInv' BY <1>1, <1>2, <1>5, <1>6 DEF IInv, OfferedInv
<1> QED BY <1>1, <1>7 DEF IInv

(* Nothing is offered once the plan is made, so the answer stands.         *)
LEMMA NextIInv == ASSUME IInv, [Next]_vars PROVE IInv'
<1>1. CASE Plan BY <1>1 DEF Plan, IInv, OfferedInv
<1>2. CASE UNCHANGED vars BY <1>2 DEF vars, IInv, OfferedInv
<1> QED BY <1>1, <1>2, OfferInv DEF Next

(* The answer is the plan's, about different realizations of whose         *)
(* requirements each can be.                                               *)
THEOREM Invariance == Spec => []IInv
<1>1. Init => IInv BY InitIInv, InputsAreWellFormed
<1>2. IInv /\ [Next]_vars => IInv' BY NextIInv
<1> QED BY <1>1, <1>2, PTL DEF Spec

-----------------------------------------------------------------------------
(* The winner.                                                             *)

(* What is known of the inputs and of each candidate.                      *)
LEMMA Places ==
    ASSUME InputsAreWellFormed, OfferedInv
    PROVE  /\ IsPolicy(policy) /\ IsSetting(<<policy, snapshot>>)
           /\ IsFiniteSet(DOMAIN offered)
           /\ \A i \in DOMAIN offered :
                 /\ IsCandidate(offered[i]) /\ Comparable(offered[i])
                 /\ IsRequirement(offered[i].requirements)
<1>1. IsSetting(<<policy, snapshot>>) BY DEF InputsAreWellFormed, OfferedInv
<1>2. <<policy, snapshot>>[1] = policy OBVIOUS
<1>3. IsPolicy(policy) BY <1>1, <1>2 DEF IsSetting
<1>4. Len(offered) \in Nat /\ DOMAIN offered = 1 .. Len(offered) BY DEF OfferedInv
<1>5. \A i \in DOMAIN offered : offered[i] \in Offerable[<<policy, snapshot>>]
      BY DEF OfferedInv
<1>6. \A i \in DOMAIN offered : IsCandidate(offered[i])
      BY <1>5 DEF InputsAreWellFormed, OfferedInv
<1> QED BY <1>1, <1>3, <1>4, <1>6, CandidatesCompare, FS_Interval DEF OfferedInv

(* The winner among some places is a candidate at one of them, and before  *)
(* all the others: realizations differ, so a stable sort has no ties.      *)
LEMMA WinnerIsFirst ==
    ASSUME NEW S, NEW objectives \in Seq(S), NEW cs, NEW places,
           IsFiniteSet(places), places # {},
           \A i \in places : Comparable(cs[i]),
           \A i, j \in places : i # j => cs[i].id # cs[j].id
    PROVE  \E i \in places :
              /\ Winner(objectives, cs, places) = cs[i]
              /\ \A j \in places \ {i} : Before(objectives, cs[i], cs[j])
<1> DEFINE R == {ij \in places \X places : Before(objectives, cs[ij[1]], cs[ij[2]])}
           Least(i) == \A j \in places \ {i} : Precedes(objectives, cs, i, j)
           first == CHOOSE i \in places : Least(i)
<1>1. \A i, j \in places : <<i, j>> \in R <=> Before(objectives, cs[i], cs[j])
      OBVIOUS
<1>2. \A i, j \in places : i # j => <<i, j>> \in R \/ <<j, i>> \in R
      BY <1>1, BeforeIsAStrictOrder
<1>3. \A i, j \in places : <<i, j>> \in R => <<j, i>> \notin R
      BY <1>1, BeforeIsAStrictOrder
<1>4. \A i, j, k \in places : <<i, j>> \in R /\ <<j, k>> \in R => <<i, k>> \in R
      BY <1>1, BeforeIsAStrictOrder
<1>5. PICK i \in places : \A j \in places \ {i} : <<i, j>> \in R
  <2> HIDE DEF R
  <2> QED BY <1>2, <1>3, <1>4, FirstExists
<1>6. Least(i) BY <1>1, <1>5 DEF Precedes
<1>7. first \in places /\ Least(first) BY <1>6
<1> HIDE DEF first
<1>8. ASSUME NEW j \in places \ {first} PROVE Before(objectives, cs[first], cs[j])
  <2>1. Precedes(objectives, cs, first, j) BY <1>7
  <2>2. Before(objectives, cs[first], cs[j]) \/ Before(objectives, cs[j], cs[first])
        BY <1>1, <1>2, <1>7
  <2> QED BY <2>1, <2>2 DEF Precedes
<1>9. Winner(objectives, cs, places) = cs[first] BY DEF Winner, first
<1> QED BY <1>7, <1>8, <1>9

(* No candidate that it was compared with has better evidence on the       *)
(* primary objective.                                                      *)
LEMMA WinnerIsBest ==
    ASSUME InputsAreWellFormed, OfferedInv,
           NEW i \in DOMAIN offered, NEW j \in DOMAIN offered,
           i = j \/ Before(policy.objectives, offered[i], offered[j])
    PROVE  /\ ~BeatsOn(policy.objectives[1], offered[j], offered[i])
           /\ EvidenceOn(offered[i], policy.objectives[1]).tier >=
                 EvidenceOn(offered[j], policy.objectives[1]).tier
<1> DEFINE primary == policy.objectives[1]
<1>1. policy.objectives \in Seq(DOMAIN Direction) /\ 1 \in DOMAIN policy.objectives
      BY Places DEF IsPolicy
<1>2. Comparable(offered[i]) /\ Comparable(offered[j]) BY Places
<1>3. ~BeatsOn(primary, offered[j], offered[i])
  <2>1. SUFFICES ASSUME BeatsOn(primary, offered[j], offered[i]) PROVE FALSE OBVIOUS
  <2>2. i # j BY <1>2, <2>1, BeatsIsAWeakOrder
  <2>3. BeatsOnObjectives(policy.objectives, offered[j], offered[i])
        BY <1>1, <2>1 DEF BeatsOnObjectives
  <2>4. ~BeatsOnObjectives(policy.objectives, offered[i], offered[j])
        BY <1>1, <1>2, <2>3, ObjectivesAreAsymmetric
  <2> QED BY <2>2, <2>3, <2>4 DEF Before
<1>4. Measurement(EvidenceOn(offered[i], primary)) /\ Measurement(EvidenceOn(offered[j], primary))
      BY <1>2 DEF Comparable
<1> QED BY <1>3, <1>4 DEF BeatsOn, Measurement, Tier

-----------------------------------------------------------------------------
(* The evidence.                                                           *)

(* The units that are counted are finitely many.                           *)
LEMMA UnitsAreFinite ==
    ASSUME NEW cs, NEW places, IsFiniteSet(places), NEW o, NEW tier
    PROVE  IsFiniteSet(UnitsOf(cs, places, o, tier))
<1> DEFINE P == {k \in places : EvidenceOn(cs[k], o).tier = tier}
           U == UnitsOf(cs, places, o, tier)
           unit == [i \in P |-> EvidenceOn(cs[i], o).unit]
<1>1. IsFiniteSet(P) BY FS_Subset
<1>2. U = {unit[i] : i \in P} BY DEF UnitsOf
<1> HIDE DEF P, U
<1>3. unit \in Surjection(P, U) BY <1>2 DEF Surjection
<1> QED BY <1>1, <1>3, FS_Surjection DEF U

(* Who has more than one element has not one only.                         *)
LEMMA AtMostOne ==
    ASSUME NEW S, IsFiniteSet(S)
    PROVE  Cardinality(S) > 1 <=> \E x, y \in S : x # y
<1>0. Cardinality(S) \in Nat BY FS_CardinalityType
<1>1. ASSUME NEW x \in S, NEW y \in S, x # y PROVE Cardinality(S) > 1
  <2> DEFINE T == S \ {x}
  <2>1. IsFiniteSet(T) /\ Cardinality(T) = Cardinality(S) - 1 BY FS_RemoveElement
  <2>2. y \in T BY <1>1
  <2> HIDE DEF T
  <2>3. Cardinality(T) # 0 BY <2>1, <2>2, FS_EmptySet
  <2>4. Cardinality(T) \in Nat BY <2>1, FS_CardinalityType
  <2> QED BY <1>0, <2>1, <2>3, <2>4
<1>2. ASSUME \A x, y \in S : x = y PROVE ~ (Cardinality(S) > 1)
  <2>1. CASE S = {} BY <2>1, FS_EmptySet
  <2>2. CASE S # {}
    <3>1. PICK x \in S : TRUE BY <2>2
    <3>2. S = {x} BY <1>2, <3>1
    <3> QED BY <3>2, FS_Singleton
  <2> QED BY <2>1, <2>2
<1> QED BY <1>1, <1>2

(* Selected, or declined for want of evidence: an answer about the winner. *)
LEMMA AnswerIsOfWinner ==
    ASSUME InputsAreWellFormed, IInv, outcome.status \in {"selected", "insufficient"}
    PROVE  \E i \in Admitted(policy, snapshot, offered) :
              /\ Winner(policy.objectives, offered, Admitted(policy, snapshot, offered))
                    = offered[i]
              /\ \A j \in Admitted(policy, snapshot, offered) \ {i} :
                    Before(policy.objectives, offered[i], offered[j])
              /\ outcome.status = "selected" =>
                    outcome.id = offered[i].id /\ Chosen = offered[i]
              /\ Planned =>
                    Shortfall(policy, offered, Admitted(policy, snapshot, offered)) = "none"
              /\ outcome.status = "insufficient" =>
                    Shortfall(policy, offered, Admitted(policy, snapshot, offered)) # "none"
<1> DEFINE A == Admitted(policy, snapshot, offered)
           w == Winner(policy.objectives, offered, A)
           why == Shortfall(policy, offered, A)
<1>1. outcome = PlanOf(policy, snapshot, offered) BY DEF IInv, Unanswered
<1>2. /\ A # {}
      /\ outcome.status = "selected" => outcome.id = w.id
      /\ Planned => why = "none"
      /\ outcome.status = "insufficient" => why # "none"
  <2> HIDE DEF A, w, why
  <2> QED BY <1>1 DEF PlanOf, A, w, why, Unsupported, NoCandidate, Insufficient, Selected, Planned
<1>3. A \in SUBSET DOMAIN offered BY DEF Admitted
<1>4. PICK i \in A : w = offered[i] /\ \A j \in A \ {i} : Before(policy.objectives, offered[i], offered[j])
  <2>1. policy.objectives \in Seq(DOMAIN Direction) /\ IsFiniteSet(A)
        BY <1>3, Places, FS_Subset DEF IInv, IsPolicy
  <2>2. /\ \A k \in A : Comparable(offered[k])
        /\ \A k, l \in A : k # l => offered[k].id # offered[l].id
        BY <1>3, Places DEF IInv, OfferedInv
  <2> QED BY <1>2, <2>1, <2>2, WinnerIsFirst
<1>5. ASSUME outcome.status = "selected" PROVE Chosen = offered[i]
  <2>1. Survivors = {offered[k] : k \in A} BY DEF Survivors, Admitted
  <2>2. outcome.id = offered[i].id BY <1>2, <1>4, <1>5
  <2>3. \A c \in Survivors : c.id = outcome.id => c = offered[i]
        BY <1>3, <1>4, <2>1, <2>2 DEF IInv, OfferedInv
  <2>4. offered[i] \in Survivors BY <1>4, <2>1
  <2> QED BY <2>2, <2>3, <2>4 DEF Chosen
<1> QED BY <1>2, <1>4, <1>5

(* A compared winner has the best evidence on the primary objective, of a  *)
(* tier that the policy trusts, in the only unit of that tier.             *)
LEMMA ComparedIsHonest ==
    ASSUME InputsAreWellFormed, IInv, Planned
    PROVE  LET primary == policy.objectives[1]
               On(c) == EvidenceOn(c, primary)
               best == {c \in Survivors : \A d \in Survivors : On(c).tier >= On(d).tier}
           IN  /\ Chosen \in best
               /\ On(Chosen).tier >= IF policy.allowStatic THEN 1 ELSE 2
               /\ \A d \in best : On(d).unit = On(Chosen).unit /\ ~BeatsOn(primary, d, Chosen)
<1> DEFINE A == Admitted(policy, snapshot, offered)
           primary == policy.objectives[1]
           On(c) == EvidenceOn(c, primary)
           best == {c \in Survivors : \A d \in Survivors : On(c).tier >= On(d).tier}
<1>1. PICK i \in A :
         /\ Winner(policy.objectives, offered, A) = offered[i]
         /\ \A j \in A \ {i} : Before(policy.objectives, offered[i], offered[j])
         /\ Chosen = offered[i]
         /\ Shortfall(policy, offered, A) = "none"
      BY AnswerIsOfWinner DEF Planned
<1>2. Survivors = {offered[k] : k \in A} /\ A \subseteq DOMAIN offered
      BY DEF Survivors, Admitted
<1>3. \A j \in A : /\ ~BeatsOn(primary, offered[j], offered[i])
                   /\ On(offered[i]).tier >= On(offered[j]).tier
      BY <1>1, <1>2, WinnerIsBest DEF IInv
<1>4. \A j \in A : On(offered[j]).tier \in Tier
      BY <1>2, Places DEF IInv, Comparable, Measurement
<1>5. Chosen \in best BY <1>1, <1>2, <1>3
<1> DEFINE tier == On(offered[i]).tier
           units == UnitsOf(offered, A, primary, tier)
<1>6. /\ tier # 0 /\ ~ (tier = 1 /\ ~policy.allowStatic)
      /\ ~ (Cardinality(units) > 1)
      BY <1>1 DEF Shortfall
<1>7. tier >= IF policy.allowStatic THEN 1 ELSE 2 BY <1>4, <1>6 DEF Tier
<1>8. ASSUME NEW d \in best
      PROVE  On(d).unit = On(Chosen).unit /\ ~BeatsOn(primary, d, Chosen)
  <2>1. PICK j \in A : d = offered[j] BY <1>2
  <2>2. On(d).tier >= tier BY <1>1, <1>5
  <2>3. On(d).tier = tier BY <1>3, <1>4, <2>1, <2>2 DEF Tier
  <2>4. On(d).unit \in units /\ On(offered[i]).unit \in units BY <2>1, <2>3 DEF UnitsOf
  <2>5. IsFiniteSet(units) BY <1>2, Places, FS_Subset, UnitsAreFinite DEF IInv
  <2>6. On(d).unit = On(offered[i]).unit
    <3> HIDE DEF units, On
    <3> QED BY <1>6, <2>4, <2>5, AtMostOne
  <2> QED BY <1>1, <1>3, <2>1, <2>6
<1> QED BY <1>1, <1>5, <1>7, <1>8

(* A plan declines only evidence that cannot decide.                       *)
LEMMA DeclinedIsHonest ==
    ASSUME InputsAreWellFormed, IInv, outcome.status = "insufficient"
    PROVE  LET On(c) == EvidenceOn(c, policy.objectives[1])
               best == {c \in Survivors : \A d \in Survivors : On(c).tier >= On(d).tier}
           IN  ~ \E c \in best : /\ On(c).tier = 2
                                 /\ \A d \in best \ {c} : On(d).unit = On(c).unit
<1> DEFINE A == Admitted(policy, snapshot, offered)
           On(c) == EvidenceOn(c, policy.objectives[1])
           best == {c \in Survivors : \A d \in Survivors : On(c).tier >= On(d).tier}
<1>1. PICK i \in A :
         /\ Winner(policy.objectives, offered, A) = offered[i]
         /\ \A j \in A \ {i} : Before(policy.objectives, offered[i], offered[j])
         /\ Shortfall(policy, offered, A) # "none"
      BY AnswerIsOfWinner
<1>2. Survivors = {offered[k] : k \in A} /\ A \subseteq DOMAIN offered
      BY DEF Survivors, Admitted
<1>3. \A j \in A : On(offered[j]).tier \in Tier
      BY <1>2, Places DEF IInv, Comparable, Measurement
<1>4. SUFFICES ASSUME NEW c \in best, On(c).tier = 2,
                      \A d \in best \ {c} : On(d).unit = On(c).unit
               PROVE  FALSE
      OBVIOUS
<1>5. PICK k \in A : c = offered[k] BY <1>2
<1>6. On(offered[i]).tier >= 2 BY <1>1, <1>2, <1>4, <1>5, WinnerIsBest DEF IInv
<1>7. On(offered[i]).tier = 2 BY <1>3, <1>6 DEF Tier
<1> DEFINE units == UnitsOf(offered, A, policy.objectives[1], 2)
<1>8. Cardinality(units) > 1 BY <1>1, <1>7 DEF Shortfall
<1>9. ASSUME NEW u \in units PROVE u = On(c).unit
  <2>1. PICK j \in A : On(offered[j]).tier = 2 /\ u = On(offered[j]).unit BY DEF UnitsOf
  <2>2. offered[j] \in best BY <1>2, <1>3, <2>1 DEF Tier
  <2> QED BY <1>4, <2>1, <2>2
<1>10. IsFiniteSet(units) BY <1>2, Places, FS_Subset, UnitsAreFinite DEF IInv
<1> QED
  <2> HIDE DEF units, On
  <2> QED BY <1>8, <1>9, <1>10, AtMostOne

-----------------------------------------------------------------------------
(* The device.                                                             *)

(* A checked product that did not overflow is the product.                 *)
LEMMA ProductIsExact ==
    ASSUME InputsAreWellFormed, NEW axes, \A axis \in 1 .. 3 : axes[axis] \in Nat,
           CheckedProduct(axes) <= MaxProduct
    PROVE  CheckedProduct(axes) = axes[1] * axes[2] * axes[3]
<1> DEFINE times(n, m) == IF n = MaxProduct + 1 \/ n * m > MaxProduct THEN MaxProduct + 1 ELSE n * m
           area == times(axes[1], axes[2])
<1>1. axes[1] \in Nat /\ axes[2] \in Nat /\ axes[3] \in Nat /\ MaxProduct \in Nat
      BY DEF InputsAreWellFormed
<1>2. CheckedProduct(axes) = times(area, axes[3]) BY DEF CheckedProduct
<1>3. axes[1] * axes[2] \in Nat BY <1>1
<1>4. area = axes[1] * axes[2]
  <2>1. CASE area = MaxProduct + 1
    <3>1. times(area, axes[3]) = MaxProduct + 1 BY <2>1
    <3> QED BY <1>1, <1>2, <3>1
  <2>2. CASE area # MaxProduct + 1 BY <2>2
  <2> QED BY <2>1, <2>2
<1>5. times(area, axes[3]) # MaxProduct + 1 BY <1>1, <1>2
<1> QED BY <1>2, <1>4, <1>5

(* The check of a kernel's requirements against a device is exactly that   *)
(* they are met, the product of its axes and some subgroup width included. *)
THEOREM CheckIsExact ==
    ASSUME InputsAreWellFormed, IsSetting(<<policy, snapshot>>),
           NEW c, IsCandidate(c), IsRequirement(c.requirements)
    PROVE  CheckAgainst(c.requirements, snapshot) <=> Met(c)
<1> DEFINE r == c.requirements
           range == snapshot.subgroup.range
<1>1. /\ IsSnapshot(snapshot)
      /\ \A axis \in 1 .. 3 : snapshot.axes[axis] \in Nat
      /\ \A l \in Limits : snapshot[l] \in Nat
      /\ range \in {<<>>} \cup ((0 .. MaxProduct) \X (0 .. MaxProduct))
      /\ MaxProduct \in Nat
      BY DEF IsSetting, InputsAreWellFormed
<1>2. /\ \A axis \in 1 .. 3 : r.axes[axis] \in Nat
      /\ \A l \in Limits \ {"workgroups"} : r[l] \in Nat
      /\ r.width \in Nat \cup {-1} /\ r.features \subseteq Feature
      BY DEF IsCandidate
<1>3. r.axes[1] * r.axes[2] * r.axes[3] \in Nat
      /\ r.axes[1] * r.axes[2] * r.axes[3] <= r.invocations
      BY <1>2, ProductIsExact DEF IsRequirement
<1>4. /\ r.invocations \in Nat /\ r.storage \in Nat /\ r.groups \in Nat /\ r.binding \in Nat
      /\ snapshot.invocations \in Nat
      BY <1>1, <1>2 DEF Limits
<1>5. (\A l \in Limits \ {"workgroups"} : r[l] <= snapshot[l])
      <=> /\ r.invocations <= snapshot.invocations /\ r.storage <= snapshot.storage
          /\ r.groups <= snapshot.groups /\ r.binding <= snapshot.binding
      BY DEF Limits
<1>6. (\A f \in Feature : CheckFeature(r, snapshot, f))
      <=> \A f \in r.features : snapshot.features[f] = "known-true"
      BY <1>2 DEF CheckFeature
<1>7. ASSUME r.width # -1
      PROVE  (snapshot.subgroup.supported /\ range # <<>> /\ range[2] >= r.width)
             <=> \E w \in 1 .. MaxProduct :
                    w >= r.width /\ range # <<>> /\ range[1] <= w /\ w <= range[2]
  <2>1. CASE range = <<>> BY <2>1
  <2>2. CASE range # <<>>
    <3>1. /\ range[1] \in 0 .. MaxProduct /\ range[2] \in 0 .. MaxProduct
          /\ snapshot.subgroup.supported
          /\ range[1] # 0 /\ range[1] <= range[2]
          BY <1>1, <2>2 DEF IsSnapshot, SubgroupIsValid
    <3>2. r.width \in Nat BY <1>2, <1>7
    <3>3. range[2] \in 1 .. MaxProduct BY <1>1, <3>1
    <3>4. ASSUME range[2] >= r.width
          PROVE  \E w \in 1 .. MaxProduct :
                    w >= r.width /\ range # <<>> /\ range[1] <= w /\ w <= range[2]
          BY <2>2, <3>1, <3>3, <3>4
    <3>5. ASSUME NEW w \in 1 .. MaxProduct, w >= r.width, w <= range[2]
          PROVE  range[2] >= r.width
          BY <1>1, <3>1, <3>2, <3>5
    <3> QED BY <2>2, <3>1, <3>4, <3>5
  <2> QED BY <2>1, <2>2
<1>8. CheckAgainst(r, snapshot) => Met(c)
  <2> SUFFICES ASSUME CheckAgainst(r, snapshot) PROVE Met(c) OBVIOUS
  <2>1. r.axes[1] * r.axes[2] * r.axes[3] <= snapshot.invocations
        BY <1>3, <1>4 DEF CheckAgainst
  <2> QED BY <1>5, <1>6, <1>7, <2>1 DEF CheckAgainst, Met
<1>9. Met(c) => CheckAgainst(r, snapshot)
      BY <1>5, <1>6, <1>7 DEF CheckAgainst, Met
<1> QED BY <1>8, <1>9

(* What is selected runs; what is rejected as infeasible cannot.           *)
LEMMA SelectedCanRun == ASSUME InputsAreWellFormed, IInv PROVE SelectionCanRun
<1> DEFINE A == Admitted(policy, snapshot, offered)
<1>1. /\ IsSetting(<<policy, snapshot>>)
      /\ \A i \in DOMAIN offered :
            IsCandidate(offered[i]) /\ IsRequirement(offered[i].requirements)
      BY Places DEF IInv
<1>2. ASSUME outcome.status = "selected" PROVE Met(Chosen)
  <2>1. PICK i \in A : Chosen = offered[i] BY <1>2, AnswerIsOfWinner
  <2>2. i \in DOMAIN offered /\ CheckAgainst(offered[i].requirements, snapshot)
        BY DEF Admitted, Fits, Reason
  <2> QED BY <1>1, <2>1, <2>2, CheckIsExact
<1>3. ASSUME outcome.status \in {"selected", "no candidate"},
             NEW x \in outcome.rejected, x.reason = "infeasible",
             NEW i \in DOMAIN offered, offered[i].id = x.id
      PROVE  ~Met(offered[i])
  <2>1. outcome.rejected = Rejected(policy, snapshot, offered)
    <3>0. outcome.status # "none" BY <1>3
    <3>1. outcome = PlanOf(policy, snapshot, offered) BY <3>0 DEF IInv, Unanswered
    <3> QED BY <1>3, <3>1 DEF PlanOf, Unsupported, NoCandidate, Insufficient, Selected
  <2>2. PICK k \in DOMAIN offered :
           x = [id |-> offered[k].id, reason |-> Reason(policy, snapshot, offered[k])]
        BY <1>3, <2>1 DEF Rejected
  <2>3. k = i BY <1>3, <2>2 DEF IInv, OfferedInv
  <2>4. ~CheckAgainst(offered[i].requirements, snapshot) BY <1>3, <2>2, <2>3 DEF Reason
  <2> QED BY <1>1, <2>4, CheckIsExact
<1> QED BY <1>2, <1>3 DEF SelectionCanRun

(* A selection rests on evidence that the policy trusts and that no        *)
(* survivor betters, a plan declines only what cannot decide, and what is  *)
(* selected can run on the device: for every policy, device and candidates,*)
(* in whatever order they are offered.                                     *)
THEOREM SelectionsAreHonest == Spec => []HonestSelection
<1>1. IInv => HonestSelection
      BY InputsAreWellFormed, ComparedIsHonest, DeclinedIsHonest, SelectedCanRun
      DEF HonestSelection
<1> QED BY <1>1, Invariance, PTL

-----------------------------------------------------------------------------
(* The order of offers.                                                    *)

(* Among the same candidates at other places the same one wins.            *)
LEMMA WinnerIsTheSame ==
    ASSUME NEW S, NEW objectives \in Seq(S), NEW cs, NEW places, NEW ds, NEW others,
           IsFiniteSet(places), IsFiniteSet(others), places # {},
           \A i \in places : Comparable(cs[i]),
           \A i, j \in places : i # j => cs[i].id # cs[j].id,
           \A i, j \in others : i # j => ds[i].id # ds[j].id,
           \A i \in others : \E k \in places : ds[i] = cs[k],
           \A k \in places : \E i \in others : ds[i] = cs[k]
    PROVE  Winner(objectives, ds, others) = Winner(objectives, cs, places)
<1>1. others # {} /\ \A i \in others : Comparable(ds[i]) OBVIOUS
<1>2. PICK k \in places :
         /\ Winner(objectives, cs, places) = cs[k]
         /\ \A l \in places \ {k} : Before(objectives, cs[k], cs[l])
      BY WinnerIsFirst
<1>3. PICK i \in others :
         /\ Winner(objectives, ds, others) = ds[i]
         /\ \A j \in others \ {i} : Before(objectives, ds[i], ds[j])
      BY <1>1, WinnerIsFirst
<1>4. PICK l \in places : ds[i] = cs[l] OBVIOUS
<1>5. PICK j \in others : ds[j] = cs[k] OBVIOUS
<1>6. SUFFICES ASSUME ds[i] # cs[k] PROVE FALSE BY <1>2, <1>3
<1>7. l # k /\ j # i BY <1>4, <1>5, <1>6
<1>8. Before(objectives, cs[k], cs[l]) /\ Before(objectives, cs[l], cs[k])
      BY <1>2, <1>3, <1>4, <1>5, <1>7
<1> QED BY <1>8, BeforeIsAStrictOrder

(* A plan of the same candidates in another order is the same plan.        *)
LEMMA PlanIsTheSame ==
    ASSUME InputsAreWellFormed, OfferedInv,
           NEW p \in [DOMAIN offered -> DOMAIN offered],
           \A i, j \in DOMAIN offered : p[i] = p[j] => i = j
    PROVE  PlanOf(policy, snapshot, [i \in DOMAIN offered |-> offered[p[i]]])
              = PlanOf(policy, snapshot, offered)
<1> DEFINE D == DOMAIN offered
           cs == [i \in D |-> offered[p[i]]]
           A == Admitted(policy, snapshot, offered)
           B == Admitted(policy, snapshot, cs)
           objectives == policy.objectives
<1>1. IsFiniteSet(D) /\ objectives \in Seq(DOMAIN Direction)
      BY Places DEF IsPolicy
<1>2. \A k \in D : \E i \in D : p[i] = k
  <2>1. p \in Injection(D, D) BY DEF Injection, IsInjective
  <2>2. p \in Surjection(D, D)
    <3> HIDE DEF D
    <3> QED BY <1>1, <2>1, FS_Injection
  <2> QED BY <2>2 DEF Surjection
<1>3. DOMAIN cs = D /\ \A i \in D : cs[i] = offered[p[i]] /\ p[i] \in D OBVIOUS
<1> HIDE DEF cs
<1>4. A \subseteq D /\ B \subseteq D /\ B = {i \in D : p[i] \in A}
      BY <1>3 DEF Admitted
<1>5. A = {p[i] : i \in B} BY <1>2, <1>4
<1>6. IsFiniteSet(A) /\ IsFiniteSet(B) BY <1>1, <1>4, FS_Subset
<1>7. Cardinality(A) = Cardinality(B)
  <2> DEFINE f == [i \in B |-> p[i]]
  <2>1. f \in Bijection(B, A) BY <1>4, <1>5 DEF Bijection, Injection, IsInjective, Surjection
  <2>2. ExistsBijection(B, A) BY <2>1 DEF ExistsBijection
  <2> HIDE DEF A, B
  <2> QED BY <1>6, <2>2, FS_Bijection
<1>8. Rejected(policy, snapshot, cs) = Rejected(policy, snapshot, offered)
  <2>1. \A i \in D \ B : p[i] \in D \ A BY <1>3, <1>4
  <2>2. \A k \in D \ A : \E i \in D \ B : p[i] = k BY <1>2, <1>4
  <2> HIDE DEF A, B
  <2>3. Rejected(policy, snapshot, cs) =
           {[id |-> offered[p[i]].id, reason |-> Reason(policy, snapshot, offered[p[i]])]
               : i \in D \ B}
        BY <1>3 DEF Rejected, A, B
  <2>4. Rejected(policy, snapshot, offered) =
           {[id |-> offered[k].id, reason |-> Reason(policy, snapshot, offered[k])]
               : k \in D \ A}
        BY DEF Rejected, A
  <2> HIDE DEF D
  <2> QED BY <2>1, <2>2, <2>3, <2>4
<1> HIDE DEF A, B
<1>9. {cs[i].id : i \in B} = {offered[k].id : k \in A} BY <1>3, <1>4, <1>5
<1>10. A = {} <=> B = {} BY <1>5
<1>11. ASSUME A # {} PROVE Winner(objectives, cs, B) = Winner(objectives, offered, A)
  <2>1. \A k \in D : Comparable(offered[k]) BY Places
  <2>2. \A i, j \in D : i # j => offered[i].id # offered[j].id BY DEF OfferedInv
  <2>3. \A i, j \in D : i # j => cs[i].id # cs[j].id BY <1>3, <2>2
  <2>4. \A i \in B : \E k \in A : cs[i] = offered[k] BY <1>3, <1>4
  <2>5. \A k \in A : \E i \in B : cs[i] = offered[k] BY <1>3, <1>4, <1>5
  <2> HIDE DEF D, objectives
  <2> QED BY <1>1, <1>4, <1>6, <1>11, <2>1, <2>2, <2>3, <2>4, <2>5, WinnerIsTheSame
<1>12. \A o, tier : UnitsOf(cs, B, o, tier) = UnitsOf(offered, A, o, tier)
       BY <1>3, <1>4, <1>5 DEF UnitsOf
<1>13. A # {} => Shortfall(policy, cs, B) = Shortfall(policy, offered, A)
       BY <1>11, <1>12 DEF Shortfall
<1>14. PlanOf(policy, snapshot, cs) = PlanOf(policy, snapshot, offered)
       BY <1>7, <1>8, <1>9, <1>10, <1>11, <1>13 DEF PlanOf, A, B
<1> QED BY <1>14 DEF cs

(* Whatever order adapters offer their candidates in, the answer is the    *)
(* same: what is selected, why not, and what was rejected.                 *)
THEOREM OrderIsIrrelevant == Spec => []OfferOrderIrrelevant
<1>1. IInv => OfferOrderIrrelevant
      BY InputsAreWellFormed, PlanIsTheSame DEF OfferOrderIrrelevant, IInv
<1> QED BY <1>1, Invariance, PTL

-----------------------------------------------------------------------------
(* The configured loop.  A division is the whole number between two        *)
(* products, so that everything the planners compute is compared without   *)
(* dividing.                                                               *)

(* What a division is, of a negative number too.                           *)
LEMMA DivBounds ==
    ASSUME NEW a \in Int, NEW b \in Nat \ {0}
    PROVE  a \div b \in Int /\ b * (a \div b) <= a /\ a < b * (a \div b) + b
OBVIOUS

LEMMA DivUnique ==
    ASSUME NEW a \in Int, NEW b \in Nat \ {0}, NEW q \in Int, b * q <= a, a < b * q + b
    PROVE  a \div b = q
<1> DEFINE p == a \div b
<1>1. p \in Int /\ b * p <= a /\ a < b * p + b BY DivBounds
<1> HIDE DEF p
<1>2. b * (p - q) < b /\ -b < b * (p - q) BY <1>1
<1>3. p - q < 1 /\ p - q > -1 BY <1>1, <1>2
<1>4. p = q BY <1>1, <1>3
<1> QED BY <1>4 DEF p

(* A division that rounds up, between two products likewise.               *)
LEMMA CeilBounds ==
    ASSUME NEW a \in Int, NEW b \in Nat \ {0}
    PROVE  /\ CeilDiv(a, b) \in Int
           /\ a <= b * CeilDiv(a, b) /\ b * CeilDiv(a, b) < a + b
<1> DEFINE q == (-a) \div b
<1>1. q \in Int /\ b * q <= -a /\ -a < b * q + b BY DivBounds
<1>2. CeilDiv(a, b) = -q BY DEF CeilDiv
<1> HIDE DEF q
<1> QED BY <1>1, <1>2

LEMMA CeilUnique ==
    ASSUME NEW a \in Int, NEW b \in Nat \ {0}, NEW q \in Int, a <= b * q, b * q < a + b
    PROVE  CeilDiv(a, b) = q
<1>1. b * (-q) <= -a /\ -a < b * (-q) + b OBVIOUS
<1>2. (-a) \div b = -q BY <1>1, DivUnique
<1> QED BY <1>2 DEF CeilDiv

(* Scaling both sides of a comparison changes nothing.                     *)
LEMMA ScalingKeepsOrder ==
    ASSUME NEW a \in Int, NEW b \in Int, NEW g \in Nat \ {0}
    PROVE  /\ a * g <= b * g <=> a <= b
           /\ a * g < b * g <=> a < b
OBVIOUS

(* A commitment that was not smoothed is read back as it is.               *)
LEMMA UnscaledIsWhole == ASSUME LoopAssumption, NEW n \in Int PROVE (n * Grain) \div Grain = n
BY DivUnique DEF LoopAssumption

(* More of a budget is no smaller a share of it, however it is rounded.    *)
LEMMA ShareIncreases ==
    ASSUME LoopAssumption, NEW of \in Nat \ {0}, NEW m \in Int, NEW n \in Int, m <= n
    PROVE  Share(m, of) \in Int /\ Share(n, of) \in Int /\ Share(m, of) <= Share(n, of)
<1> DEFINE p == (m * Whole) \div of
           q == (n * Whole) \div of
<1>1. m * Whole \in Int /\ n * Whole \in Int /\ m * Whole <= n * Whole BY DEF LoopAssumption
<1>2. p \in Int /\ of * p <= m * Whole BY <1>1, DivBounds
<1>3. q \in Int /\ n * Whole < of * q + of BY <1>1, DivBounds
<1> HIDE DEF p, q
<1>4. of * p < of * q + of
  <2> DEFINE x == m * Whole
             y == n * Whole
  <2>1. x \in Int /\ y \in Int /\ x <= y /\ of * p <= x /\ y < of * q + of BY <1>1, <1>2, <1>3
  <2> HIDE DEF x, y
  <2>2. of * p \in Int /\ of * q \in Int BY <1>2, <1>3
  <2> QED BY <2>1, <2>2
<1>5. of * p < of * (q + 1) BY <1>2, <1>3, <1>4
<1>6. p < q + 1 BY <1>2, <1>3, <1>5
<1>7. p <= q BY <1>2, <1>3, <1>6
<1> QED BY <1>2, <1>3, <1>7 DEF Share, p, q

(* The regulator aims at one size, whatever the size it starts from.       *)
LEMMA GapClosesAtTheGoal ==
    ASSUME LoopAssumption, NEW total \in Nat, NEW size \in Nat, NEW headroom \in Int
    PROVE  LET gap == ((total - size) * Grain) * Whole - (total * Grain) * headroom
           IN /\ gap \in Int
              /\ size + CeilDiv(gap, Whole * Grain) = total + CeilDiv(-(total * headroom), Whole)
<1> DEFINE q == CeilDiv(-(total * headroom), Whole)
           gap == ((total - size) * Grain) * Whole - (total * Grain) * headroom
           want == total * headroom
           left == total - size
<1>0. Whole \in Nat \ {0} /\ Grain \in Nat \ {0} BY DEF LoopAssumption
<1>1. want \in Int /\ left \in Int OBVIOUS
<1>2. q \in Int /\ -want <= Whole * q /\ Whole * q < -want + Whole BY <1>0, <1>1, CeilBounds
<1>3. gap = (left * Whole - want) * Grain BY <1>0
<1>4. gap \in Int BY <1>0, <1>1, <1>3
<1>5. Whole * Grain \in Nat \ {0} BY <1>0
<1> HIDE DEF q, gap, want, left
<1>6. left * Whole - want <= (left + q) * Whole /\ (left + q) * Whole < left * Whole - want + Whole
      BY <1>0, <1>1, <1>2
<1>7. /\ (Whole * Grain) * (left + q) = ((left + q) * Whole) * Grain
      /\ gap + Whole * Grain = (left * Whole - want + Whole) * Grain
  <2>1. (left + q) * Whole \in Int /\ left * Whole \in Int /\ left + q \in Int BY <1>0, <1>1, <1>2
  <2>2. (Whole * Grain) * (left + q) = ((left + q) * Whole) * Grain BY <1>0, <2>1
  <2>3. gap + Whole * Grain = (left * Whole - want + Whole) * Grain BY <1>0, <1>1, <1>3, <2>1
  <2> QED BY <2>2, <2>3
<1>8. gap <= (Whole * Grain) * (left + q) /\ (Whole * Grain) * (left + q) < gap + Whole * Grain
  <2> DEFINE x == left * Whole - want
             y == (left + q) * Whole
             z == left * Whole - want + Whole
  <2>1. x \in Int /\ y \in Int /\ z \in Int BY <1>0, <1>1, <1>2
  <2>2. x <= y /\ y < z BY <1>6
  <2>3. gap = x * Grain /\ (Whole * Grain) * (left + q) = y * Grain /\ gap + Whole * Grain = z * Grain
        BY <1>3, <1>7
  <2> HIDE DEF x, y, z
  <2>4. x * Grain <= y * Grain /\ y * Grain < z * Grain BY <1>0, <2>1, <2>2, ScalingKeepsOrder
  <2> QED BY <2>3, <2>4
<1>9. left + q \in Int BY <1>1, <1>2
<1>10. CeilDiv(gap, Whole * Grain) = left + q BY <1>4, <1>5, <1>8, <1>9, CeilUnique
<1>11. size + (left + q) = total + q BY <1>2 DEF left
<1> QED BY <1>4, <1>10, <1>11 DEF gap, q

(* A step of the threshold planner never leads the wrong way.              *)
LEMMA StepsLeadOneWay ==
    ASSUME LoopAssumption, NEW size \in Nat \ {0}, NEW p, p.step \in Int, 0 < p.step, p.step <= Whole
    PROVE  /\ StepTarget(p, size, TRUE) \in Nat /\ size <= StepTarget(p, size, TRUE)
           /\ StepTarget(p, size, FALSE) \in Nat /\ StepTarget(p, size, FALSE) <= size
<1> DEFINE s == p.step
           up == CeilDiv(size * (Whole + s), Whole)
           down == CeilDiv(size * (Whole + (-s)), Whole)
<1>1. Whole \in Nat \ {0} /\ s \in Int /\ 0 < s /\ s <= Whole BY DEF LoopAssumption
<1>2. size * (Whole + s) \in Int /\ size * (Whole + (-s)) \in Int BY <1>1
<1>3. up \in Int /\ size * (Whole + s) <= Whole * up BY <1>1, <1>2, CeilBounds
<1>4. down \in Int /\ Whole * down < size * (Whole + (-s)) + Whole BY <1>1, <1>2, CeilBounds
<1>5. /\ StepTarget(p, size, TRUE) = AtLeastOne(up)
      /\ StepTarget(p, size, FALSE) = AtLeastOne(down)
      BY DEF StepTarget
<1> HIDE DEF s, up, down
<1>6. size <= up
  <2>1. size * Whole <= size * (Whole + s) BY <1>1
  <2>2. size * Whole <= up * Whole
    <3> DEFINE x == size * (Whole + s)
    <3>1. x \in Int /\ size * Whole <= x /\ x <= Whole * up BY <1>2, <1>3, <2>1
    <3> HIDE DEF x
    <3>2. size * Whole \in Int /\ Whole * up \in Int /\ Whole * up = up * Whole BY <1>1, <1>3
    <3> QED BY <3>1, <3>2
  <2> QED BY <1>1, <1>3, <2>2, ScalingKeepsOrder
<1>7. down <= size
  <2>1. size * (Whole + (-s)) <= size * Whole BY <1>1
  <2>2. down * Whole < (size + 1) * Whole
    <3> DEFINE x == size * (Whole + (-s))
    <3>1. x \in Int /\ x <= size * Whole /\ Whole * down < x + Whole BY <1>2, <1>4, <2>1
    <3> HIDE DEF x
    <3>2. size * Whole \in Int /\ Whole * down \in Int /\ Whole * down = down * Whole
          /\ (size + 1) * Whole = size * Whole + Whole BY <1>1, <1>4
    <3> QED BY <1>1, <3>1, <3>2
  <2>3. down < size + 1 BY <1>1, <1>4, <2>2, ScalingKeepsOrder
  <2> QED BY <1>4, <2>3
<1>8. AtLeastOne(up) \in Nat /\ size <= AtLeastOne(up) BY <1>3, <1>6 DEF AtLeastOne
<1>9. AtLeastOne(down) \in Nat /\ AtLeastOne(down) <= size BY <1>4, <1>7 DEF AtLeastOne
<1> QED BY <1>5, <1>8, <1>9
-----------------------------------------------------------------------------
(* What is read of a resource, and what is planned of it.                  *)

(* What holds of a controller that runs.  It is built of what validation   *)
(* accepts; its resource is within its bounds, and so is what is used of   *)
(* it; the forecaster remembers numbers.  After a change the regulator is  *)
(* at the one size that it aims at, and the budget's share is on the side  *)
(* of the threshold that the change came from: what has just been carried  *)
(* out says which way the next proposal can point.                         *)
Shaped(c) ==
    /\ c = [error |-> "none", live |-> c.live, planner |-> c.planner, mode |-> c.mode,
            dryRun |-> c.dryRun, forecaster |-> c.forecaster, smoothed |-> c.smoothed,
            last |-> c.last]
    /\ c.live = [refused |-> FALSE, config |-> c.live.config, size |-> c.live.size,
                 used |-> c.live.used]
Configured(c) ==
    /\ c.live.config \in Resources /\ ResourceAccepted(c.live.config)
    /\ \E k \in Controllers : c.planner = k.planner /\ c.forecaster = k.forecaster
    /\ PlannerAccepted(c.planner)
    /\ c.live.config.kind = "concurrency" => c.planner.kind = "first"
Within(c) ==
    /\ c.live.size \in Nat /\ c.live.used \in Nat /\ c.live.used <= c.live.size
    /\ 0 < c.live.size
    /\ c.live.config.kind = "ram" =>
          c.live.config.min <= c.live.size /\ c.live.size <= c.live.config.max
Remembered(c) ==
    c.smoothed # None => \A s \in DOMAIN LiveContext(c.live) : c.smoothed[s] \in Int
Goal(p, r) == AtLeastOne(r.total + CeilDiv(-(r.total * p.headroom), Whole))
Above(p, r, size) == Share(size, r.total) >= p.high
Settled(c) ==
    c.last # None =>
      /\ c.live.config.kind = "ram" /\ c.planner.kind # "first"
      /\ c.last.from \in Nat /\ c.last.to = c.live.size
      /\ c.forecaster.kind = "current" =>
           /\ c.planner.kind = "headroom" => c.last.to = Goal(c.planner, c.live.config)
           /\ c.planner.kind = "threshold" =>
                /\ c.last.to > c.last.from => Above(c.planner, c.live.config, c.last.to)
                /\ c.last.to < c.last.from => ~Above(c.planner, c.live.config, c.last.to)
Running(c) == Shaped(c) /\ Configured(c) /\ Within(c) /\ Remembered(c) /\ Settled(c)
LoopKept == running # None => Running(running)

(* What the controller that runs may be, from what may be configured.      *)
LEMMA WhatRuns ==
    ASSUME LoopAssumption, NEW c, Shaped(c), Configured(c), Within(c)
    PROVE  LET r == c.live.config
               p == c.planner
           IN /\ {r.total, r.min, r.max} \subseteq Nat /\ r.kind \in {"ram", "concurrency"}
              /\ p.kind \in {"first", "headroom", "threshold"}
              /\ p.kind = "headroom" => p.headroom \in Int /\ p.deadband \in Int
              /\ p.kind = "threshold" => /\ p.low \in Int /\ p.high \in Int /\ p.step \in Int
                                         /\ 0 < p.step /\ p.step <= Whole
              /\ c.forecaster.kind \in {"current", "ewma"}
              /\ c.forecaster.kind = "ewma" => c.forecaster.alpha \in Int
              /\ p.kind # "first" => r.kind = "ram"
              /\ r.kind = "ram" => r.total \in Nat \ {0} /\ c.live.size <= r.total
<1>1. PICK k \in Controllers : c.planner = k.planner /\ c.forecaster = k.forecaster BY DEF Configured
<1>2. /\ k.planner.kind \in {"first", "headroom", "threshold"}
      /\ Fractions(k.planner) \subseteq Int
      /\ k.forecaster.kind \in {"current", "ewma"}
      /\ k.forecaster.kind = "ewma" => k.forecaster.alpha \in Nat
      BY DEF LoopAssumption
<1>3. /\ {c.live.config.total, c.live.config.min, c.live.config.max} \subseteq Nat
      /\ c.live.config.kind \in {"ram", "concurrency"}
      BY DEF LoopAssumption, Configured, Amounts
<1>4. k.planner.kind = "headroom" => k.planner.headroom \in Int /\ k.planner.deadband \in Int
      BY <1>2 DEF Fractions
<1>5. k.planner.kind = "threshold" =>
        /\ k.planner.low \in Int /\ k.planner.high \in Int /\ k.planner.step \in Int
        /\ 0 < k.planner.step /\ k.planner.step <= Whole
  <2>1. SUFFICES ASSUME k.planner.kind = "threshold"
                 PROVE  /\ k.planner.low \in Int /\ k.planner.high \in Int /\ k.planner.step \in Int
                        /\ 0 < k.planner.step /\ k.planner.step <= Whole
        OBVIOUS
  <2>2. Fractions(k.planner) = {k.planner.low, k.planner.high, k.planner.step} BY <2>1 DEF Fractions
  <2>3. ThresholdAccepted(k.planner) BY <1>1, <2>1 DEF Configured, PlannerAccepted
  <2> QED BY <1>2, <2>2, <2>3 DEF ThresholdAccepted
<1>6. c.planner.kind # "first" => c.live.config.kind = "ram" BY <1>3 DEF Configured
<1>7. c.live.config.kind = "ram" =>
        c.live.config.total \in Nat \ {0} /\ c.live.size <= c.live.config.total
      BY <1>3 DEF Configured, Within, ResourceAccepted
<1> QED BY <1>1, <1>2, <1>3, <1>4, <1>5, <1>6, <1>7

Budget == {"free", "utilization", "committed", "total", "min", "max", "inUse"}
(* What is observed of a budget.                                           *)
LEMMA BudgetContext ==
    ASSUME LoopAssumption, NEW c, Shaped(c), Configured(c), Within(c), c.live.config.kind = "ram"
    PROVE  LET now == LiveContext(c.live)
               r == c.live.config
           IN /\ DOMAIN now = Budget
              /\ \A s \in Budget : now[s] \in Int
              /\ now["free"] = (r.total - c.live.size) * Grain
              /\ now["utilization"] = Share(c.live.size, r.total) * Grain
              /\ now["committed"] = c.live.size * Grain
              /\ now["total"] = r.total * Grain
<1> DEFINE r == c.live.config
           free == IF c.live.size < r.total THEN r.total - c.live.size ELSE 0
           raw == [free |-> free,
                   utilization |-> Share(c.live.size, r.total), committed |-> c.live.size,
                   total |-> r.total, min |-> r.min, max |-> r.max, inUse |-> c.live.used]
<1>1. /\ r.total \in Nat \ {0} /\ r.min \in Nat /\ r.max \in Nat
      /\ c.live.size \in Nat /\ c.live.size <= r.total /\ c.live.used \in Nat
      BY WhatRuns DEF Within
<1>2. free = r.total - c.live.size BY <1>1
<1>3. Share(c.live.size, r.total) \in Int BY <1>1, ShareIncreases
<1>4. LiveContext(c.live) = [s \in DOMAIN raw |-> raw[s] * Grain] BY DEF LiveContext, Scaled
<1>5. /\ DOMAIN raw = Budget /\ raw["free"] = r.total - c.live.size
      /\ raw["utilization"] = Share(c.live.size, r.total) /\ raw["committed"] = c.live.size
      /\ raw["total"] = r.total
      BY <1>2 DEF Budget
<1>6. \A s \in Budget : raw[s] \in Int
  <2>1. \A n \in {raw.free, raw.utilization, raw.committed, raw.total, raw.min, raw.max, raw.inUse} :
           n \in Int
        BY <1>1, <1>2, <1>3
  <2> QED BY <2>1 DEF Budget
<1> HIDE DEF raw
<1>7. \A s \in Budget : raw[s] * Grain \in Int BY <1>6 DEF LoopAssumption
<1> QED BY <1>4, <1>5, <1>7 DEF Budget

(* What is observed of a pool of permits is numbers.                       *)
LEMMA PoolContext ==
    ASSUME LoopAssumption, NEW c, Shaped(c), Configured(c), Within(c), c.live.config.kind # "ram"
    PROVE  \A s \in DOMAIN LiveContext(c.live) : LiveContext(c.live)[s] \in Int
<1> DEFINE raw == [utilization |-> Share(c.live.used, c.live.size), capacity |-> c.live.config.max,
                   width |-> c.live.size, active |-> c.live.used]
           Signals == {"utilization", "capacity", "width", "active"}
<1>1. c.live.config.max \in Nat /\ c.live.size \in Nat \ {0} /\ c.live.used \in Nat
      BY WhatRuns DEF Within
<1>2. Share(c.live.used, c.live.size) \in Int BY <1>1, ShareIncreases
<1>3. LiveContext(c.live) = [s \in DOMAIN raw |-> raw[s] * Grain] BY DEF LiveContext, Scaled
<1>4. DOMAIN raw = Signals OBVIOUS
<1>5. \A s \in Signals : raw[s] \in Int
  <2>1. \A n \in {raw.utilization, raw.capacity, raw.width, raw.active} : n \in Int BY <1>1, <1>2
  <2> QED BY <2>1
<1> HIDE DEF raw, Signals
<1> QED BY <1>3, <1>4, <1>5 DEF LoopAssumption

(* A forecast has the signals of the observation, and without smoothing is *)
(* the observation itself.                                                 *)
LEMMA ForecastIsKnown ==
    ASSUME LoopAssumption, NEW c, Shaped(c), Configured(c), Within(c), Remembered(c)
    PROVE  /\ DOMAIN Forecast(c) = DOMAIN LiveContext(c.live)
           /\ \A s \in DOMAIN LiveContext(c.live) : Forecast(c)[s] \in Int
           /\ c.forecaster.kind = "current" => Forecast(c) = LiveContext(c.live)
<1> DEFINE now == LiveContext(c.live)
           Signals == DOMAIN now
<1>1. \A s \in Signals : now[s] \in Int BY BudgetContext, PoolContext
<1>2. CASE c.forecaster.kind = "current" \/ c.smoothed = None
  <2>1. Forecast(c) = now BY <1>2 DEF Forecast
  <2> QED BY <1>1, <2>1
<1>3. CASE ~(c.forecaster.kind = "current" \/ c.smoothed = None)
  <2>1. c.forecaster.alpha \in Int BY <1>3, WhatRuns
  <2>2. \A s \in Signals : c.smoothed[s] \in Int BY <1>3 DEF Remembered
  <2> DEFINE mix(s) == c.forecaster.alpha * now[s] + (Whole - c.forecaster.alpha) * c.smoothed[s]
  <2>3. Forecast(c) = [s \in Signals |-> mix(s) \div Whole] BY <1>3 DEF Forecast
  <2>4. ASSUME NEW s \in Signals PROVE mix(s) \div Whole \in Int
    <3>1. now[s] \in Int /\ c.smoothed[s] \in Int /\ Whole \in Nat \ {0}
          BY <1>1, <2>2 DEF LoopAssumption
    <3>2. mix(s) \in Int BY <2>1, <3>1
    <3> HIDE DEF mix
    <3> QED BY <3>1, <3>2, DivBounds
  <2> HIDE DEF mix, now
  <2> QED BY <1>3, <2>3, <2>4 DEF now
<1> QED BY <1>2, <1>3

(* A budget declares the transition that the capacity planners restate.    *)
LEMMA BudgetsMayBeResized ==
    ASSUME NEW r, r.kind = "ram"
    PROVE  CapacityAdmission(Declaration(r)) = None
<1>1. /\ Declaration(r).transitions = <<CapacityTransition>>
      /\ Declaration(r).capabilities = {Identity(CapacityTransition)}
      BY DEF Declaration, Identity
<1>2. CapacityTransition \in Range(<<CapacityTransition>>) BY DEF Range
<1> QED BY <1>1, <1>2 DEF CapacityAdmission

Target(c) == NextPlan(c).candidate.magnitude

(* The planner that offers the first transition names no size.             *)
LEMMA FirstChangesNothing ==
    ASSUME NEW c, c.planner.kind = "first", NextPlan(c).kind = "Candidate"
    PROVE  Target(c) = None
<1> DEFINE d == Declaration(c.live.config)
           grounded == SelectSeq(d.transitions, LAMBDA t : Identity(t) \in d.capabilities)
<1>1. NextPlan(c) = ProposeFirst(d) BY DEF NextPlan, Propose
<1>2. ProposeFirst(d) = Offers(grounded[1], None)
  <2>1. ProposeFirst(d) \in {Stopping("Unsupported"), Stopping("InsufficientEvidence"),
                             Offers(grounded[1], None)}
        BY DEF ProposeFirst
  <2> QED BY <1>1, <2>1 DEF Stopping
<1> HIDE DEF d, grounded
<1> QED BY <1>1, <1>2 DEF Target, Offers, Candidate

(* What the regulator proposes is its goal.                                *)
LEMMA HeadroomAims ==
    ASSUME LoopAssumption, NEW c, Shaped(c), Configured(c), Within(c), Remembered(c),
           c.planner.kind = "headroom", NextPlan(c).kind = "Candidate"
    PROVE  /\ Target(c) \in Nat
           /\ c.forecaster.kind = "current" => Target(c) = Goal(c.planner, c.live.config)
<1> DEFINE p == c.planner
           r == c.live.config
           f == Forecast(c)
           gap == f["free"] * Whole - f["total"] * p.headroom
           ceil == CeilDiv(gap, Whole * Grain)
<1>1. /\ r.kind = "ram" /\ r.total \in Nat /\ p.headroom \in Int /\ p.deadband \in Int
      /\ c.live.size \in Nat
      BY WhatRuns DEF Within
<1>2. /\ DOMAIN f = Budget /\ \A s \in Budget : f[s] \in Int
      /\ c.forecaster.kind = "current" => f = LiveContext(c.live)
      BY <1>1, ForecastIsKnown, BudgetContext
<1>3. {"free", "committed", "total"} \subseteq Budget BY DEF Budget
<1>4. f["free"] \in Int /\ f["committed"] \in Int /\ f["total"] \in Int BY <1>2, <1>3
<1>5. Whole \in Nat \ {0} /\ Grain \in Nat \ {0} BY DEF LoopAssumption
<1>6. gap \in Int /\ Whole * Grain \in Nat \ {0} BY <1>1, <1>4, <1>5
<1>7. ceil \in Int BY <1>6, CeilBounds
<1>8. Committed(f) \in Int BY <1>4, <1>5, DivBounds DEF Committed
<1>9. NextPlan(c) = ProposeHeadroom(p, Declaration(r), f) BY DEF NextPlan, Propose
<1>10. NextPlan(c) = Offers(CapacityTransition, AtLeastOne(Committed(f) + ceil))
  <2>1. CapacityAdmission(Declaration(r)) = None BY <1>1, BudgetsMayBeResized
  <2>2. ProposeHeadroom(p, Declaration(r), f) \in
           {Stopping("NoCandidate"), Offers(CapacityTransition, AtLeastOne(Committed(f) + ceil))}
    <3> HIDE DEF f, p, r
    <3> QED BY <1>2, <1>3, <2>1 DEF ProposeHeadroom
  <2> QED BY <1>9, <2>2 DEF Stopping
<1>11. Target(c) = AtLeastOne(Committed(f) + ceil)
  <2> HIDE DEF f, ceil
  <2> QED BY <1>10 DEF Target, Offers, Candidate
<1>12. Target(c) \in Nat
  <2> HIDE DEF f, ceil
  <2> QED BY <1>7, <1>8, <1>11 DEF AtLeastOne
<1>13. ASSUME c.forecaster.kind = "current" PROVE Target(c) = Goal(p, r)
  <2>1. /\ f["free"] = (r.total - c.live.size) * Grain /\ f["committed"] = c.live.size * Grain
        /\ f["total"] = r.total * Grain
        BY <1>1, <1>2, <1>13, BudgetContext
  <2>2. Committed(f) = c.live.size BY <1>1, <2>1, UnscaledIsWhole DEF Committed
  <2>3. gap = ((r.total - c.live.size) * Grain) * Whole - (r.total * Grain) * p.headroom BY <2>1
  <2>4. c.live.size + ceil = r.total + CeilDiv(-(r.total * p.headroom), Whole)
        BY <1>1, <2>3, GapClosesAtTheGoal
  <2> HIDE DEF ceil
  <2> QED BY <1>11, <2>2, <2>4 DEF Goal
<1> QED BY <1>12, <1>13

(* What the threshold planner proposes is no smaller above the upper       *)
(* threshold, and no larger below it.                                      *)
LEMMA ThresholdLeads ==
    ASSUME LoopAssumption, NEW c, Shaped(c), Configured(c), Within(c), Remembered(c),
           c.planner.kind = "threshold", NextPlan(c).kind = "Candidate"
    PROVE  /\ Target(c) \in Int
           /\ c.forecaster.kind = "current" =>
                /\ Above(c.planner, c.live.config, c.live.size) => c.live.size <= Target(c)
                /\ ~Above(c.planner, c.live.config, c.live.size) => Target(c) <= c.live.size
<1> DEFINE p == c.planner
           r == c.live.config
           f == Forecast(c)
           up == StepTarget(p, Committed(f), TRUE)
           down == StepTarget(p, Committed(f), FALSE)
           high == f["utilization"] >= p.high * Grain
<1>1. /\ r.kind = "ram" /\ r.total \in Nat \ {0} /\ p.high \in Int
      /\ p.step \in Int /\ 0 < p.step /\ p.step <= Whole /\ c.live.size \in Nat \ {0}
      BY WhatRuns DEF Within
<1>2. /\ DOMAIN f = Budget /\ \A s \in Budget : f[s] \in Int
      /\ c.forecaster.kind = "current" => f = LiveContext(c.live)
      BY <1>1, ForecastIsKnown, BudgetContext
<1>3. "utilization" \in Budget /\ "committed" \in Budget BY DEF Budget
<1>4. f["utilization"] \in Int /\ f["committed"] \in Int BY <1>2, <1>3
<1>5. Whole \in Nat \ {0} /\ Grain \in Nat \ {0} BY DEF LoopAssumption
<1>6. Committed(f) \in Int BY <1>4, <1>5, DivBounds DEF Committed
<1>7. NextPlan(c) = ProposeThreshold(p, Declaration(r), f) BY DEF NextPlan, Propose
<1>8. NextPlan(c) = Offers(CapacityTransition, IF high THEN up ELSE down)
  <2>1. CapacityAdmission(Declaration(r)) = None BY <1>1, BudgetsMayBeResized
  <2>2. \/ ProposeThreshold(p, Declaration(r), f) = Stopping("NoCandidate")
        \/ ProposeThreshold(p, Declaration(r), f)
              = Offers(CapacityTransition, IF high THEN up ELSE down)
    <3> HIDE DEF f, p, r
    <3> QED BY <1>2, <1>3, <2>1 DEF ProposeThreshold
  <2> HIDE DEF f, high, up, down, p, r
  <2> QED BY <1>7, <2>2 DEF Stopping
<1>9. Target(c) = IF high THEN up ELSE down
  <2> HIDE DEF f, high, up, down
  <2> QED BY <1>8 DEF Target, Offers, Candidate
<1>10. up \in Int /\ down \in Int
  <2> DEFINE n == Committed(f)
             s == p.step
  <2>1. n * (Whole + s) \in Int /\ n * (Whole + (-s)) \in Int
    <3> HIDE DEF f, p
    <3> QED BY <1>1, <1>5, <1>6
  <2>2. CeilDiv(n * (Whole + s), Whole) \in Int /\ CeilDiv(n * (Whole + (-s)), Whole) \in Int
        BY <1>5, <2>1, CeilBounds
  <2>3. /\ up = AtLeastOne(CeilDiv(n * (Whole + s), Whole))
        /\ down = AtLeastOne(CeilDiv(n * (Whole + (-s)), Whole))
        BY DEF StepTarget
  <2> HIDE DEF up, down, n, s
  <2> QED BY <2>2, <2>3 DEF AtLeastOne
<1>11. ASSUME c.forecaster.kind = "current"
       PROVE  /\ Above(p, r, c.live.size) => c.live.size <= Target(c)
              /\ ~Above(p, r, c.live.size) => Target(c) <= c.live.size
  <2>1. /\ f["utilization"] = Share(c.live.size, r.total) * Grain
        /\ f["committed"] = c.live.size * Grain
        BY <1>1, <1>2, <1>11, BudgetContext
  <2>2. Committed(f) = c.live.size BY <1>1, <2>1, UnscaledIsWhole DEF Committed
  <2>3. c.live.size <= up /\ down <= c.live.size
    <3>1. /\ c.live.size <= StepTarget(p, c.live.size, TRUE)
          /\ StepTarget(p, c.live.size, FALSE) <= c.live.size
          BY <1>1, StepsLeadOneWay
    <3> HIDE DEF f, p
    <3> QED BY <2>2, <3>1
  <2>4. high <=> Above(p, r, c.live.size)
    <3> DEFINE u == Share(c.live.size, r.total)
    <3>1. u \in Int BY <1>1, ShareIncreases
    <3>2. f["utilization"] = u * Grain BY <2>1
    <3>3. Above(p, r, c.live.size) <=> u >= p.high BY DEF Above
    <3> HIDE DEF u, f
    <3>4. p.high * Grain <= u * Grain <=> p.high <= u BY <1>1, <1>5, <3>1, ScalingKeepsOrder
    <3>5. u * Grain \in Int /\ p.high * Grain \in Int BY <1>1, <1>5, <3>1
    <3> QED BY <1>1, <3>1, <3>2, <3>3, <3>4, <3>5
  <2> HIDE DEF high, up, down
  <2> QED BY <1>9, <2>3, <2>4
<1>12. Target(c) \in Int
  <2> HIDE DEF up, down, high
  <2> QED BY <1>9, <1>10
<1> QED BY <1>11, <1>12

-----------------------------------------------------------------------------
(* The loop keeps what it was configured with and stays where it settled.  *)

(* What is read depends on the kind of the resource and its signals alone. *)
LEMMA SignalsOfAResource ==
    ASSUME NEW a, NEW b, a.config.kind = b.config.kind
    PROVE  DOMAIN LiveContext(a) = DOMAIN LiveContext(b)
<1>1. CASE a.config.kind = "ram"
  <2>1. \A l : l.config.kind = "ram" =>
          DOMAIN LiveContext(l) = {"free", "utilization", "committed", "total", "min", "max", "inUse"}
        BY DEF LiveContext, Scaled
  <2> QED BY <1>1, <2>1
<1>2. CASE a.config.kind # "ram"
  <2>1. \A l : l.config.kind # "ram" =>
          DOMAIN LiveContext(l) = {"utilization", "capacity", "width", "active"}
        BY DEF LiveContext, Scaled
  <2> QED BY <1>2, <2>1
<1> QED BY <1>1, <1>2

(* A controller that was built starts so.                                  *)
LEMMA StartRuns ==
    ASSUME LoopAssumption, NEW r \in Resources, NEW k \in Controllers, Start(r, k)
    PROVE  Running(running')
<1> DEFINE c == running'
           live == NewResource(r)
<1>1. ResourceAccepted(r) /\ PlannerAccepted(k.planner) /\ Compatible(k, r)
      BY DEF Start, Accepted
<1>2. r.initial \in Nat /\ r.min \in Nat /\ r.max \in Nat /\ r.total \in Nat
      BY DEF LoopAssumption, Amounts
<1>3. live = [refused |-> FALSE, config |-> r, size |-> r.initial, used |-> 0]
      BY <1>1, <1>2 DEF ResourceAccepted, NewResource
<1>4. c = [error |-> "none", live |-> live, planner |-> k.planner, mode |-> k.mode,
           dryRun |-> k.mode # "apply", forecaster |-> k.forecaster, smoothed |-> None,
           last |-> None]
  <2> HIDE DEF live
  <2> QED BY DEF Start, Built, Failed, live
<1> HIDE DEF c, live
<1>5. Shaped(c) BY <1>3, <1>4 DEF Shaped
<1>6. Configured(c) BY <1>1, <1>3, <1>4 DEF Configured, Compatible
<1>7. Within(c) BY <1>1, <1>2, <1>3, <1>4 DEF Within, ResourceAccepted
<1>8. Remembered(c) /\ Settled(c) BY <1>4 DEF Remembered, Settled
<1> QED BY <1>5, <1>6, <1>7, <1>8 DEF Running, c

(* Using the resource changes nothing else.                                *)
LEMMA UseRuns ==
    ASSUME LoopAssumption, NEW c, Running(c), NEW n \in Nat, n <= c.live.size
    PROVE  Running([c EXCEPT !.live.used = n])
<1> DEFINE d == [c EXCEPT !.live.used = n]
<1>1. /\ Shaped(c) /\ DOMAIN c.live = {"refused", "config", "size", "used"}
      /\ DOMAIN c = {"error", "live", "planner", "mode", "dryRun", "forecaster", "smoothed", "last"}
      BY DEF Running, Shaped
<1>2. /\ d.live.refused = FALSE /\ d.live.config = c.live.config /\ d.live.size = c.live.size
      /\ d.live.used = n
      /\ d.live = [refused |-> d.live.refused, config |-> d.live.config, size |-> d.live.size,
                   used |-> d.live.used]
  <2>1. d.live = [c.live EXCEPT !.used = n] BY <1>1
  <2> HIDE DEF d
  <2> QED BY <1>1, <2>1 DEF Shaped
<1>9. /\ d.error = "none" /\ d.planner = c.planner /\ d.forecaster = c.forecaster
      /\ d.smoothed = c.smoothed /\ d.last = c.last
      /\ d = [error |-> d.error, live |-> d.live, planner |-> d.planner, mode |-> d.mode,
              dryRun |-> d.dryRun, forecaster |-> d.forecaster, smoothed |-> d.smoothed,
              last |-> d.last]
  <2>1. d = [c EXCEPT !.live = d.live] BY <1>1
  <2> HIDE DEF d
  <2> QED BY <1>1, <2>1 DEF Shaped
<1> HIDE DEF d
<1>3. DOMAIN LiveContext(d.live) = DOMAIN LiveContext(c.live) BY <1>2, SignalsOfAResource
<1>4. Shaped(d) BY <1>2, <1>9 DEF Shaped
<1>5. Configured(d) BY <1>2, <1>9 DEF Running, Configured
<1>6. Within(d) BY <1>2, <1>9 DEF Running, Within
<1>7. Remembered(d) BY <1>2, <1>3, <1>9 DEF Running, Remembered
<1>8. Settled(d) BY <1>2, <1>9 DEF Running, Settled
<1> QED BY <1>4, <1>5, <1>6, <1>7, <1>8 DEF Running, d

(* The memory of the forecaster is of numbers.                             *)
LEMMA RememberRuns ==
    ASSUME LoopAssumption, NEW c, Running(c), NEW m,
           m # None => \A s \in DOMAIN LiveContext(c.live) : m[s] \in Int
    PROVE  LET d == [c EXCEPT !.smoothed = m]
           IN /\ Running(d) /\ d.live = c.live /\ d.planner = c.planner /\ d.forecaster = c.forecaster
              /\ d.smoothed = m
<1> DEFINE d == [c EXCEPT !.smoothed = m]
<1>1. Shaped(c) BY DEF Running
<1>2. /\ d.error = "none" /\ d.live = c.live /\ d.planner = c.planner
      /\ d.forecaster = c.forecaster /\ d.smoothed = m /\ d.last = c.last
      /\ d = [error |-> d.error, live |-> d.live, planner |-> d.planner, mode |-> d.mode,
              dryRun |-> d.dryRun, forecaster |-> d.forecaster, smoothed |-> d.smoothed,
              last |-> d.last]
      BY <1>1 DEF Shaped
<1> HIDE DEF d
<1>3. Shaped(d) BY <1>1, <1>2 DEF Shaped
<1>4. Configured(d) BY <1>2 DEF Running, Configured
<1>5. Within(d) BY <1>2 DEF Running, Within
<1>6. Remembered(d) BY <1>2 DEF Running, Remembered
<1>7. Settled(d) BY <1>2 DEF Running, Settled
<1> QED BY <1>2, <1>3, <1>4, <1>5, <1>6, <1>7 DEF Running, d

(* A target is admitted within the bounds of a budget.                     *)
LEMMA AdmittedTarget ==
    ASSUME LoopAssumption, NEW c, Running(c), NextPlan(c).kind = "Candidate", Target(c) # None,
           ResizeAdmitted(c.live, Target(c))
    PROVE  LET r == c.live.config
           IN /\ c.planner.kind # "first"
              /\ r.kind = "ram" /\ r.total \in Nat \ {0} /\ Target(c) \in Nat \ {0}
              /\ r.min <= Target(c) /\ Target(c) <= r.max /\ c.live.used <= Target(c)
<1>1. Shaped(c) /\ Configured(c) /\ Within(c) /\ Remembered(c) BY DEF Running
<1>2. c.planner.kind # "first" BY FirstChangesNothing
<1>3. /\ c.live.config.kind = "ram" /\ c.planner.kind \in {"headroom", "threshold"}
      /\ c.live.config.min \in Nat /\ c.live.config.max \in Nat
      /\ c.live.config.total \in Nat \ {0}
      BY <1>1, <1>2, WhatRuns
<1>4. Target(c) \in Int BY <1>1, <1>3, HeadroomAims, ThresholdLeads
<1>5. c.live.used \in Nat /\ 0 < c.live.config.min
      BY <1>1, <1>3 DEF Within, Configured, ResourceAccepted
<1> QED BY <1>2, <1>3, <1>4, <1>5 DEF ResizeAdmitted

(* A resize settles: the regulator is at its goal, and a step leaves the   *)
(* share of the budget on the side of the threshold that it came from.     *)
LEMMA ResizeSettles ==
    ASSUME LoopAssumption, NEW c, Running(c), NextPlan(c).kind = "Candidate", Target(c) # None,
           ResizeAdmitted(c.live, Target(c)), c.forecaster.kind = "current"
    PROVE  /\ c.planner.kind = "headroom" => Target(c) = Goal(c.planner, c.live.config)
           /\ c.planner.kind = "threshold" =>
                /\ Target(c) > c.live.size => Above(c.planner, c.live.config, Target(c))
                /\ Target(c) < c.live.size => ~Above(c.planner, c.live.config, Target(c))
<1> DEFINE r == c.live.config
           t == Target(c)
           was == Share(c.live.size, r.total)
           is == Share(t, r.total)
<1>1. Shaped(c) /\ Configured(c) /\ Within(c) /\ Remembered(c) BY DEF Running
<1>2. r.total \in Nat \ {0} /\ t \in Int /\ c.live.size \in Int
      BY <1>1, AdmittedTarget DEF Within
<1>3. CASE c.planner.kind = "headroom" BY <1>1, <1>3, HeadroomAims
<1>4. CASE c.planner.kind = "threshold"
  <2>1. /\ Above(c.planner, r, c.live.size) => c.live.size <= t
        /\ ~Above(c.planner, r, c.live.size) => t <= c.live.size
        BY <1>1, <1>4, ThresholdLeads
  <2>2. /\ was \in Int /\ is \in Int
        /\ c.live.size <= t => was <= is
        /\ t <= c.live.size => is <= was
        BY <1>2, ShareIncreases
  <2>3. c.planner.high \in Int BY <1>1, <1>4, WhatRuns
  <2>4. /\ Above(c.planner, r, c.live.size) <=> was >= c.planner.high
        /\ Above(c.planner, r, t) <=> is >= c.planner.high
        BY DEF Above
  <2> HIDE DEF was, is, t, r
  <2>5. t > c.live.size => Above(c.planner, r, t) BY <1>2, <2>1, <2>2, <2>3, <2>4
  <2>6. t < c.live.size => ~Above(c.planner, r, t) BY <1>2, <2>1, <2>2, <2>3, <2>4
  <2> QED BY <1>4, <2>5, <2>6 DEF t, r
<1> QED BY <1>3, <1>4

(* A change that was carried out leaves a controller that runs.            *)
LEMMA ResizeRuns ==
    ASSUME LoopAssumption, NEW c, Running(c), NextPlan(c).kind = "Candidate", Target(c) # None,
           ResizeAdmitted(c.live, Target(c)),
           NEW d, Running(d), d.live = c.live, d.planner = c.planner, d.forecaster = c.forecaster
    PROVE  Running([d EXCEPT !.live.size = Target(c),
                             !.last = [from |-> c.live.size, to |-> Target(c)]])
<1> DEFINE t == Target(c)
           last == [from |-> c.live.size, to |-> t]
           e == [d EXCEPT !.live.size = t, !.last = last]
           r == c.live.config
<1>1. /\ Shaped(d) /\ DOMAIN d.live = {"refused", "config", "size", "used"}
      /\ DOMAIN d = {"error", "live", "planner", "mode", "dryRun", "forecaster", "smoothed", "last"}
      BY DEF Running, Shaped
<1>2. /\ e.live.refused = FALSE /\ e.live.config = r /\ e.live.size = t
      /\ e.live.used = c.live.used
      /\ e.live = [refused |-> e.live.refused, config |-> e.live.config, size |-> e.live.size,
                   used |-> e.live.used]
  <2>1. e.live = [d.live EXCEPT !.size = t] BY <1>1
  <2> HIDE DEF e, t
  <2> QED BY <1>1, <2>1 DEF Shaped
<1>3. /\ e.error = "none" /\ e.planner = c.planner /\ e.forecaster = c.forecaster
      /\ e.smoothed = d.smoothed /\ e.last = last
      /\ e = [error |-> e.error, live |-> e.live, planner |-> e.planner, mode |-> e.mode,
              dryRun |-> e.dryRun, forecaster |-> e.forecaster, smoothed |-> e.smoothed,
              last |-> e.last]
  <2> DEFINE g == [d EXCEPT !.live = e.live]
  <2>1. e = [g EXCEPT !.last = last] BY <1>1
  <2> HIDE DEF e, t, last
  <2>2. /\ g.error = "none" /\ g.live = e.live /\ g.planner = d.planner /\ g.forecaster = d.forecaster
        /\ g.smoothed = d.smoothed /\ g.last = d.last
        /\ g = [error |-> g.error, live |-> g.live, planner |-> g.planner, mode |-> g.mode,
                dryRun |-> g.dryRun, forecaster |-> g.forecaster, smoothed |-> g.smoothed,
                last |-> g.last]
        BY <1>1 DEF Shaped
  <2> HIDE DEF g
  <2> QED BY <2>1, <2>2
<1>4. last.from = c.live.size /\ last.to = t OBVIOUS
<1>5. /\ c.planner.kind # "first"
      /\ r.kind = "ram" /\ t \in Nat \ {0} /\ r.min <= t /\ t <= r.max /\ c.live.used <= t
      BY AdmittedTarget
<1>6. c.forecaster.kind = "current" =>
        /\ c.planner.kind = "headroom" => t = Goal(c.planner, r)
        /\ c.planner.kind = "threshold" =>
             /\ t > c.live.size => Above(c.planner, r, t)
             /\ t < c.live.size => ~Above(c.planner, r, t)
      BY ResizeSettles
<1> HIDE DEF e, t, last
<1>7. DOMAIN LiveContext(e.live) = DOMAIN LiveContext(d.live) BY <1>2, SignalsOfAResource
<1>8. Shaped(e) BY <1>2, <1>3 DEF Shaped
<1>9. Configured(e) BY <1>2, <1>3 DEF Running, Configured
<1>10. Within(e) BY <1>2, <1>3, <1>5 DEF Running, Within
<1>11. Remembered(e) BY <1>3, <1>7 DEF Running, Remembered
<1>12. Settled(e)
  <2>1. c.live.size \in Nat BY DEF Running, Within
  <2> QED BY <1>2, <1>3, <1>4, <1>5, <1>6, <2>1 DEF Settled
<1> QED BY <1>8, <1>9, <1>10, <1>11, <1>12 DEF Running, e, last, t

(* A cycle, applied or not, leaves a controller that runs.                 *)
LEMMA CycleRuns ==
    ASSUME LoopAssumption, running # None, Running(running), RunCycle
    PROVE  Running(running')
<1> DEFINE c == running
           m == IF c.forecaster.kind = "ewma" THEN Forecast(c) ELSE None
           seen == [c EXCEPT !.smoothed = m]
           applied == /\ NextPlan(c).kind = "Candidate" /\ ~c.dryRun /\ Target(c) # None
                      /\ ResizeAdmitted(c.live, Target(c))
<1>1. running' = IF ~applied THEN seen
                 ELSE [seen EXCEPT !.live.size = Target(c),
                                   !.last = [from |-> c.live.size, to |-> Target(c)]]
      BY DEF RunCycle, Target
<1>2. m # None => \A s \in DOMAIN LiveContext(c.live) : m[s] \in Int
      BY ForecastIsKnown DEF Running
<1>3. /\ Running(seen) /\ seen.live = c.live /\ seen.planner = c.planner
      /\ seen.forecaster = c.forecaster
  <2> HIDE DEF m
  <2> QED BY <1>2, RememberRuns
<1> HIDE DEF seen, m
<1>4. CASE ~applied BY <1>1, <1>3, <1>4
<1>5. CASE applied
  <2>1. running' = [seen EXCEPT !.live.size = Target(c),
                                !.last = [from |-> c.live.size, to |-> Target(c)]]
        BY <1>1, <1>5
  <2> QED BY <1>3, <1>5, <2>1, ResizeRuns
<1> QED BY <1>4, <1>5

(* What runs is shaped as it was built, stays within what was configured   *)
(* and is settled, whatever is configured and however long it runs.        *)
LEMMA LoopIsKept == LoopSpec => []LoopKept
<1>1. LoopInit => LoopKept BY DEF LoopInit, LoopKept
<1>2. LoopKept /\ [LoopNext]_running => LoopKept'
  <2>1. SUFFICES ASSUME LoopKept, LoopNext, running' # None PROVE Running(running')
        BY DEF LoopKept
  <2>2. ASSUME NEW r \in Resources, NEW k \in Controllers, Start(r, k) PROVE Running(running')
        BY <2>2, LoopAssumption, StartRuns
  <2>3. CASE RunCycle BY <2>1, <2>3, LoopAssumption, CycleRuns DEF LoopKept, RunCycle
  <2>4. CASE TakeOne
    <3> DEFINE n == running.live.used + 1
    <3>1. Running(running) /\ running' = [running EXCEPT !.live.used = n]
          BY <2>1, <2>4 DEF LoopKept, TakeOne
    <3>2. n \in Nat /\ n <= running.live.size
          BY <2>4, <3>1 DEF Running, Within, TakeOne
    <3> HIDE DEF n
    <3> QED BY <3>1, <3>2, LoopAssumption, UseRuns
  <2>5. CASE GiveOneBack
    <3> DEFINE n == running.live.used - 1
    <3>1. Running(running) /\ running' = [running EXCEPT !.live.used = n]
          BY <2>1, <2>5 DEF LoopKept, GiveOneBack
    <3>2. n \in Nat /\ n <= running.live.size
          BY <2>5, <3>1 DEF Running, Within, GiveOneBack
    <3> HIDE DEF n
    <3> QED BY <3>1, <3>2, LoopAssumption, UseRuns
  <2> QED BY <2>1, <2>2, <2>3, <2>4, <2>5 DEF LoopNext
<1> QED BY <1>1, <1>2, PTL DEF LoopSpec

(* A configured loop keeps its resource within the configured bounds and   *)
(* does not turn round: what configured_controller.rs builds of the        *)
(* planners, with the adapter that carries their proposals out.            *)
THEOREM LoopsSettle == LoopSpec => []LoopSettles
<1>1. LoopKept => LoopSettles
  <2> DEFINE c == running
  <2>1. SUFFICES ASSUME LoopKept, running # None
                 PROVE  LoopSettles
        BY DEF LoopSettles
  <2>2. Running(c) /\ Shaped(c) /\ Configured(c) /\ Within(c) /\ Remembered(c) /\ Settled(c)
        BY <2>1 DEF LoopKept, Running
  <2>3. /\ c.live.config.kind = "ram" =>
             c.live.config.min <= c.live.size /\ c.live.size <= c.live.config.max
        /\ c.live.used <= c.live.size
        BY <2>2 DEF Within
  <2>4. ASSUME c.last # None, NextPlan(c).kind = "Candidate", c.forecaster.kind = "current"
        PROVE  /\ c.last.to > c.last.from => Target(c) >= c.last.to
               /\ c.last.to < c.last.from => Target(c) <= c.last.to
               /\ c.planner.kind = "headroom" => Target(c) = c.last.to
    <3>1. c.live.config.kind = "ram" /\ c.last.from \in Nat /\ c.last.to = c.live.size
          BY <2>2, <2>4 DEF Settled
    <3>2. c.live.size \in Nat BY <2>2 DEF Within
    <3>3. /\ c.planner.kind = "headroom" => c.last.to = Goal(c.planner, c.live.config)
          /\ c.planner.kind = "threshold" =>
               /\ c.last.to > c.last.from => Above(c.planner, c.live.config, c.live.size)
               /\ c.last.to < c.last.from => ~Above(c.planner, c.live.config, c.live.size)
          BY <2>2, <2>4, <3>1 DEF Settled
    <3>4. CASE c.planner.kind = "headroom"
      <4>1. Target(c) = c.last.to BY <2>2, <2>4, <3>3, <3>4, LoopAssumption, HeadroomAims
      <4> QED BY <3>1, <3>2, <4>1
    <3>5. CASE c.planner.kind = "threshold"
      <4>1. /\ Target(c) \in Int
            /\ Above(c.planner, c.live.config, c.live.size) => c.live.size <= Target(c)
            /\ ~Above(c.planner, c.live.config, c.live.size) => Target(c) <= c.live.size
            BY <2>2, <2>4, <3>5, LoopAssumption, ThresholdLeads
      <4> QED BY <3>1, <3>2, <3>3, <3>5, <4>1
    <3>6. c.planner.kind \in {"headroom", "threshold"}
      <4>1. c.planner.kind \in {"first", "headroom", "threshold"} BY <2>2, LoopAssumption, WhatRuns
      <4>2. c.planner.kind # "first" BY <2>2, <2>4 DEF Settled
      <4> QED BY <4>1, <4>2
    <3> QED BY <3>4, <3>5, <3>6
  <2> QED BY <2>3, <2>4 DEF LoopSettles, Target
<1> QED BY <1>1, LoopIsKept, PTL
=============================================================================

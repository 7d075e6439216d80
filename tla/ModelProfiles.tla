---------------------------- MODULE ModelProfiles ----------------------------
(***************************************************************************)
(* The contracts of adaptive model execution (elastic-adapters,            *)
(* model_execution*.rs, and the contracts of elastic-runtime): what a      *)
(* provider can execute, the profiles it publishes, the rules that bound   *)
(* them by the resources that are free, and the plan chosen from them.     *)
(* Each part is persisted on its own, names the parts it was made for by   *)
(* their digests, and is checked again when it is read back.               *)
(*                                                                         *)
(* A name is a number, 0 when it is blank and negative when it is padded.  *)
(* A document's `known' says whether its contract is the expected one.     *)
(*   capabilities  [provider, revision, total, experts, widths, budgets]   *)
(*   profile       [id, rank, experts, width, budget]                      *)
(*   rule          [id, rank, free, utilization, envelope]                 *)
(***************************************************************************)
EXTENDS ResourceGroup, Integers

CONSTANTS
    FullBps,           \* MODEL_EXECUTION_BASIS_POINTS_FULL
    MaxProfiles,       \* MAX_REGISTERED_PREDICATES
    MaxExactCapacity,  \* MAX_EXACT_F64_INTEGER
    MaxContractSize,   \* MAX_MODEL_EXECUTION_CONTROLLER_CONTRACTS_BYTES
    CapabilityDraft,   \* capabilities a provider may write
    ProfileDraft,      \* lists of profiles, and
    RuleDraft,         \* lists of rules, in any order
    Snapshot,          \* the resources a selection may be asked for
    Observed,          \* what a planner may observe, in halves
    CurrentRank,       \* the ranks a caller may name
    MaxWrites          \* bound: documents written

ASSUME ProfileAssumption ==
    {FullBps, MaxProfiles, MaxExactCapacity, MaxContractSize, MaxWrites} \subseteq Nat

Trim(name) == IF name < 0 THEN -name ELSE name
First(s, Test(_)) == SelectSeq(s, Test)[1]
Some(s, Test(_)) == \E i \in DOMAIN s : Test(s[i])

(* Two entries of a table may not share their name or their rank.          *)
Clash(s) == \E i, j \in DOMAIN s : i # j /\
    (Trim(s[i].id) = Trim(s[j].id) \/ s[i].rank = s[j].rank)

ByRank(s) == SortSeq(s, LAMBDA a, b : a.rank < b.rank \/ (a.rank = b.rank /\ a.id < b.id))

-----------------------------------------------------------------------------
(* Capabilities.                                                           *)

BadLevels(values, top) ==
    values = <<>> \/ Repeats(values) \/ ~(Elements(values) \subseteq 1 .. top)

CapabilitiesError(d) == FirstFailure(<<
    <<~d.known, "UnsupportedCapabilitiesContract">>,
    <<Trim(d.provider) = 0, "BlankProviderId">>,
    <<Trim(d.revision) = 0, "BlankModelRevision">>,
    <<d.total = 0, "ZeroTotalExperts">>,
    <<BadLevels(d.experts, d.total), "ActiveExpertCounts">>,
    <<BadLevels(d.widths, FullBps), "ExpertWidth">>,
    <<BadLevels(d.budgets, FullBps), "ActivationBudget">> >>)

Capabilities(d) ==
    IF CapabilitiesError(d) # "none" THEN Err(CapabilitiesError(d))
    ELSE [provider |-> Trim(d.provider), revision |-> Trim(d.revision), total |-> d.total,
          experts |-> Sorted(d.experts), widths |-> Sorted(d.widths),
          budgets |-> Sorted(d.budgets)]

(* The levels are absorbed one after the other, without their numbers: the *)
(* digest does not tell where one axis ends.                               *)
Digest(c) ==
    <<c.provider, c.revision, c.total>> \o c.experts \o c.widths \o c.budgets

TargetError(c, p) == FirstFailure(<<
    <<p.experts \notin Elements(c.experts), "UnsupportedActiveExpertCount">>,
    <<p.width \notin Elements(c.widths), "UnsupportedExpertWidthBps">>,
    <<p.budget \notin Elements(c.budgets), "UnsupportedActivationBudgetBps">> >>)

Target(c, p) ==
    IF TargetError(c, p) # "none" THEN Err(TargetError(c, p))
    ELSE [provider |-> c.provider, revision |-> c.revision, digest |-> Digest(c),
          experts |-> p.experts, width |-> p.width, budget |-> p.budget]

(* The identity a document names, against the capabilities it is read for. *)
IdentityError(d, c) == FirstFailure(<<
    <<d.provider # c.provider, "ProviderMismatch">>,
    <<d.revision # c.revision, "ModelRevisionMismatch">>,
    <<d.digest # Digest(c), "CapabilityFingerprintMismatch">> >>)

TargetDocument(t) == t @@ [known |-> TRUE]
TargetFrom(d, c) ==
    IF ~d.known THEN Err("UnsupportedResourcePlanContract")
    ELSE IF IdentityError(d, c) # "none" THEN Err(IdentityError(d, c)) ELSE Target(c, d)

-----------------------------------------------------------------------------
(* Profiles that belong together.                                          *)

SameTuple(p, q) == p.experts = q.experts /\ p.width = q.width /\ p.budget = q.budget

ProfileSetError(c, profiles) == FirstFailure(<<
    <<\E p \in Elements(profiles) : Trim(p.id) = 0, "BlankProfileId">>,
    <<profiles = <<>>, "EmptyProfiles">>,
    <<\E p \in Elements(profiles) : TargetError(c, p) # "none", "InvalidProfileTarget">>,
    <<\/ Clash(profiles)
      \/ \E i, j \in DOMAIN profiles : i # j /\ SameTuple(profiles[i], profiles[j]),
         "DuplicateProfile">> >>)

Trimmed(s) == [i \in DOMAIN s |-> [s[i] EXCEPT !.id = Trim(@)]]

ProfileSet(c, profiles) ==
    IF ProfileSetError(c, profiles) # "none" THEN Err(ProfileSetError(c, profiles))
    ELSE [capabilities |-> c,
          profiles |-> ByRank(Trimmed(profiles))]

SetDigest(s) ==
    <<s.capabilities.provider, s.capabilities.revision, Digest(s.capabilities), s.profiles>>

SetDocument(s) ==
    [known |-> TRUE, provider |-> s.capabilities.provider,
     revision |-> s.capabilities.revision, digest |-> Digest(s.capabilities),
     profiles |-> s.profiles]

SetFrom(d, c) ==
    IF ~d.known THEN Err("UnsupportedProfileSetContract")
    ELSE IF IdentityError(d, c) # "none" THEN Err(IdentityError(d, c))
    ELSE ProfileSet(c, d.profiles)

(* What names a profile set: the capabilities it is for, then its digest.  *)
SetIdentityError(d, s) ==
    IF IdentityError(d, s.capabilities) # "none" THEN IdentityError(d, s.capabilities)
    ELSE IF d.set # SetDigest(s) THEN "ProfileSetFingerprintMismatch" ELSE "none"

-----------------------------------------------------------------------------
(* The plan for one of them.                                               *)

PlanFor(s, p) ==
    LET t == Target(s.capabilities, p)
    IN  IF IsErr(t) THEN t
        ELSE [set |-> SetDigest(s), id |-> p.id, rank |-> p.rank, target |-> t]

(* Persisted, a plan only names its profile.                               *)
PlanDocument(plan) ==
    [known |-> TRUE, provider |-> plan.target.provider, revision |-> plan.target.revision,
     digest |-> plan.target.digest, set |-> plan.set, id |-> plan.id]

PlanFromAnySet(d, s) ==         \* mutant: the profile set is not compared
    IF IdentityError(d, s.capabilities) # "none" THEN Err(IdentityError(d, s.capabilities))
    ELSE IF ~Some(s.profiles, LAMBDA p : p.id = d.id) THEN Err("UnknownProfileId")
    ELSE PlanFor(s, First(s.profiles, LAMBDA p : p.id = d.id))

PlanFrom(d, s) ==
    IF ~d.known THEN Err("UnsupportedProfilePlanContract")
    ELSE IF SetIdentityError(d, s) # "none" THEN Err(SetIdentityError(d, s))
    ELSE IF ~Some(s.profiles, LAMBDA p : p.id = d.id) THEN Err("UnknownProfileId")
    ELSE PlanFor(s, First(s.profiles, LAMBDA p : p.id = d.id))

(* The policy bound to a set: one predicate per rank, exactly one of them  *)
(* true.                                                                   *)
Binding(s, target) ==
    CASE target[1] # "resource" -> Err("TargetKindMismatch")
      [] Len(s.profiles) > MaxProfiles -> Err("TooManyProfiles")
      [] OTHER -> [profiles |-> s, entries |-> s.profiles,
                   constraint |-> P!Exactly([i \in DOMAIN s.profiles |-> s.profiles[i].rank], 1)]

(* A plan is bound by reading back its own document.                       *)
BoundRank(binding, plan) ==
    LET replayed == PlanFrom(PlanDocument(plan), binding.profiles)
    IN  IF IsErr(replayed) THEN replayed
        ELSE IF replayed # plan THEN Err("PlanDrift")
        ELSE [rank |-> First(binding.entries, LAMBDA p : p.id = plan.id).rank]

-----------------------------------------------------------------------------
(* Rules: the resources that are free bound the profiles.                  *)

Allows(envelope, p) ==
    p.experts <= envelope.experts /\ p.width <= envelope.width /\ p.budget <= envelope.budget

EnvelopeError(e) == e.experts = 0 \/ e.width \notin 1 .. FullBps \/ e.budget \notin 1 .. FullBps

RuleError(r) == FirstFailure(<<
    <<EnvelopeError(r.envelope), "InvalidEnvelope">>,
    <<Trim(r.id) = 0, "BlankRuleId">>,
    <<r.utilization > FullBps, "InvalidUtilizationBps">> >>)

(* Every rule has to leave a profile of the set it is made for.            *)
EnvelopePolicyError(s, unit, rules) == FirstFailure(<<
    <<\E r \in Elements(rules) : RuleError(r) # "none", "Rule">>,
    <<Trim(unit) = 0, "BlankCapacityUnit">>,
    <<rules = <<>>, "EmptyRules">>,
    <<Clash(rules), "DuplicateRule">>,
    <<\E r \in Elements(rules) : \A p \in Elements(s.profiles) : ~Allows(r.envelope, p),
         "RuleHasNoFeasibleProfile">> >>)

RulesInCallOrder(s, unit, rules) ==   \* mutant: the rules are not sorted
    IF EnvelopePolicyError(s, unit, rules) # "none" THEN Err(EnvelopePolicyError(s, unit, rules))
    ELSE [provider |-> s.capabilities.provider, revision |-> s.capabilities.revision,
          digest |-> Digest(s.capabilities), set |-> SetDigest(s), unit |-> Trim(unit),
          rules |-> Trimmed(rules)]

EnvelopePolicy(s, unit, rules) ==
    IF EnvelopePolicyError(s, unit, rules) # "none" THEN Err(EnvelopePolicyError(s, unit, rules))
    ELSE [provider |-> s.capabilities.provider, revision |-> s.capabilities.revision,
          digest |-> Digest(s.capabilities), set |-> SetDigest(s), unit |-> Trim(unit),
          rules |-> ByRank(Trimmed(rules))]

PolicyDocument(policy) == policy @@ [known |-> TRUE]

PolicyFrom(d, s) ==
    IF ~d.known THEN Err("UnsupportedPolicyContract")
    ELSE IF SetIdentityError(d, s) # "none" THEN Err(SetIdentityError(d, s))
    ELSE EnvelopePolicy(s, d.unit, d.rules)

SnapshotError(x) == FirstFailure(<<
    <<Trim(x.unit) = 0, "BlankCapacityUnit">>,
    <<x.utilization > FullBps, "InvalidUtilizationBps">> >>)

Matches(r, x) == x.free >= r.free /\ x.utilization <= r.utilization

SelectProfile(s, envelope) ==
    IF ~Some(s.profiles, LAMBDA p : Allows(envelope, p)) THEN Err("NoFeasibleProfile")
    ELSE PlanFor(s, First(s.profiles, LAMBDA p : Allows(envelope, p)))

(* The first rule that matches decides, whatever a later one would allow.  *)
SelectOnHardware(policy, s, x) ==
    CASE SetIdentityError(policy, s) # "none" -> Err(SetIdentityError(policy, s))
      [] x.unit # policy.unit -> Err("CapacityUnitMismatch")
      [] ~Some(policy.rules, LAMBDA r : Matches(r, x)) -> Err("NoMatchingRule")
      [] OTHER -> SelectProfile(s, First(policy.rules, LAMBDA r : Matches(r, x)).envelope)

-----------------------------------------------------------------------------
(* The resource whose one dimension is the profile, and its planners.      *)

ProfileDimension == 1
Reinterpret == 1

(* The labels name the contract (1), then provider, revision, capabilities *)
(* and profile set.                                                        *)
AtomicSpec(s) ==
    BuildSpec(1, [Empty EXCEPT
        !.dimensions = <<ProfileDimension>>, !.invariants = <<<<1, 0>>, <<2, 0>>>>,
        !.transitions = <<<<Reinterpret, ProfileDimension>>>>,
        !.capabilities = <<<<Reinterpret, ProfileDimension>>>>,
        !.observations = <<3, 1, 2>>,
        !.labels = <<<<1, "atomic-profile">>, <<2, s.capabilities.provider>>,
                     <<3, s.capabilities.revision>>, <<4, Digest(s.capabilities)>>,
                     <<5, SetDigest(s)>>>>])

AtomicResource(s) ==
    LET spec == AtomicSpec(s) IN IF IsErr(spec) THEN spec ELSE FromParts(spec.id, spec.parts)

ResourceMatches(plan, resource) ==
    LET label(k) == resource.parts.labels[k]
    IN  /\ label(1) = "atomic-profile" /\ label(2) = plan.target.provider
        /\ label(3) = plan.target.revision /\ label(4) = plan.target.digest
        /\ label(5) = plan.set

Unobserved == -1

(* ModelExecutionAtomicProfilePlannerV1.                                   *)
ProposeAtomic(plan, resource, current) ==
    LET admitted == <<Reinterpret, ProfileDimension>>
    IN  CASE ~ResourceMatches(plan, resource) -> Err("InsufficientEvidence")
          [] current = Unobserved -> Err("InsufficientEvidence")
          [] current = plan.rank -> Err("NoCandidate")
          [] admitted \notin Elements(resource.parts.transitions) -> Err("Unsupported")
          [] admitted \notin resource.grounded -> Err("InsufficientEvidence")
          [] OTHER -> [magnitude |-> plan.rank]

(* Observations are floats, given here in halves: of a unit of capacity,   *)
(* of a basis point.  Capacity has to be exact, utilization is rounded.    *)
CapacityOf(halves) ==
    IF halves < 0 \/ halves % 2 = 1 \/ halves > 2 * MaxExactCapacity THEN Unobserved ELSE halves \div 2
UtilizationOf(halves) ==
    IF halves \notin 0 .. 2 * FullBps THEN Unobserved ELSE (halves + 1) \div 2

(* ModelExecutionAdaptivePlannerV1.                                        *)
Propose(policy, s, resource, observed) ==
    LET free == CapacityOf(observed.free)
        utilization == UtilizationOf(observed.utilization)
        chosen == SelectOnHardware(policy, s, [unit |-> policy.unit, free |-> free,
                                               utilization |-> utilization])
    IN  CASE Unobserved \in {free, utilization} -> Err("InsufficientEvidence")
          [] ~IsErr(chosen) -> ProposeAtomic(chosen, resource, observed.rank)
          [] chosen.error = "NoMatchingRule" -> Err("NoCandidate")
          [] OTHER -> Err("InsufficientEvidence")

-----------------------------------------------------------------------------
(* The contracts of a controller: both parts, read together.               *)

ContractsOf(capabilities, profiles, policy) ==
    LET c == Capabilities(capabilities)
        s == SetFrom(profiles, c)
        p == PolicyFrom(policy, s)
    IN  IF IsErr(c) THEN c ELSE IF IsErr(s) THEN s ELSE IF IsErr(p) THEN p
        ELSE [profiles |-> s, policy |-> p]

CapabilitiesDocument(c) == c @@ [known |-> TRUE]

(* What a document takes in bytes, as far as it varies: an entry is one.   *)
CapabilitiesSize(d) == Len(d.experts) + Len(d.widths) + Len(d.budgets)
SizeOf(b) == CapabilitiesSize(b.capabilities) + Len(b.profiles.profiles) + Len(b.policy.rules)

Bundle(contracts) ==
    [known |-> TRUE, capabilities |-> CapabilitiesDocument(contracts.profiles.capabilities),
     profiles |-> SetDocument(contracts.profiles), policy |-> PolicyDocument(contracts.policy)]

BundleFrom(b) ==
    IF ~b.known THEN Err("unsupported controller contract")
    ELSE ContractsOf(b.capabilities, b.profiles, b.policy)

-----------------------------------------------------------------------------
(* The documents of one provider and a controller that reads them.  They   *)
(* are written one at a time, by hand or from what was validated, and read *)
(* whenever the controller starts.                                         *)

VARIABLES
    files,    \* the documents
    loaded,   \* the contracts the controller holds
    chosen,   \* ghost: the plan whose document is in the files
    answer,   \* what the last selection or replay returned
    writes    \* documents written

profileVars == <<files, loaded, chosen, answer, writes>>

Absent == Err("absent")
Here(d) == ~IsErr(d)

ProfileInit ==
    /\ files = [f \in {"capabilities", "profiles", "policy", "bundle", "plan"} |-> Absent]
    /\ loaded = Absent /\ chosen = Absent
    /\ answer = [to |-> "nothing"]
    /\ writes = 0

Write(f, d) ==
    /\ writes < MaxWrites /\ writes' = writes + 1
    /\ files' = [files EXCEPT ![f] = d]
    /\ UNCHANGED <<loaded, chosen, answer>>

WriteCapabilities == \E d \in CapabilityDraft : Write("capabilities", d)

(* A set is built for the capabilities as they are, or edited by hand.     *)
WriteProfiles == \E ps \in ProfileDraft :
    \/ /\ Here(files.capabilities) /\ ~IsErr(Capabilities(files.capabilities))
       /\ LET s == ProfileSet(Capabilities(files.capabilities), ps)
          IN  ~IsErr(s) /\ Write("profiles", SetDocument(s))
    \/ Here(files.profiles) /\ Write("profiles", [files.profiles EXCEPT !.profiles = ps])

CurrentSet ==
    IF ~Here(files.capabilities) \/ ~Here(files.profiles) THEN Absent
    ELSE LET c == Capabilities(files.capabilities)
         IN  IF IsErr(c) THEN c ELSE SetFrom(files.profiles, c)

WritePolicy == \E rules \in RuleDraft :
    /\ ~IsErr(CurrentSet) /\ ~IsErr(EnvelopePolicy(CurrentSet, 1, rules))
    /\ Write("policy", PolicyDocument(EnvelopePolicy(CurrentSet, 1, rules)))

(* read_bounded_contract_file, of each of the three.                       *)
Readable ==
    /\ \A f \in {"capabilities", "profiles", "policy"} : Here(files[f])
    /\ CapabilitiesSize(files.capabilities) <= MaxContractSize
    /\ Len(files.profiles.profiles) <= MaxContractSize
    /\ Len(files.policy.rules) <= MaxContractSize

SplitContracts ==
    IF ~Readable THEN Absent
    ELSE ContractsOf(files.capabilities, files.profiles, files.policy)

(* build_contracts: only what validates is written, within the bound and   *)
(* never over a file; a line feed is added to it.                          *)
BuildBundle ==
    /\ ~IsErr(SplitContracts) /\ ~Here(files.bundle)
    /\ SizeOf(Bundle(SplitContracts)) <= MaxContractSize
    /\ Write("bundle", [document |-> Bundle(SplitContracts),
                        size |-> SizeOf(Bundle(SplitContracts)) + 1])

BundledContracts ==
    IF ~Here(files.bundle) \/ files.bundle.size > MaxContractSize THEN Absent
    ELSE BundleFrom(files.bundle.document)

(* A controller starts, from the three documents or from the bundle.       *)
Load ==
    /\ \/ ~IsErr(SplitContracts) /\ loaded' = SplitContracts
       \/ ~IsErr(BundledContracts) /\ loaded' = BundledContracts
    /\ answer' = [to |-> "nothing"]
    /\ UNCHANGED <<files, chosen, writes>>

HardwareChoice(x) == SelectOnHardware(loaded.policy, loaded.profiles, x)

(* plan_validated_contracts: the rank given has to be a published one.  A  *)
(* plan that is chosen is persisted.                                       *)
ModelPlan == \E x \in Snapshot, rank \in CurrentRank :
    /\ Here(loaded) /\ SnapshotError(x) = "none"
    /\ Some(loaded.profiles.profiles, LAMBDA p : p.rank = rank)
    /\ answer' = [to |-> "select", snapshot |-> x, result |-> HardwareChoice(x)]
    /\ files' = [files EXCEPT !.plan = IF IsErr(HardwareChoice(x)) THEN @ ELSE PlanDocument(HardwareChoice(x))]
    /\ chosen' = IF IsErr(HardwareChoice(x)) THEN chosen ELSE HardwareChoice(x)
    /\ UNCHANGED <<loaded, writes>>

(* The planner of a control loop, for the resource of the loaded profiles. *)
ModelPropose == \E x \in Observed :
    /\ Here(loaded)
    /\ LET snapshot == [unit |-> loaded.policy.unit, free |-> CapacityOf(x.free),
                        utilization |-> UtilizationOf(x.utilization)]
       IN  answer' = [to |-> "propose", snapshot |-> snapshot, rank |-> x.rank,
                      result |-> HardwareChoice(snapshot),
                      proposal |-> Propose(loaded.policy, loaded.profiles,
                                           AtomicResource(loaded.profiles), x)]
    /\ UNCHANGED <<files, loaded, chosen, writes>>

(* The persisted plan is read back for whatever set is loaded by now.      *)
ReplayPlan ==
    /\ Here(files.plan) /\ Here(loaded)
    /\ answer' = [to |-> "replay", result |-> PlanFrom(files.plan, loaded.profiles)]
    /\ UNCHANGED <<files, loaded, chosen, writes>>

ProfileNext ==
    \/ WriteCapabilities \/ WriteProfiles \/ WritePolicy \/ BuildBundle
    \/ Load \/ ModelPlan \/ ModelPropose \/ ReplayPlan

-----------------------------------------------------------------------------
(* Properties.                                                             *)

(* A selection is the first profile, by rank, that the first matching rule *)
(* allows: contracts that were accepted leave no rule without a profile.   *)
(* The planner proposes just that profile unless it is the current one,    *)
(* and the bound policy allows it and no other beside it.                  *)
SelectionIsJustified ==
    answer.to \in {"select", "propose"} =>
        LET s == loaded.profiles
            better(r, q) == r.rank < q.rank
            known == Unobserved \notin {answer.snapshot.free, answer.snapshot.utilization}
            matching == {r \in Elements(loaded.policy.rules) : Matches(r, answer.snapshot)}
            best == {r \in matching : \A q \in matching : q = r \/ better(r, q)}
            allowed == {p \in Elements(s.profiles) : \A r \in best : Allows(r.envelope, p)}
            top == CHOOSE p \in allowed : \A q \in allowed : q = p \/ better(p, q)
            binding == Binding(s, <<"resource", 1>>)
            ranks == {p.rank : p \in Elements(s.profiles)}
        IN  /\ answer.to = "propose" =>
                 IF known /\ matching # {} /\ answer.rank \notin {top.rank, Unobserved}
                 THEN answer.proposal = [magnitude |-> top.rank]
                 ELSE IsErr(answer.proposal)
            /\ known /\ answer.snapshot.unit = loaded.policy.unit =>
                 IF matching = {} THEN answer.result = Err("NoMatchingRule")
                 ELSE /\ answer.result.id = top.id
                      /\ BoundRank(binding, answer.result) = [rank |-> top.rank]
            /\ \A on \in SUBSET ranks :
                 P!EvaluateConstraint(binding.constraint, [yes |-> on, no |-> ranks \ on]) = "T"
                   <=> Cardinality(on) = 1

(* A plan that is accepted again is the plan that was persisted, to the    *)
(* last level, whatever was published in between, although a plan's        *)
(* document names its profile only.                                        *)
PersistedMeansTheSame ==
    answer.to = "replay" /\ ~IsErr(answer.result) =>
        /\ answer.result = chosen
        /\ TargetFrom(TargetDocument(chosen.target), loaded.profiles.capabilities)
              = chosen.target

(* A bundle that was built can be loaded.                                  *)
BundleIsReusable == Here(files.bundle) => ~IsErr(BundledContracts)

(* A provider's plan is the one its rules select, and persisting it        *)
(* changes nothing.                                                        *)
ModelPlanIsFaithful == SelectionIsJustified /\ PersistedMeansTheSame
=============================================================================

----------------------------- MODULE Estimates -------------------------------
(***************************************************************************)
(* Plans that are screened on estimates and never carried out: a task      *)
(* under its resource envelope, compared with the limits a RemoteOps       *)
(* inventory observed (elastic-adapters), and a cached item that may be    *)
(* kept, compressed, moved out or replayed under the limits of a policy    *)
(* (elastic-kv, storage_recompute*.rs).                                    *)
(*                                                                         *)
(* An optional number is Unset when it is None; an optional record is a   *)
(* sequence of at most one.  A fingerprint is what it digests.  An id is   *)
(* its length, and the name that goes with it.  A reference is             *)
(* [bytes, namespace, identifier], two sequences of pieces.                *)
(***************************************************************************)
EXTENDS ResourceGroup, Integers

CONSTANTS
    MaxReference,     \* MAX_TASK_RESOURCE_REF_BYTES
    MaxEvidenceId,    \* MAX_STORAGE_RECOMPUTE_ID_BYTES, .._EVIDENCE_ID_BYTES
    MaxWord,          \* u64::MAX
    ReferenceDraft,   \* pairs of references, of a task and its workspace
    BudgetDraft, EstimateDraft,    \* what callers may write
    InventoryDraft, CandidateDraft, CostDraft, LimitsDraft

Unset == -1
Null == -2
Present(v) == v # Unset

-----------------------------------------------------------------------------
(* The envelope of a task.                                                 *)

BaseDimensions == <<"cpu_millis", "memory_bytes", "wall_clock_ms", "gpu_devices",
                    "model_tokens", "concurrency">>
AddedDimensions == <<"energy_microjoules", "thermal_margin_millicelsius">>
Dimension == Elements(BaseDimensions \o AddedDimensions)

(* Starts a component, or follows one of its separators.                   *)
Marked(component) == \E i \in DOMAIN component :
    component[i] = "marker" /\ (i = 1 \/ component[i - 1] = "separator")
ContainsSecretMarker(r) ==
    r.namespace = <<"credential">> \/ Marked(r.namespace) \/ Marked(r.identifier)

ReferenceError(r) == FirstFailure(<<
    <<r.bytes > MaxReference, "ReferenceTooLong">>,
    <<\/ r.namespace = <<>> \/ r.namespace[1] = "separator" \/ r.identifier = <<>>
      \/ "foreign" \in Elements(r.namespace \o r.identifier)
      \/ ContainsSecretMarker(r), "InvalidReference">> >>)

(* A zero bound is refused, but no device and no margin are bounds.        *)
NoZeroBound(b) == \A d \in Elements(BaseDimensions) \ {"gpu_devices"} : b[d] # 0
NoZeroEnergy(b) == b["energy_microjoules"] # 0

FingerprintOptional(v) == IF v = Unset THEN <<0>> ELSE <<1, v>>
FingerprintOf(b, dimensions) == FlattenSeq([i \in DOMAIN dimensions |-> FingerprintOptional(b[dimensions[i]])])
AxeThree == -3                  \* the text that tells the added dimensions
BudgetFingerprint(b) ==
    FingerprintOf(b, BaseDimensions) \o
    IF \A d \in Elements(AddedDimensions) : ~Present(b[d]) THEN <<>>
    ELSE <<AxeThree>> \o FingerprintOf(b, AddedDimensions)

TaskEnvelope(task, workspace, b) ==
    IF \E r \in {task, workspace} : ReferenceError(r) # "none" THEN Err("InvalidReference")
    ELSE IF ~NoZeroBound(b) \/ ~NoZeroEnergy(b) THEN Err("ZeroBound")
    ELSE [budget |-> b, fingerprint |-> [task |-> task, workspace |-> workspace,
                                         budget |-> BudgetFingerprint(b)]]

-----------------------------------------------------------------------------
(* A plan under an envelope.                                               *)

Over(bound, n) == Present(bound) /\ Present(n) /\ n > bound
Missing(bound, n) == Present(bound) /\ ~Present(n)

ValidatePlannedAllowZero(bound, n) == FirstFailure(<<
    <<Missing(bound, n), "MissingEstimate">>, <<Over(bound, n), "ExceedsBound">> >>)

ValidateMinimum(bound, n) == FirstFailure(<<
    <<Missing(bound, n), "MissingEstimate">>, <<Present(n) /\ n < bound, "BelowMinimum">> >>)

ValidateKnown(bound, n) == FirstFailure(<<          \* mutant: what is not estimated passes
    <<n = 0, "ZeroEstimate">>, <<Over(bound, n), "ExceedsBound">> >>)

ValidatePlanned(bound, n) == FirstFailure(<<
    <<n = 0, "ZeroEstimate">>, <<Missing(bound, n), "MissingEstimate">>,
    <<Over(bound, n), "ExceedsBound">> >>)

PlanOrder == <<"cpu_millis", "memory_bytes", "wall_clock_ms", "concurrency", "gpu_devices",
               "model_tokens", "energy_microjoules", "thermal_margin_millicelsius">>

PlanError(b, n) ==
    LET Of(d) == CASE d = "gpu_devices" -> ValidatePlannedAllowZero(b[d], n[d])
                   [] d = "thermal_margin_millicelsius" -> ValidateMinimum(b[d], n[d])
                   [] OTHER -> ValidatePlanned(b[d], n[d])
    IN  FirstFailure([i \in DOMAIN PlanOrder |-> <<Of(PlanOrder[i]) # "none", Of(PlanOrder[i])>>])

PreflightPlanWithEstimates(e, n) ==
    IF PlanError(e.budget, n) # "none" THEN Err(PlanError(e.budget, n))
    ELSE [envelope |-> e.fingerprint, estimates |-> n]

(* The older entry point knows four dimensions, and refuses the others.    *)
NotOfferedThere == {"gpu_devices", "model_tokens", "energy_microjoules", "thermal_margin_millicelsius"}
PreflightPlan(e, n) ==
    IF \E d \in NotOfferedThere : Present(e.budget[d]) THEN Err("UnsupportedDimension")
    ELSE PreflightPlanWithEstimates(e, [d \in Dimension |-> IF d \in NotOfferedThere THEN Unset ELSE n[d]])

IsBoundTo(plan, e) == plan.envelope = e.fingerprint

-----------------------------------------------------------------------------
(* The inventory of a host, and the plan beside it.                        *)

(* A written limit is [state, value], the value Unset, Null or a number.  *)
LimitAccepted(w) ==
    CASE w.state \in {"unknown", "unbounded"} -> w.value = Unset
      [] w.state = "limited" -> w.value \notin {Unset, Null}
      [] OTHER -> FALSE

IntoValidated(w) ==
    LET e == FirstFailure(<<
            <<~LimitAccepted(w.quota) \/ ~LimitAccepted(w.memory), "Unreadable">>,
            <<w.version # 2, "UnsupportedSchemaVersion">>,
            <<w.cpus = 0, "ZeroLogicalCpuCount">>, <<w.total = 0, "ZeroHostMemoryTotal">> >>)
    IN  IF e # "none" THEN Err(e)
        ELSE [cpus |-> w.cpus, total |-> w.total, quota |-> w.quota, memory |-> w.memory]

FingerprintLimit(l) ==
    CASE l.state = "unknown" -> <<0>>
      [] l.state = "unbounded" -> <<1>>
      [] l.state = "limited" -> <<2, l.value>>
InventoryFingerprint(i) == <<FingerprintLimit(i.quota), FingerprintLimit(i.memory)>>

CompareLimit(n, l) ==
    CASE ~Present(n) -> "NotRequested"
      [] Present(n) /\ l.state = "unknown" -> "Unknown"
      [] Present(n) /\ l.state = "unbounded" -> "Unbounded"
      [] Present(n) /\ l.state = "limited" ->
            IF n <= l.value THEN "WithinObservedCeiling" ELSE "ExceedsObservedCeiling"
NotObserved(n) == IF Present(n) THEN "UnsupportedByInventory" ELSE "NotRequested"

Assess(e, plan, i) ==
    IF ~IsBoundTo(plan, e) THEN Err("PlanNotBoundToEnvelope")
    ELSE LET n == plan.estimates IN
         [plan |-> plan, inventory |-> InventoryFingerprint(i),
          status |-> [d \in Dimension |->
             CASE d = "cpu_millis" -> CompareLimit(n[d], i.quota)
               [] d = "memory_bytes" -> CompareLimit(n[d], i.memory)
               [] d = "gpu_devices" /\ n[d] = 0 -> "NotRequested"
               [] OTHER -> NotObserved(n[d])]]

AssessmentIsBoundTo(a, e, i) == IsBoundTo(a.plan, e) /\ a.inventory = InventoryFingerprint(i)
UnsupportedDimensions(a) ==
    {d \in Dimension \ {"cpu_millis", "memory_bytes"} : a.status[d] = "UnsupportedByInventory"}
HasObservedExceedance(a) == \E d \in {"cpu_millis", "memory_bytes"} : a.status[d] = "ExceedsObservedCeiling"

-----------------------------------------------------------------------------
(* What may be done with a cached item, and what it costs.                 *)

IdError(id) == id = 0 \/ id > MaxEvidenceId

ReplayError(r) == FirstFailure(<<
    <<r.window = 0, "ZeroReplayWindow">>,
    <<Present(r.verifier) /\ IdError(r.verifier), "verifier_id">>,
    <<r.reconstruction = "approximate" /\ ~Present(r.verifier), "ApproximateReplayMissingVerifier">> >>)

CandidateError(c) == FirstFailure(<<
    <<\E i \in DOMAIN c.replay : ReplayError(c.replay[i]) # "none", "ReplayContract">>,
    <<\E id \in {c.id, c.contract, c.target} : IdError(id), "Id">>,
    <<c.action = "drop-and-replay" /\ c.replay = <<>>, "DropAndReplayMissingContract">>,
    <<c.action # "drop-and-replay" /\ c.replay # <<>>, "ReplayOnNonReplayAction">> >>)

(* The optional costs of a vector, each at most one piece of evidence.     *)
ByteCosts(v) == <<v.resident, v.transferred>>
Latencies(v) == <<v.transfer, v.recompute, v.controller>>
AllCosts(v) == FlattenSeq(ByteCosts(v) \o Latencies(v))

QualityVerifier(q) == IF q.state = "not-attached" THEN Unset ELSE q.verifier
Approximate(c) == c.replay # <<>> /\ c.replay[1].reconstruction = "approximate"

(* The ids of the evidence are checked as it is made, before the vector.   *)
CostError(c, v) == FirstFailure(<<
    <<\/ \E i \in DOMAIN AllCosts(v) : IdError(AllCosts(v)[i].evidence)
      \/ v.quality.state # "not-attached" /\ IdError(v.quality.verifier)
      \/ v.quality.state = "verified" /\ IdError(v.quality.evidence), "Id">>,
    <<AllCosts(v) = <<>>, "EmptyCostVector">>,
    <<c.action = "drop-and-replay" /\ v.recompute = <<>>, "ReplayMissingRecomputeLatency">>,
    <<Approximate(c) /\ v.quality.state = "not-attached", "ApproximateReplayGuardMissing">>,
    <<Approximate(c) /\ QualityVerifier(v.quality) # c.replay[1].verifier, "QualityVerifierMismatch">>,
    <<c.action # "drop-and-replay" /\ v.recompute # <<>>, "RecomputeLatencyOnNonReplayAction">> >>)

CostVector(c, v) == IF CostError(c, v) # "none" THEN Err(CostError(c, v)) ELSE [candidate |-> c, costs |-> v]

-----------------------------------------------------------------------------
(* Screening.                                                              *)

LimitsAccepted(l) == \E b \in {l.resident, l.transfer, l.latency} : Present(b)

RequireActionEvidence(c, v) == FirstFailure(<<
    <<v.resident = <<>>, "MissingResidentBytes">>,
    <<c.action = "offload" /\ v.transferred = <<>>, "MissingTransferBytes">>,
    <<c.action = "offload" /\ v.transfer = <<>>, "MissingTransferLatency">>,
    <<c.action = "drop-and-replay" /\ v.recompute = <<>>, "MissingRecomputeLatency">> >>)

RequireVerifiedReplay(c, v) == FirstFailure(<<
    <<Approximate(c) /\ v.quality.state # "verified", "QualityEvidenceNotVerified">>,
    <<Approximate(c) /\ v.quality.verifier # c.replay[1].verifier, "QualityVerifierMismatch">> >>)

RejectForecasts(v, l) == FirstFailure(<<
    <<~l.forecasts /\ \E i \in DOMAIN AllCosts(v) : AllCosts(v)[i].basis = "forecast",
      "ForecastEvidenceForbidden">> >>)

(* A transfer that is not there needs no scope, and moves nothing.         *)
RequirePhysical(v, l) == FirstFailure(<<
    <<Present(l.resident) /\ \E i \in DOMAIN v.resident : v.resident[i].scope # "physical",
      "ResidentByteScopeMismatch">>,
    <<Present(l.transfer) /\ \E i \in DOMAIN v.transferred : v.transferred[i].scope # "physical",
      "TransferByteScopeMismatch">> >>)

RequireWithin(v, l) == FirstFailure(<<
    <<Present(l.resident) /\ v.resident[1].bytes > l.resident, "ResidentBytesExceeded">>,
    <<\E i \in DOMAIN v.transferred : Over(l.transfer, v.transferred[i].bytes), "TransferBytesExceeded">>,
    <<v.controller = <<>>, "MissingControllerLatency">> >>)

WrappingSum(v) ==               \* mutant: the total is added without checks
    FoldSeq(LAMBDA e, total : (total + e.nanoseconds) % (MaxWord + 1), 0, FlattenSeq(Latencies(v)))

(* Unset when a partial sum does not fit a word.                          *)
TotalLatency(v) ==
    FoldSeq(LAMBDA e, total : IF total = Unset \/ total + e.nanoseconds > MaxWord THEN Unset
                              ELSE total + e.nanoseconds,
            0, FlattenSeq(Latencies(v)))

Screened(c, vector, l) ==
    LET v == vector.costs
        error ==
            IF c # vector.candidate THEN "CandidateFingerprintMismatch"
            ELSE IF RequireActionEvidence(c, v) # "none" THEN RequireActionEvidence(c, v)
            ELSE FirstFailure(<<
                <<RequireVerifiedReplay(c, v) # "none", RequireVerifiedReplay(c, v)>>,
                <<RejectForecasts(v, l) # "none", RejectForecasts(v, l)>>,
                <<RequirePhysical(v, l) # "none", RequirePhysical(v, l)>>,
                <<RequireWithin(v, l) # "none", RequireWithin(v, l)>>,
                <<TotalLatency(v) = Unset, "LatencyOverflow">>,
                <<Over(l.latency, TotalLatency(v)), "LatencyExceeded">> >>)
    IN  IF error # "none" THEN Err(error)
        ELSE [candidate |-> c, costs |-> vector, limits |-> l, total |-> TotalLatency(v)]

-----------------------------------------------------------------------------
(* A caller keeps one of each, and replaces any of them at any time.       *)
VARIABLES
    desk,         \* "task" or "storage": which kind of plan is made
    envelope, planned, inventory, assessment,    \* each at most one
    candidate, vector, screened

taskVars == <<envelope, planned, inventory, assessment>>
storageVars == <<candidate, vector, screened>>
estimateVars == <<desk, envelope, planned, inventory, assessment, candidate, vector, screened>>

EstimateInit ==
    /\ desk \in {"task", "storage"}
    /\ envelope = <<>> /\ planned = <<>> /\ inventory = <<>> /\ assessment = <<>>
    /\ candidate = <<>> /\ vector = <<>> /\ screened = <<>>

Keep(result) == IF IsErr(result) THEN <<>> ELSE <<result>>

WriteEnvelope == \E r \in ReferenceDraft, b \in BudgetDraft :
    /\ envelope' = Keep(TaskEnvelope(r[1], r[2], b))
    /\ UNCHANGED <<desk, planned, inventory, assessment, storageVars>>

Preflight == \E n \in EstimateDraft :
    /\ envelope # <<>>
    /\ \/ planned' = Keep(PreflightPlanWithEstimates(envelope[1], n))
       \/ planned' = Keep(PreflightPlan(envelope[1], n))
    /\ UNCHANGED <<desk, envelope, inventory, assessment, storageVars>>

ReadInventory == \E w \in InventoryDraft :
    /\ inventory' = Keep(IntoValidated(w))
    /\ UNCHANGED <<desk, envelope, planned, assessment, storageVars>>

AssessPlan ==
    /\ envelope # <<>> /\ planned # <<>> /\ inventory # <<>>
    /\ assessment' = Keep(Assess(envelope[1], planned[1], inventory[1]))
    /\ UNCHANGED <<desk, envelope, planned, inventory, storageVars>>

WriteCandidate == \E c \in CandidateDraft :
    /\ candidate' = IF CandidateError(c) = "none" THEN <<c>> ELSE <<>>
    /\ UNCHANGED <<desk, taskVars, vector, screened>>

WriteCosts == \E v \in CostDraft :
    /\ candidate # <<>>
    /\ vector' = Keep(CostVector(candidate[1], v))
    /\ UNCHANGED <<desk, taskVars, candidate, screened>>

Screen == \E l \in LimitsDraft :
    /\ candidate # <<>> /\ vector # <<>> /\ LimitsAccepted(l)
    /\ screened' = Keep(Screened(candidate[1], vector[1], l))
    /\ UNCHANGED <<desk, taskVars, candidate, vector>>

EstimateNext ==
    \/ desk = "task" /\ (WriteEnvelope \/ Preflight \/ ReadInventory \/ AssessPlan)
    \/ desk = "storage" /\ (WriteCandidate \/ WriteCosts \/ Screen)

-----------------------------------------------------------------------------
(* Properties.                                                             *)

(* A plan that says it is bound to the envelope a caller holds now, which  *)
(* may not be the one it was made for, keeps every bound of that envelope: *)
(* what is bounded was estimated, within its bound, and not as nothing.    *)
PlanKeepsItsEnvelope ==
    \A p \in Elements(planned), e \in Elements(envelope) : IsBoundTo(p, e) =>
        \A d \in Dimension : Present(e.budget[d]) =>
            /\ Present(p.estimates[d])
            /\ IF d = "thermal_margin_millicelsius" THEN p.estimates[d] >= e.budget[d]
               ELSE p.estimates[d] <= e.budget[d]
            /\ p.estimates[d] = 0 => d \in {"gpu_devices", "thermal_margin_millicelsius"}

(* An assessment bound to what the caller holds now says of every amount   *)
(* that was planned whether this host has it: within only under a limit    *)
(* that was read, beyond exactly when one is passed, and never silent.     *)
AssessmentIsOfTheHost ==
    \A a \in Elements(assessment), e \in Elements(envelope), i \in Elements(inventory) :
        AssessmentIsBoundTo(a, e, i) =>
            LET n == a.plan.estimates
                Limit == [cpu_millis |-> i.quota, memory_bytes |-> i.memory]
                Asked == {d \in Dimension : Present(n[d])}
                Passed == {d \in Asked \cap DOMAIN Limit :
                              Limit[d].state = "limited" /\ Limit[d].value < n[d]}
            IN  /\ HasObservedExceedance(a) <=> Passed # {}
                /\ \A d \in Dimension : a.status[d] = "WithinObservedCeiling" =>
                       d \in DOMAIN Limit /\ Limit[d].state = "limited" /\ n[d] <= Limit[d].value
                /\ UnsupportedDimensions(a) =
                       (Asked \ DOMAIN Limit) \ {d \in {"gpu_devices"} : n[d] = 0}
                /\ \A d \in Asked \ {"gpu_devices"} : a.status[d] # "NotRequested"

(* A screened plan about the candidate and the costs a caller holds now    *)
(* keeps every limit of its policy on evidence of the kind that limit      *)
(* needs: physical bytes, each latency once and without wrapping, nothing  *)
(* forecast unless allowed, and a replay that only approximates verified   *)
(* by its own verifier.                                                    *)
ScreenedKeepsItsLimits ==
    \A s \in Elements(screened), c \in Elements(candidate), held \in Elements(vector) :
        s.candidate = c /\ s.costs = held =>
            LET v == held.costs
                Spent == FoldSeq(LAMBDA e, total : total + e.nanoseconds, 0, FlattenSeq(Latencies(v)))
                Kept(cost, bound) == Present(bound) => \A i \in DOMAIN cost :
                    cost[i].scope = "physical" /\ cost[i].bytes <= bound
            IN  /\ Kept(v.resident, s.limits.resident) /\ v.resident # <<>>
                /\ Kept(v.transferred, s.limits.transfer)
                /\ s.total = Spent /\ Spent <= MaxWord
                /\ Present(s.limits.latency) => Spent <= s.limits.latency
                /\ ~s.limits.forecasts => \A i \in DOMAIN AllCosts(v) : AllCosts(v)[i].basis = "measured"
                /\ c.action = "offload" => v.transferred # <<>> /\ v.transfer # <<>>
                /\ c.action = "drop-and-replay" <=> v.recompute # <<>>
                /\ Approximate(c) => /\ v.quality.state = "verified"
                                     /\ v.quality.verifier = c.replay[1].verifier

EstimatesStand == PlanKeepsItsEnvelope /\ AssessmentIsOfTheHost /\ ScreenedKeepsItsLimits
=============================================================================

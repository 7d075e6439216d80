----------------------- MODULE RepresentationPlanning -----------------------
(***************************************************************************)
(* The way of a logical view of cache pages to another representation, up  *)
(* to the metadata that says it moved: the declaration and the frontier    *)
(* (elastic-core: resource/bridge.rs, frontier.rs, representation.rs), the *)
(* screening of precision candidates (elastic-runtime), the capacity       *)
(* preflight of a page, the plan, its binding to the screening, the        *)
(* attention view and the epoch delta (elastic-kv).                        *)
(*                                                                         *)
(* The caller takes these steps one after the other; between two of them   *)
(* the view may move, capabilities come and go, and evidence that a        *)
(* trusted validator issued for one transition may be presented for        *)
(* another.  Identities are the things they identify: a fingerprint is     *)
(* what it digests, and the schema version is part of a contract.          *)
(***************************************************************************)
EXTENDS Naturals, SequencesExt

CONSTANTS
    Contract,   \* representations
    Declared,   \* RepresentationalDeclaration::allowed_contracts
    Admitted,   \* the mechanisms the resource admits along representation
    Drafts,     \* lists of precision candidates an operator may write
    Strangers,  \* candidates of other lists that a caller may present
    Measure,    \* <<bytes, age>> an operator may measure
    Odd,        \* what else may have been observed of a signal
    Keys,       \* how the keys of a page may be materialized
    PageId,
    LastEpoch,  \* the largest materialization epoch
    MaxExact,   \* the largest integer an f64 holds exactly
    MaxAge,     \* how old an observation may be
    MaxTokens,  \* bound: pieces of evidence kept
    None

Mechanism == {"reinterpret", "reencode", "recompute"}
State == [contract : Contract, epoch : 0 .. LastEpoch]
Transition == [from : State, to : State, mechanism : Mechanism]

Scope == {"raw", "tokenStable", "queryDependent"}
Pipeline == {"raw", "transformThenCodec", "codecThenTransform", "fusedDeclared"}
Recovery == {"none", "storedCanonicalRaw", "modelRecompute", "externalStableSource"}
Materialization == [scope : Scope, pipeline : Pipeline, recovery : Recovery]

(* RepresentationPrecisionCandidateV1; an operator may name any contract.  *)
IsCandidate(c) ==
    {c.rank, c.bits} \subseteq Nat /\ c.target \in Contract /\ c.mechanism \in Mechanism

RepresentationAssumption ==
    /\ Declared \subseteq Contract /\ Declared # {} /\ Admitted \subseteq Mechanism
    /\ {LastEpoch, MaxExact, MaxAge, MaxTokens} \subseteq Nat
    /\ None \notin State \cup Contract
    /\ Keys \subseteq Materialization /\ IsFiniteSet(PageId)
    /\ \A d \in Drafts : d \in Seq(ToSet(d)) /\ \A c \in ToSet(d) : IsCandidate(c)

VARIABLES
    slate,      \* the candidates of the precision preplanner
    perPage,    \* KvAttentionViewPolicy::allow_per_page_representation; fixed
    committed, pending,  \* VersionFrontier
    supported,  \* the current CapabilitySet
    tokens,     \* the evidence tokens that were issued
    report,     \* the last precision report, or None
    read,       \* ghost: what was observed for it
    pages,      \* the descriptors of the view
    plans,      \* the plan of each page, or None
    binding,    \* the last RepresentationPrecisionKvBindingV1, or None
    bound       \* ghost: what was observed for its report

planningVars == <<slate, perPage, committed, pending, supported, tokens, report,
                  read, pages, plans, binding, bound>>

-----------------------------------------------------------------------------
(* Representation states and transitions.                                  *)

(* derive_target: the epoch stays only if neither the contract is named    *)
(* anew nor anything materialized; at the last epoch there is no next one. *)
DeriveTarget(from, named, mechanism) ==
    IF named = None /\ mechanism = "reinterpret" THEN from
    ELSE IF from.epoch = LastEpoch THEN None
    ELSE [contract |-> IF named = None THEN from.contract ELSE named,
          epoch |-> from.epoch + 1]

(* The declaration names the contract even when it is the current one.     *)
DeclaredTarget(from, contract, mechanism) ==
    IF contract \in Declared /\ mechanism \in Admitted
    THEN DeriveTarget(from, contract, mechanism) ELSE None

Claim == [reinterpret |-> "semanticEquivalence", reencode |-> "reencoderAvailable",
          recompute |-> "recomputeSourceAvailable"]
Token == [kind : {Claim[m] : m \in Mechanism}, about : Transition]

ClaimsOfKind(shown, t) ==       \* mutant: whatever was issued attests
    {token.kind : token \in shown}

(* TransitionAttestations::from_evidence: a token attests one transition.  *)
FromEvidence(shown, t) ==
    {token.kind : token \in {k \in shown : k.about = t}}

MustAdvance(t) == t.from.contract # t.to.contract \/ t.mechanism # "reinterpret"

ValidTransition(t, capabilities, attested) ==
    /\ t.to.contract \in capabilities
    /\ t.to.epoch >= t.from.epoch
    /\ MustAdvance(t) => t.to.epoch # t.from.epoch
    /\ \/ t.mechanism = "reinterpret" /\ t.from.contract = t.to.contract
       \/ Claim[t.mechanism] \in attested

-----------------------------------------------------------------------------
(* Evidence from observations.                                             *)

(* The value both the observations and the planning context hold, if it is *)
(* valid, fresh and an exact integer; None otherwise.                      *)
FreshValue(r) ==
    IF /\ r.status = "valid" /\ r.age \in 0 .. MaxAge
       /\ r.context = r.seen /\ r.seen \in 0 .. MaxExact
    THEN r.seen ELSE None

(* KvCapacityObservationV1::measured: one number for both.                 *)
Measured(bytes, age) ==
    [status |-> IF bytes > MaxExact THEN "unsupported" ELSE "valid", age |-> age,
     seen |-> bytes, context |-> IF bytes > MaxExact THEN None ELSE bytes,
     foreign |-> FALSE]
Reading == {Measured(m[1], m[2]) : m \in Measure} \cup Odd

(* TargetMaterializationFitsPredicate: this resource has room.             *)
CapacityTruth(r, bytes) ==
    IF bytes > MaxExact \/ r.foreign \/ FreshValue(r) = None THEN "U"
    ELSE IF FreshValue(r) >= bytes THEN "T" ELSE "F"

(* RequiredPrecisionBitsPredicate; a floor is at least one bit.            *)
Floor(r) == IF FreshValue(r) = 0 THEN None ELSE FreshValue(r)

PrecisionTruth(r, bits) ==
    IF Floor(r) = None THEN "U" ELSE IF Floor(r) <= bits THEN "T" ELSE "F"

-----------------------------------------------------------------------------
(* The precision preplanner.                                               *)

(* BooleanRepresentationPrecisionPreplannerV1::new sorts by rank and       *)
(* refuses an empty list and what is there twice.                          *)
Preplanner(draft) ==
    IF \/ draft = <<>>
       \/ \E i, j \in DOMAIN draft :
             i # j /\ (draft[i].id = draft[j].id \/ draft[i].rank = draft[j].rank)
    THEN None
    ELSE CHOOSE s \in [DOMAIN draft -> ToSet(draft)] :
             \A i, j \in DOMAIN draft : i < j => s[i].rank < s[j].rank

(* What a report says of one candidate.                                    *)
Evidence(c, current, r) ==
    LET target == DeclaredTarget(current, c.target, c.mechanism)
        capable == target # None /\ c.target \in supported
    IN  [candidate |-> c, declared |-> target # None, capable |-> capable,
         truth |-> IF capable THEN PrecisionTruth(r, c.bits) ELSE "F"]

(* The first candidate that is not refused ends the screening.             *)
StopAt(judged) ==
    LET stands == {i \in DOMAIN judged : judged[i].truth # "F"}
    IN  IF stands = {} THEN 0 ELSE Min(stands)

(* screen                                                                  *)
Screen(current, r) ==
    LET judged == [i \in DOMAIN slate |-> Evidence(slate[i], current, r)]
        last == StopAt(judged)
    IN  [current |-> current,
         evidence |-> IF last = 0 THEN judged ELSE SubSeq(judged, 1, last),
         outcome |-> IF last = 0 THEN [kind |-> "NoCandidate"]
                     ELSE [kind |-> IF judged[last].truth = "T" THEN "Selected"
                                    ELSE "InsufficientEvidence",
                           id |-> slate[last].id, rank |-> slate[last].rank]]

(* screen_with_trace: the trace of a candidate shows the transition that   *)
(* was selected for it, if one was; a refused candidate has no trace.      *)
WithTraces(planned) ==
    [planning |-> planned,
     traces |-> [i \in DOMAIN planned.evidence |->
        LET e == planned.evidence[i]
        IN  [id |-> e.candidate.id, rank |-> e.candidate.rank,
             trace |-> IF ~e.capable THEN None
                       ELSE [selected |->
                             IF /\ planned.outcome.kind = "Selected"
                                /\ planned.outcome.id = e.candidate.id
                             THEN e.candidate.mechanism ELSE "none"]]]]

(* selected_transition: a structural transition, not yet a valid one.      *)
SelectedTransition(current, planned) ==
    IF planned.outcome.kind # "Selected" THEN None
    ELSE LET c == CHOOSE c \in ToSet(slate) : c.id = planned.outcome.id
             target == DeclaredTarget(current, c.target, c.mechanism)
         IN  IF target = None THEN None
             ELSE [from |-> current, to |-> target, mechanism |-> c.mechanism]

-----------------------------------------------------------------------------
(* Pages and their plans.                                                  *)

(* validate_scope_pipeline: a raw key has no pipeline, any other has one.  *)
FitsPipeline(m) == m.scope = "raw" <=> m.pipeline = "raw"

Compatibility(m) ==
    IF m.scope = "queryDependent" THEN "QueryDependent"
    ELSE CASE m.recovery = "storedCanonicalRaw" -> "EpochReencodable"
           [] m.recovery = "none" -> "CacheInvariant"
           [] OTHER -> "RecomputableOnly"

Rematerializes(d, m) == d.keys.scope # m.scope \/ d.keys.pipeline # m.pipeline

(* validate_reusable_representation_change, or None.                       *)
KvPlan(d, t, attested, m) ==
    IF /\ FitsPipeline(d.keys) /\ FitsPipeline(m) /\ m.scope # "queryDependent"
       /\ Rematerializes(d, m) => t.mechanism # "reinterpret"
       /\ ValidTransition(t, supported, attested)
    THEN [representation |-> t, keys |-> m, compatibility |-> Compatibility(m)]
    ELSE None

(* validate_candidate of the capacity controller: the plan, or None when   *)
(* the capacity blocks it or the page refuses it.                          *)
Preflight(d, t, attested, m, r, bytes) ==
    IF CapacityTruth(r, bytes) = "T" THEN KvPlan(d, t, attested, m) ELSE None

(* validate_reusable_attention_view: what keeps the pages from being read  *)
(* as one view; each page is compared with the first.                      *)
ViewProblem(view, mixed) ==
    LET first == view[1]
        Against(d) ==
            IF ~FitsPipeline(d.keys) THEN "pipeline"
            ELSE IF d.keys.scope = "queryDependent" THEN "query"
            ELSE IF mixed THEN "none"
            ELSE IF d.representation.contract # first.representation.contract
                 THEN "MixedRepresentationContract"
            ELSE IF d.representation.epoch # first.representation.epoch
                 THEN "MixedRepresentationEpoch"
            ELSE IF d.keys.scope # first.keys.scope THEN "MixedKeyTransformScope"
            ELSE IF d.keys.pipeline # first.keys.pipeline
                 THEN "MixedKeyEncodingPipeline" ELSE "none"
        bad == {i \in DOMAIN view : Against(view[i]) # "none"}
    IN  IF view = <<>> THEN "EmptyAttentionView"
        ELSE IF bad = {} THEN "none" ELSE Against(view[Min(bad)])

BatchOfOneSource(batch) ==      \* mutant: the targets are not compared
    /\ batch # {}
    /\ \A b, c \in batch : b.plan.representation.from = c.plan.representation.from

(* validate_atomic_transition_batch: one source and one target state. The  *)
(* order of a batch decides only which of its faults is named.             *)
AtomicBatch(batch) ==
    /\ batch # {}
    /\ \A b, c \in batch :
          /\ b.plan.representation.from = c.plan.representation.from
          /\ b.plan.representation.to = c.plan.representation.to

(* build_epoch_delta, or None.                                             *)
EpochDelta(batch) ==
    IF /\ AtomicBatch(batch)
       /\ \A b \in batch : b.plan.representation.to.epoch > b.plan.representation.from.epoch
       /\ \A b, c \in batch : b.page = c.page => b = c
    THEN LET t == (CHOOSE b \in batch : TRUE).plan.representation
         IN  [from |-> t.from, to |-> t.to, migrated |-> {b.page : b \in batch}]
    ELSE None

-----------------------------------------------------------------------------
(* Binding a screening to the plan of a page.                              *)

(* validate_selected_outcome, validate_source                              *)
SelectedIn(c, planned) ==
    planned.outcome = [kind |-> "Selected", id |-> c.id, rank |-> c.rank]
SameSource(planned, plan) == planned.current = plan.representation.from

EvidenceByName(c, planned) ==   \* mutant: what was judged is not compared
    \E i \in DOMAIN planned.evidence : planned.evidence[i].candidate.id = c.id

(* validate_candidate_evidence: exactly the candidate that was judged.     *)
EvidenceStands(c, planned) ==
    \E i \in DOMAIN planned.evidence :
        /\ planned.evidence[i] =
              [candidate |-> c, declared |-> TRUE, capable |-> TRUE, truth |-> "T"]
        /\ \A j \in DOMAIN planned.evidence : planned.evidence[j].candidate.id = c.id => j = i

(* validate_trace                                                          *)
TraceSelects(c, shown) ==
    \E i \in DOMAIN shown.traces :
        /\ shown.traces[i].id = c.id /\ shown.traces[i].rank = c.rank
        /\ shown.traces[i].trace # None /\ shown.traces[i].trace.selected = c.mechanism
        /\ \A j \in DOMAIN shown.traces : shown.traces[j].id = c.id => j = i

(* validate_target: the target the core derives, where the contract of the *)
(* source is not named anew.                                               *)
ExpectedTarget(c, from) ==
    DeriveTarget(from, IF from.contract = c.target THEN None ELSE c.target, c.mechanism)

TargetStands(c, plan) ==
    /\ plan.representation.mechanism = c.mechanism
    /\ plan.representation.to = ExpectedTarget(c, plan.representation.from)

(* RepresentationPrecisionKvBindingV1::new, or None.                       *)
Bind(c, shown, plan) ==
    IF /\ SelectedIn(c, shown.planning) /\ SameSource(shown.planning, plan)
       /\ EvidenceStands(c, shown.planning) /\ TraceSelects(c, shown)
       /\ TargetStands(c, plan)
    THEN [candidate |-> c, report |-> shown, plan |-> plan]
    ELSE None

-----------------------------------------------------------------------------
(* The view and its caller.                                                *)

Init ==
    /\ slate \in {Preplanner(d) : d \in Drafts} \ {None}
    /\ perPage \in BOOLEAN
    /\ committed \in [contract : Declared, epoch : {0}] /\ pending = None
    /\ supported = Contract /\ tokens = {}
    /\ report = None /\ read = None /\ binding = None /\ bound = None
    /\ pages = [p \in PageId |->
          [representation |-> committed,
           keys |-> [scope |-> "tokenStable", pipeline |-> "transformThenCodec",
                     recovery |-> "storedCanonicalRaw"]]]
    /\ plans = [p \in PageId |-> None]

(* The capabilities of the process change.                                 *)
Learn ==
    /\ \E c \in Contract :
          supported' = IF c \in supported THEN supported \ {c} ELSE supported \cup {c}
    /\ UNCHANGED <<slate, perPage, committed, pending, tokens, report, read, pages,
                   plans, binding, bound>>

(* A trusted validator issues evidence for one transition (external).      *)
Issue ==
    /\ Cardinality(tokens) < MaxTokens
    /\ \E from \in {committed} \cup {pages[p].representation : p \in PageId},
          c \in Declared, m \in Admitted :
          /\ DeclaredTarget(from, c, m) # None
          /\ tokens' = tokens \cup {[kind |-> Claim[m], about |->
                [from |-> from, to |-> DeclaredTarget(from, c, m), mechanism |-> m]]}
    /\ UNCHANGED <<slate, perPage, committed, pending, supported, report, read,
                   pages, plans, binding, bound>>

(* The state of a page has to be one of the declaration.                   *)
ScreenPage ==
    /\ \E p \in PageId, r \in Reading :
          /\ pages[p].representation.contract \in Declared
          /\ report' = WithTraces(Screen(pages[p].representation, r))
          /\ read' = r
    /\ UNCHANGED <<slate, perPage, committed, pending, supported, tokens, pages,
                   plans, binding, bound>>

(* The transition of a page is the selected one, for which the selected    *)
(* report may be an old one, or one the caller picks by hand.              *)
Offered(from) ==
    [from : {from}, to : State, mechanism : Admitted]
       \cup (IF report = None THEN {}
             ELSE {SelectedTransition(from, report.planning)} \ {None})

(* A plan that is refused or blocked changes nothing.                      *)
PlanPage(p) ==
    /\ \E t \in Offered(pages[p].representation), keys \in Keys, r \in Reading :
          LET plan == Preflight(pages[p], t, FromEvidence(tokens, t), keys, r, 1)
          IN  /\ plan # None
              /\ plans' = [plans EXCEPT ![p] = plan]
    /\ UNCHANGED <<slate, perPage, committed, pending, supported, tokens, report,
                   read, pages, binding, bound>>

BindPage(p) ==
    /\ report # None /\ plans[p] # None
    /\ \E c \in ToSet(slate) \cup Strangers :
          /\ Bind(c, report, plans[p]) # None
          /\ binding' = Bind(c, report, plans[p])
    /\ bound' = read
    /\ UNCHANGED <<slate, perPage, committed, pending, supported, tokens, report,
                   read, pages, plans>>

(* propose of the frontier takes any target, propose_on a declared one.    *)
Propose ==
    /\ pending = None
    /\ \E m \in Mechanism, c \in Contract, to \in State :
          /\ to = DeclaredTarget(committed, c, m) \/ to.contract = c
          /\ pending' = [from |-> committed, to |-> to, mechanism |-> m]
    /\ UNCHANGED <<slate, perPage, committed, supported, tokens, report, read,
                   pages, plans, binding, bound>>

Commit ==
    /\ pending # None
    /\ ValidTransition(pending, supported, FromEvidence(tokens, pending))
    /\ committed' = pending.to /\ pending' = None
    /\ UNCHANGED <<slate, perPage, supported, tokens, report, read, pages, plans,
                   binding, bound>>

Rollback ==
    /\ pending # None /\ pending' = None
    /\ UNCHANGED <<slate, perPage, committed, supported, tokens, report, read,
                   pages, plans, binding, bound>>

(* The cache carries a batch out, every page from the state its plan was   *)
(* made for; without per-page representations it is the whole view.        *)
Migrate ==
    /\ \E S \in SUBSET {p \in PageId : plans[p] # None} :
          LET delta == EpochDelta({[page |-> p, plan |-> plans[p]] : p \in S})
          IN  /\ S # {} /\ (perPage \/ S = PageId)
              /\ \A p \in S : plans[p].representation.from = pages[p].representation
              /\ delta # None
              /\ pages' = [p \in PageId |-> IF p \in delta.migrated
                    THEN [representation |-> plans[p].representation.to, keys |-> plans[p].keys]
                    ELSE pages[p]]
              /\ plans' = [p \in PageId |-> IF p \in S THEN None ELSE plans[p]]
    /\ UNCHANGED <<slate, perPage, committed, pending, supported, tokens, report,
                   read, binding, bound>>

Next ==
    \/ Learn \/ Issue \/ ScreenPage \/ Propose \/ Commit \/ Rollback \/ Migrate
    \/ \E p \in PageId : PlanPage(p) \/ BindPage(p)

PlanningSpec == Init /\ [][Next]_planningVars

-----------------------------------------------------------------------------
(* Properties.                                                             *)

(* What a binding puts together belongs together, however long the caller  *)
(* kept its parts: the plan starts in the state that was screened and goes *)
(* to the target of the candidate, the floor that was observed was fresh,  *)
(* exact and met by it, and no candidate preferred to it would have done.  *)
BindingIsTrue ==
    binding # None =>
        LET c == binding.candidate
            t == binding.plan.representation
            judged == binding.report.planning.evidence
        IN  /\ t.from = binding.report.planning.current
            /\ t.to.contract = c.target /\ t.mechanism = c.mechanism
            /\ bound.status = "valid" /\ bound.age <= MaxAge
            /\ bound.context = bound.seen /\ bound.seen \in 1 .. c.bits
            /\ \A d \in ToSet(slate) : d.rank < c.rank =>
                  \E i \in DOMAIN judged :
                     judged[i].candidate = d /\ (judged[i].capable => d.bits < bound.seen)

(* The frontier moves to what the process can read, under evidence that    *)
(* was issued for this very transition and not for an earlier one to the   *)
(* same contract; the epoch never names two materializations.              *)
FrontierIsJustified ==
    [][committed' # committed =>
          /\ committed'.contract \in supported
          /\ committed'.epoch > committed.epoch
          /\ \/ committed'.contract = committed.contract /\ pending.mechanism = "reinterpret"
             \/ \E ev \in tokens :
                   ev.about.from = committed /\ ev.about.to = committed']_planningVars

(* A view whose kernel reads one representation keeps one, contract and    *)
(* epoch, although the plans of its pages were made one by one; in         *)
(* whatever order its pages are listed.                                    *)
ViewStaysWhole ==
    ~perPage =>
        \A order \in [1 .. Cardinality(PageId) -> PageId] :
            ViewProblem([i \in DOMAIN order |-> pages[order[i]]], FALSE) \notin
                {"MixedRepresentationContract", "MixedRepresentationEpoch"}
=============================================================================

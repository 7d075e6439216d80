--------------------------- MODULE MCDeclarations ----------------------------
(* Declarations around every check of the builders, realizations of a      *)
(* kernel, the documents of a model provider, texts of the        *)
(* embedded language, and estimates of tasks and of cached items.          *)
EXTENDS Declarations, ModelProfiles, ElasticLanguage, Estimates

SpecOffers ==
    [dimensions |-> {1, 2}, invariants |-> {<<1, 0>>, <<1, 1>>}, objectives |-> {1, 2},
     transitions |-> {<<1, 1>>, <<1, 2>>}, capabilities |-> {<<1, 1>>, <<1, 2>>},
     observations |-> {1}, labels |-> {<<0, 1>>, <<1, 1>>, <<1, 2>>}]

T(r, p, w) == [resource |-> r, predicate |-> p, weight |-> w]
R(id, r, b) == [id |-> id, kind |-> "ram", resource |-> r, bytes |-> b]

Budgets == {b \in
    {NewBudget(1, <<T(2, 1, 1), T(1, 2, 2)>>, 2), NewBudget(1, <<T(1, 1, 0)>>, 2),
     NewBudget(2, <<T(1, 1, 1), T(2, 2, 1), T(3, 1, 1)>>, 2), NewBudget(2, <<T(9, 1, 1)>>, 2),
     NewBudget(3, <<>>, 1), NewBudget(3, <<T(1, 1, 1)>>, 0)} : ~IsErr(b)}

Envelopes == {e \in
    {NewEnvelope("ram", id, total, rs, <<T(1, 1, 2), T(2, 2, 1)>>) :
         id \in {3, 4}, total \in {2, 4, 6},
         rs \in {<<>>, <<R(1, 1, 3)>>, <<R(2, 2, 1), R(1, 1, 2)>>, <<R(1, 1, 1), R(1, 2, 1)>>,
                 <<R(1, 1, 4), R(2, 2, 4)>>, <<R(1, 9, 1)>>}} : ~IsErr(e)}

Invariants == {v \in
    {NewInvariant(1, 1, <<2, 1>>), NewInvariant(1, 2, <<1, 2>>), NewInvariant(2, 3, <<1, 2>>),
     NewInvariant(2, 1, <<1, 9>>), NewInvariant(2, 1, <<1, 1>>)} : ~IsErr(v)}

GroupOffers ==
    [members |-> {1, 2, 3}, dependencies |-> (1 .. 3) \X (1 .. 3), budgets |-> Budgets,
     invariants |-> Invariants, envelopes |-> Envelopes]

AdviceOffers == [objectives |-> {1, 2, 3}, hints |-> {<<1, 1>>, <<2, 1>>, <<2, 2>>}]

(* Its objectives are ranked against the order of their names.             *)
AdvisedSpec == BuildSpec(1, [Empty EXCEPT !.dimensions = <<1>>, !.objectives = <<2, 1>>])

Calls == [resource |-> 4, group |-> 3, advice |-> 4]
Begins == {<<3, 1, 2>>, <<2, 1>>, <<>>}

KnownResources == <<1, 2>>

(* Capabilities of which the first two have one digest; a padded name; one *)
(* that is refused.                                                        *)
Provides(revision, total, e, w) ==
    [known |-> TRUE, provider |-> 1, revision |-> revision, total |-> total,
     experts |-> e, widths |-> w, budgets |-> <<4>>]
Capables == {Provides(1, 2, <<2, 1>>, <<3>>), Provides(1, 2, <<1>>, <<3, 2>>),
             Provides(-2, 2, <<1, 2>>, <<3>>), Provides(1, 1, <<1, 2>>, <<3>>)}

Pr(id, rank, e) == [id |-> id, rank |-> rank, experts |-> e, width |-> 3, budget |-> 4]
ProfileLists == {<<Pr(1, 5, 1), Pr(-2, 3, 2)>>, <<Pr(2, 4, 1), Pr(1, 5, 2)>>, <<Pr(2, 4, 1)>>,
                 <<Pr(1, 3, 1)>>, <<Pr(1, 4, 1), Pr(-1, 5, 2)>>, <<>>}

Ru(id, rank, free, used, e) ==
    [id |-> id, rank |-> rank, free |-> free, utilization |-> used,
     envelope |-> [experts |-> e, width |-> 4, budget |-> 4]]
RuleLists == {<<Ru(1, 2, 0, 4, 1), Ru(2, 1, 2, 3, 2)>>, <<Ru(1, 1, 1, 2, 1)>>,
              <<Ru(1, 1, 0, 4, 0)>>, <<Ru(1, 1, 0, 4, 2), Ru(2, 1, 0, 4, 1)>>}

Sn(unit, free, used) == [unit |-> unit, free |-> free, utilization |-> used]
Snapshots == {Sn(1, 2, 3), Sn(1, 1, 3), Sn(1, 0, 4), Sn(2, 2, 3), Sn(1, 2, 5)}
Observables == {[free |-> f, utilization |-> u, rank |-> r] :
                   <<f, u, r>> \in {<<4, 5, 3>>, <<4, 7, 3>>, <<4, 5, -1>>, <<1, 5, 4>>, <<0, -1, 4>>}}

-----------------------------------------------------------------------------
(* Texts: entries and items around every check of the expansion.           *)

W(w) == <<"word", w>>
C(n) == <<"custom", n>>
Arg(key, arg) == [key |-> key, arg |-> arg]
Stateful == Arg("class", W("stateful"))
Allow == Arg("allow", <<W("capacity"), W("precision")>>)
Preserve(arg, along) == [key |-> "preserve", arg |-> arg, along |-> along]
Move(key, m, d) == [key |-> key, mechanism |-> m, dimension |-> d]

Entries ==
    {Semi, Comma, Stateful, Arg("class", C(0)), Arg("id", 3), Arg("id", 0), Allow,
     Arg("allow", <<C(1)>>), Arg("allow", <<W("size")>>), Arg("allow", <<>>),
     Arg("optimize", <<W("latency"), W("energy")>>), Arg("observe", <<C(0)>>),
     Preserve(<<"contract", 1>>, <<W("capacity")>>), Preserve(<<"contents">>, <<C(1)>>),
     Move("admit", "reencode", W("precision")), Move("capability", "reencode", W("precision")),
     Move("capability", "recompute", W("precision")), Arg("label", <<1, 1>>), Arg("label", <<0, 1>>)}
Bodies == {<<Stateful, Semi, Allow, Semi, Arg("id", 2)>>, <<Stateful, Semi, Allow, Semi>>,
           <<Allow, Semi, Arg("id", 2), Semi, Arg("class", C(1)), Semi>>,
           <<Stateful, Semi, Allow, Semi, Move("admit", "reencode", W("precision")), Semi>>}

ResourceItem(name, more) ==
    [kind |-> "resource", name |-> name,
     body |-> <<Stateful, Semi, Allow, Semi, Arg("optimize", <<W("latency")>>), Semi,
                Move("admit", "reencode", W("precision"))>> \o more]

BudgetText(name, r, w, top) ==
    [name |-> name, unit |-> <<1>>, quantum |-> <<1>>, maximum |-> <<top>>,
     terms |-> <<T(r, 1, w), T(1, 2, 1)>>]
GroupItem(name, ms, ds, bs, vs) ==
    [kind |-> "group", name |-> name, members |-> ms, depends |-> ds, budgets |-> bs, invariants |-> vs]

PolicyItem(name, to, gs, cs, o, hs) ==
    [kind |-> "policy", name |-> name, id |-> <<1>>, version |-> <<1>>, target |-> to,
     predicates |-> <<[alias |-> 0, key |-> 7], [alias |-> 1, key |-> 5]>>,
     guards |-> gs, constraints |-> cs,
     objectives |-> <<[objective |-> o, unit |-> 1, quantum |-> 1]>>, hints |-> hs]
When(scope, e) == [scope |-> scope, when |-> e]
OverAliases(how, n, of) == [kind |-> how, n |-> n, of |-> of]
AliasBudget(w) ==
    [kind |-> "budget", of |-> <<>>, unit |-> <<1>>, quantum |-> <<1>>, maximum |-> <<2>>,
     terms |-> <<[predicate |-> 0, weight |-> w], [predicate |-> 1, weight |-> 1]>>]
NotBoth == G!Not(G!AllOf(<<G!Atom(0), G!Atom(1)>>))

Items ==
    {ResourceItem(1, <<>>), ResourceItem(2, <<Semi, Arg("id", 3)>>),
     ResourceItem(3, <<Semi, Semi>>), ResourceItem(9, <<>>),
     GroupItem(4, <<<<1, 2>>>>, <<<<2, 1>>>>, <<BudgetText(1, 2, 1, 2)>>,
               <<[contract |-> 1, owner |-> 1, participants |-> <<1, 2>>]>>),
     GroupItem(5, <<<<1>>>>, <<>>, <<BudgetText(1, 3, 1, 2)>>, <<>>),
     GroupItem(3, <<<<2>>>>, <<>>, <<>>, <<>>),
     GroupItem(5, <<<<1, 2>>>>, <<>>, <<BudgetText(1, 2, 0, 2)>>, <<>>),
     GroupItem(5, <<<<1>>, <<2>>>>, <<>>, <<>>, <<>>),
     PolicyItem(6, <<1>>, <<When(<<"resource">>, NotBoth)>>,
                <<OverAliases("at_most", 1, <<0, 1>>)>>, W("latency"), <<<<1, 1>>>>),
     PolicyItem(7, <<2>>, <<When(<<"transition", "reencode", W("precision")>>, G!Atom(1))>>,
                <<OverAliases("requires", 0, <<0, 1>>)>>, W("latency"), <<>>),
     PolicyItem(7, <<2>>, <<When(<<"dimension", W("energy")>>, G!Atom(1))>>,
                <<AliasBudget(1)>>, W("latency"), <<>>),
     PolicyItem(7, <<3>>, <<When(<<"resource">>, G!Atom(2))>>, <<>>, W("energy"), <<>>),
     PolicyItem(2, <<1>>, <<>>, <<>>, W("energy"), <<>>)}
Texts == {<<ResourceItem(1, <<>>)>>, <<ResourceItem(2, <<Semi, Arg("id", 3)>>), ResourceItem(1, <<>>)>>,
          <<GroupItem(3, <<<<1>>>>, <<>>, <<>>, <<>>), ResourceItem(1, <<>>)>>}

Starts == [resource |-> Bodies, document |-> Texts]
Writable == [resource |-> Entries, document |-> Items]
Lengths == [resource |-> 7, document |-> 4]

-----------------------------------------------------------------------------
(* Estimates on both sides of every bound.                                 *)

Ref(bytes, namespace, identifier) ==
    [bytes |-> bytes, namespace |-> namespace, identifier |-> identifier]
PlainRef == Ref(2, <<"word">>, <<"word", "marker">>)
References ==
    {<<PlainRef, PlainRef>>, <<PlainRef, Ref(3, <<"word">>, <<"word", "separator", "word">>)>>,
     <<PlainRef, Ref(3, <<"word">>, <<"word", "separator", "marker">>)>>,
     <<Ref(1, <<"credential">>, <<"word">>), PlainRef>>, <<Ref(4, <<"word">>, <<"word">>), PlainRef>>}

(* Amounts by dimension; the others are absent.                            *)
Amounts(of) == [d \in Dimension |-> IF d \in DOMAIN of THEN of[d] ELSE Unset]
TaskBudgets ==
    {Amounts([cpu_millis |-> 2, memory_bytes |-> 2, gpu_devices |-> 0]),
     Amounts([cpu_millis |-> 1, concurrency |-> 1]),
     Amounts([model_tokens |-> 2, energy_microjoules |-> 2, thermal_margin_millicelsius |-> 1]),
     Amounts([cpu_millis |-> 0]), Amounts([energy_microjoules |-> 0])}
TaskEstimates ==
    {Amounts([cpu_millis |-> 2, memory_bytes |-> 2, gpu_devices |-> 0]),
     Amounts([cpu_millis |-> 1, memory_bytes |-> 3, concurrency |-> 1, gpu_devices |-> 1]),
     Amounts([cpu_millis |-> 1, model_tokens |-> 2, energy_microjoules |-> 1,
              thermal_margin_millicelsius |-> 1, wall_clock_ms |-> 9]),
     Amounts([model_tokens |-> 2, energy_microjoules |-> 1, thermal_margin_millicelsius |-> 0]),
     Amounts([cpu_millis |-> 0]), Amounts(<<>>)}

Limit(state, value) == [state |-> state, value |-> value]
Host(version, cpus, quota, memory) ==
    [version |-> version, cpus |-> cpus, total |-> Unset, quota |-> quota, memory |-> memory]
Hosts ==
    {Host(2, 1, Limit("limited", 1), Limit("unbounded", Unset)),
     Host(2, Unset, Limit("limited", 2), Limit("unknown", Unset)),
     Host(2, 1, Limit("unknown", Unset), Limit("limited", 2)),
     Host(2, 1, Limit("limited", Null), Limit("limited", 2)),
     Host(1, 1, Limit("limited", 1), Limit("limited", 2)),
     Host(2, 0, Limit("limited", 1), Limit("limited", 2))}

Item(action, replay) ==
    [id |-> 1, contract |-> 1, generation |-> 1, target |-> 2, action |-> action, replay |-> replay]
Replay(window, reconstruction, verifier) ==
    <<[window |-> window, reconstruction |-> reconstruction, verifier |-> verifier]>>
CachedItems ==
    {Item("compress", <<>>), Item("offload", <<>>),
     Item("drop-and-replay", Replay(1, "approximate", 1)), Item("drop-and-replay", Replay(1, "exact", Unset)),
     Item("drop-and-replay", Replay(1, "approximate", Unset)), Item("keep", Replay(1, "exact", 1)),
     Item("drop-and-replay", Replay(0, "exact", 1)), Item("drop-and-replay", <<>>)}

Bytes(n, scope) == <<[bytes |-> n, scope |-> scope, basis |-> "measured", evidence |-> 1]>>
Lasts(n, basis) == <<[nanoseconds |-> n, basis |-> basis, evidence |-> 1]>>
Unattached == [state |-> "not-attached", verifier |-> Unset, evidence |-> Unset]
Guarded(state, verifier) == [state |-> state, verifier |-> verifier, evidence |-> 1]
Costs(resident, transferred, transfer, recompute, controller, quality) ==
    [resident |-> resident, transferred |-> transferred, transfer |-> transfer,
     recompute |-> recompute, controller |-> controller, quality |-> quality]
CostDrafts ==
    {Costs(r, <<>>, <<>>, <<>>, Lasts(1, "measured"), Unattached) :
         r \in {Bytes(1, "physical"), Bytes(1, "logical"), Bytes(3, "physical"), <<>>}} \cup
    {Costs(Bytes(1, "physical"), t, Lasts(n, "measured"), <<>>, Lasts(2, b), Unattached) :
         t \in {<<>>, Bytes(1, "physical"), Bytes(3, "physical"), Bytes(1, "logical")},
         <<n, b>> \in {<<1, "measured">>, <<1, "forecast">>, <<3, "measured">>}} \cup
    {Costs(Bytes(0, "physical"), <<>>, <<>>, Lasts(n, "measured"), c, q) :
         n \in {1, 4}, c \in {Lasts(1, "measured"), <<>>},
         q \in {Guarded("verified", 1), Guarded("verified", 2), Guarded("pending", 1), Unattached}} \cup
    {Costs(<<>>, <<>>, <<>>, <<>>, <<>>, Unattached)}
StorageLimits ==
    {[resident |-> r, transfer |-> t, latency |-> n, forecasts |-> f] :
        <<r, t, n, f>> \in {<<Unset, Unset, Unset, TRUE>>, <<Unset, Unset, Unset, FALSE>>,
            <<2, Unset, Unset, TRUE>>, <<Unset, 2, Unset, FALSE>>, <<Unset, Unset, 3, TRUE>>,
            <<2, 2, 3, FALSE>>}}

-----------------------------------------------------------------------------
(* Builders, documents, texts or estimates: those that rest keep an        *)
(* initial state.                                                          *)
VARIABLE surface
MCInit ==
    /\ surface \in {"builders", "documents", "language", "estimates"}
    /\ DeclarationInit /\ ProfileInit /\ LanguageInit /\ EstimateInit
    /\ surface # "builders" => kind = "advice"
    /\ surface # "language" => form = "resource" /\ text = <<Stateful, Semi, Allow, Semi>>
    /\ surface # "estimates" => desk = "task"
MCNext ==
    /\ UNCHANGED surface
    /\ \/ surface = "builders" /\ DeclarationNext /\ UNCHANGED <<profileVars, languageVars, estimateVars>>
       \/ surface = "documents" /\ ProfileNext /\ UNCHANGED <<allVars, languageVars, estimateVars>>
       \/ surface = "language" /\ LanguageNext /\ UNCHANGED <<allVars, profileVars, estimateVars>>
       \/ surface = "estimates" /\ EstimateNext /\ UNCHANGED <<allVars, profileVars, languageVars>>
MCSpec == MCInit /\ [][MCNext]_<<surface, allVars, profileVars, languageVars, estimateVars>>

(* Every plan that is made from a declaration, a document or an estimate.  *)
PlansAreFaithful == ModelPlanIsFaithful /\ EstimatesStand

DocumentsOnly == MCSpec /\ surface = "documents"
LanguageOnly == MCSpec /\ surface = "language"

-----------------------------------------------------------------------------
(* Three realizations, two objectives with a direction and a custom one;   *)
(* evidence of every tier, of two magnitudes and two units; and, on two    *)
(* devices, realizations on both sides of every limit.                     *)
Static == [tier |-> 1, magnitude |-> 1, unit |-> "ns"]
Measured(m, u) == [tier |-> 2, magnitude |-> m, unit |-> u]
Evidence == {UnknownEvidence, Static, Measured(1, "ns"), Measured(2, "ns"), Measured(2, "bytes")}

Directions == [latency |-> "lower", throughput |-> "higher", custom |-> "none"]

Need == [invocations |-> 4, axes |-> <<2, 2, 1>>, storage |-> 1, groups |-> 1, binding |-> 1,
         width |-> -1, features |-> {}]
OfEvidence(id, e, f) ==
    [id |-> id, resource |-> 1, contract |-> 1, requirements |-> Need,
     evidence |-> [latency |-> e, throughput |-> f]]

Measures(id, r) ==
    [id |-> id, resource |-> 1, contract |-> 1, requirements |-> r,
     evidence |-> [latency |-> Measured(1, "ns")]]
Needs ==
    {[Need EXCEPT !.axes = <<4, 1, 1>>], [Need EXCEPT !.axes = <<2, 2, 2>>],
     [Need EXCEPT !.axes = <<4, 4, 4>>], [Need EXCEPT !.invocations = 5], [Need EXCEPT !.storage = 2],
     [Need EXCEPT !.groups = 2], [Need EXCEPT !.binding = 2], [Need EXCEPT !.storage = 0],
     [Need EXCEPT !.width = 1], [Need EXCEPT !.width = 3], [Need EXCEPT !.width = 0],
     [Need EXCEPT !.features = {"matrix_ops"}], [Need EXCEPT !.features = {"shader_f16"}]}

Compared ==
    {OfEvidence(id, e, f) :
         id \in 1..3, e \in Evidence, f \in {UnknownEvidence, Measured(1, "ns"), Measured(2, "ns")}}
        \cup {Measures(1, [Need EXCEPT !.storage = 2]), [Measures(2, Need) EXCEPT !.contract = 2],
              [Measures(3, Need) EXCEPT !.resource = 2]}
Needing ==
    {Measures(1, r) : r \in Needs} \cup {Measures(0, Need), OfEvidence(2, Static, Static)}
        \cup {[Measures(2, Need) EXCEPT !.contract = 2], [Measures(3, Need) EXCEPT !.resource = 2]}

Pol(objectives, static, uncontested) ==
    [objectives |-> objectives, contract |-> 1, allowStatic |-> static, acceptUncontested |-> uncontested]
Policies ==
    {Pol(<<"latency", "throughput">>, b, FALSE) : b \in BOOLEAN} \cup
    {Pol(<<"throughput">>, FALSE, FALSE), Pol(<<"latency">>, FALSE, TRUE)}
Custom == Pol(<<"latency", "custom">>, TRUE, FALSE)

Device == [invocations |-> 4, axes |-> <<2, 2, 2>>, workgroups |-> 2, storage |-> 1, groups |-> 1,
           binding |-> 1, subgroup |-> [supported |-> FALSE, range |-> <<>>],
           features |-> [shader_f16 |-> "unknown", matrix_ops |-> "known-true"]]
Larger == [Device EXCEPT !.axes = <<4, 4, 4>>, !.storage = 2, !.groups = 2,
                         !.subgroup = [supported |-> TRUE, range |-> <<2, 2>>],
                         !.features = [shader_f16 |-> "known-true", matrix_ops |-> "known-false"]]
Fallback == Pol(<<"latency">>, TRUE, TRUE)
Settings == (Policies \X {Device}) \cup ({Fallback} \X {Device, Larger}) \cup {<<Custom, Device>>}
Candidates == [x \in Settings |-> IF x[1] \in Policies THEN Compared ELSE Needing]
=============================================================================

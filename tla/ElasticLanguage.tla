--------------------------- MODULE ElasticLanguage ---------------------------
(***************************************************************************)
(* The embedded language (elastic-language-syntax, and what elastic adds   *)
(* around it): a resource is declared by an attribute on a struct or by a  *)
(* text of `elastic!`, a document by a text of resources, groups and       *)
(* policies.  A text is refused when it is expanded; what an accepted text *)
(* expands to calls the ordinary builders, which may still refuse.         *)
(*                                                                         *)
(* Text is abstracted to what is written: an entry is a record with its    *)
(* key, a group, a policy and a budget list under each keyword what is     *)
(* written with it, an expression is its tree.  Names of modules, texts    *)
(* and keys of predicates are numbers, 0 for a blank or an invalid one; a  *)
(* module and the text of its name have one number.  A term is             *)
(* <<"word", w>> or <<"custom", n>>; an alias is a natural number.         *)
(***************************************************************************)
EXTENDS ResourceGroup, Integers

CONSTANTS
    Reserved,     \* names the generated API takes: document, grouped_document
    CustomBase,   \* above every number of a word: custom terms come after
    MaxGroups,    \* MAX_EIR_RESOURCE_GROUPS
    Started,      \* [form -> what a text starts with]
    Ready,        \* [form -> what may be written next]
    MaxWritten    \* bound: [form -> length of a text]

G == INSTANCE PolicyAnalysis

-----------------------------------------------------------------------------
(* Vocabulary: the place of a word in its table is its value.  (Spellings  *)
(* with a dash are in the tables, but are no identifiers.)                 *)

Vocabulary == [
    dimension |-> <<"capacity", "concurrency", "residency", "locality", "representation",
                    "precision", "parallelism", "routing", "redundancy", "persistence",
                    "recomputability", "bandwidth", "energy">>,
    objective |-> <<"latency", "throughput", "memory_footprint", "energy", "migration_cost",
                    "stability">>,
    class |-> <<"stock", "capacity_resource", "rate", "exclusive", "shared", "stateful",
                "representational", "configurational">>,
    signal |-> <<"free_capacity", "utilization", "queue_depth", "latency_sample",
                 "thermal_margin", "energy_rate", "topology_change">>,
    mechanism |-> <<"reinterpret", "reencode", "recompute">>]

IndexIn(table, word) == CHOOSE i \in DOMAIN Vocabulary[table] : Vocabulary[table][i] = word

KnownTerm(table, t) == t[1] = "custom" \/ Contains(Vocabulary[table], t[2])

(* The constant a word stands for, or a term of the caller's.              *)
TermValue(table, t) == IF t[1] = "custom" THEN CustomBase + t[2] ELSE IndexIn(table, t[2])
Blank(t) == t = <<"custom", 0>>

-----------------------------------------------------------------------------
(* The entries of one resource:                                            *)
(*   [key, arg] for class (a term), id (a text), allow, optimize and       *)
(*   observe (lists of terms), label <<key, value>>;                       *)
(*   [key, arg, along] for preserve: contents, identity, or contract with  *)
(*   its name, along at most one dimension;                                *)
(*   [key, mechanism, dimension] for admit and capability.                 *)

ListTable == [allow |-> "dimension", optimize |-> "objective", observe |-> "signal"]

(* Entry::parse.                                                           *)
ParsesEntry(e) ==
    \/ e.key = "class" /\ KnownTerm("class", e.arg)
    \/ e.key \in DOMAIN ListTable /\ e.arg # <<>>
         /\ \A i \in DOMAIN e.arg : KnownTerm(ListTable[e.key], e.arg[i])
    \/ e.key = "preserve" /\ e.arg[1] \in {"contents", "identity", "contract"}
         /\ \A i \in DOMAIN e.along : KnownTerm("dimension", e.along[i])
    \/ e.key \in {"admit", "capability"} /\ Contains(Vocabulary.mechanism, e.mechanism)
         /\ KnownTerm("dimension", e.dimension)
    \/ e.key \in {"id", "label"}

With(key, entries) == SelectSeq(entries, LAMBDA e : e.key = key)

(* analyze_entries, after every entry was parsed.                          *)
EntriesError(entries) == FirstFailure(<<
    <<\E i \in DOMAIN entries : ~ParsesEntry(entries[i]), "Malformed">>,
    <<Len(With("class", entries)) > 1 \/ Len(With("id", entries)) > 1, "DuplicateKey">>,
    <<With("class", entries) = <<>>, "MissingClass">>,
    <<With("allow", entries) = <<>>, "MissingElasticity">> >>)

Listed(key, entries) == FlattenSeq([i \in DOMAIN With(key, entries) |-> With(key, entries)[i].arg])
ValuesOf(key, entries) ==
    [i \in DOMAIN Listed(key, entries) |-> TermValue(ListTable[key], Listed(key, entries)[i])]
InvariantKind(arg) ==
    CASE arg[1] = "contents" -> 1 [] arg[1] = "identity" -> 2 [] arg[1] = "contract" -> 2 + arg[2]
At(e) == <<IndexIn("mechanism", e.mechanism), TermValue("dimension", e.dimension)>>

(* The builder calls the entries stand for.                                *)
PartsOf(entries) ==
    LET preserved == With("preserve", entries)
    IN  [dimensions |-> ValuesOf("allow", entries),
         objectives |-> ValuesOf("optimize", entries),
         observations |-> ValuesOf("observe", entries),
         invariants |-> [i \in DOMAIN preserved |->
             <<InvariantKind(preserved[i].arg),
               IF preserved[i].along = <<>> THEN 0
               ELSE TermValue("dimension", preserved[i].along[1])>>],
         transitions |-> [i \in DOMAIN With("admit", entries) |-> At(With("admit", entries)[i])],
         capabilities |->
             [i \in DOMAIN With("capability", entries) |-> At(With("capability", entries)[i])],
         labels |-> [i \in DOMAIN With("label", entries) |-> With("label", entries)[i].arg]]

(* A term or a name of a contract that its constructor refuses.            *)
HasBlank(e) ==
    \/ e.key \in DOMAIN ListTable /\ \E i \in DOMAIN e.arg : Blank(e.arg[i])
    \/ e.key = "preserve" /\ (e.arg = <<"contract", 0>> \/ \E i \in DOMAIN e.along : Blank(e.along[i]))
    \/ e.key \in {"admit", "capability"} /\ Blank(e.dimension)

OfClass(class, spec) ==
    IF IsErr(spec) THEN spec
    ELSE [class |-> TermValue("class", class), id |-> spec.id, parts |-> spec.parts]

(* The generated resource_spec(); an id that is not written is the name.   *)
SpecOf(name, entries) ==
    LET class == With("class", entries)[1].arg
        id == IF With("id", entries) = <<>> THEN name ELSE With("id", entries)[1].arg
    IN  CASE Blank(class) -> Err("InvalidCustomTerm")
          [] id = 0 -> Err("EmptyResourceId")
          [] \E i \in DOMAIN entries : HasBlank(entries[i]) -> Err("InvalidCustomTerm")
          [] OTHER -> OfClass(class, BuildSpec(id, PartsOf(entries)))

(* #[derive(ElasticResource)] on a type with these attributes.             *)
Derive(isStruct, attributes) ==
    LET entries == FlattenSeq(attributes)
    IN  CASE ~isStruct -> Err("NotAStruct")
          [] attributes = <<>> -> Err("MissingAttribute")
          [] EntriesError(entries) # "none" -> Err(EntriesError(entries))
          [] OTHER -> [entries |-> entries]

-----------------------------------------------------------------------------
(* `elastic! { resource NAME { ... } }`: entries, each ended by a          *)
(* semicolon except perhaps the last.                                      *)

Semi == [key |-> ";"]
Comma == [key |-> ","]

SplitEntries(body) ==
    LET piece(s, token) ==
            CASE s.refused -> s
              [] token = Comma \/ (token = Semi /\ s.current = <<>>) -> [s EXCEPT !.refused = TRUE]
              [] token = Semi -> [s EXCEPT !.pieces = Append(@, s.current), !.current = <<>>]
              [] OTHER -> [s EXCEPT !.current = Append(@, token)]
        ended == FoldLeft(piece, [refused |-> FALSE, pieces |-> <<>>, current |-> <<>>], body)
    IN  IF ended.refused \/ ended.current = <<>> THEN ended
        ELSE [ended EXCEPT !.pieces = Append(@, ended.current)]


(* expand_resource_module: a struct with the derive, in a module.          *)
ModuleOf(name, entries) ==
    IF EntriesError(entries) # "none" THEN Err(EntriesError(entries))
    ELSE [name |-> name,
          attribute |-> IF With("id", entries) = <<>>
                        THEN <<[key |-> "id", arg |-> name]>> \o entries ELSE entries]
ExpandPieces(name, split) ==
    CASE split.refused -> Err("Separator")
      [] split.pieces = <<>> -> Err("EmptyBody")
      [] \E i \in DOMAIN split.pieces : Len(split.pieces[i]) > 1 -> Err("Malformed")
      [] OTHER -> ModuleOf(name, FlattenSeq(split.pieces))
ExpandResource(name, body) == ExpandPieces(name, SplitEntries(body))

(* Calling resource_spec() of the module.                                  *)
CallDerived(name, derived) == IF IsErr(derived) THEN derived ELSE SpecOf(name, derived.entries)
CallResource(module) == CallDerived(module.name, Derive(TRUE, <<module.attribute>>))

-----------------------------------------------------------------------------
(* `group NAME { ... }` and `policy NAME { ... }` in a document.           *)
(*   group      [kind, name, members (a list for each members(...)),       *)
(*              depends, budgets, invariants]                              *)
(*   budget     [name, unit, quantum, maximum (lists), terms]              *)
(*   policy     [kind, name, id, version, target (lists), predicates,      *)
(*              guards, constraints, objectives, hints]                    *)

Once(list) == Len(list) = 1
Names(list) == [i \in DOMAIN list |-> list[i].name]

(* parse_signed_i128: the magnitude is read first, so the least integer    *)
(* cannot be written.                                                      *)
ParsesSigned(v) == v \in -MaxSum .. MaxSum

(* parse_budget_dsl, and the budget of a policy's constraint.              *)
ParsesBudget(b) ==
    /\ Once(b.unit) /\ Once(b.quantum) /\ Once(b.maximum)
    /\ ParsesSigned(b.maximum[1])
    /\ b.terms # <<>> /\ \A i \in DOMAIN b.terms : ParsesSigned(b.terms[i].weight)

(* parse_group_dsl.                                                        *)
ParsesGroup(g) ==
    /\ Once(g.members) /\ g.members[1] # <<>>
    /\ \A i \in DOMAIN g.budgets : ParsesBudget(g.budgets[i])
    /\ ~Repeats(Names(g.budgets))
    /\ \A i \in DOMAIN g.invariants : g.invariants[i].participants # <<>>

GroupNamesBeforeBudgets(g) ==   \* mutant: the terms of budgets are not looked at
    Elements(g.members[1]) \cup UNION {{e[1], e[2]} : e \in Elements(g.depends)}
    \cup UNION {{v.owner} \cup Elements(v.participants) : v \in Elements(g.invariants)}

(* The resources a group names (validate_group_references).                *)
GroupNames(g) ==
    Elements(g.members[1]) \cup UNION {{e[1], e[2]} : e \in Elements(g.depends)}
    \cup UNION {{t.resource : t \in Elements(b.terms)} : b \in Elements(g.budgets)}
    \cup UNION {{v.owner} \cup Elements(v.participants) : v \in Elements(g.invariants)}

ParsesScope(scope) ==
    CASE scope[1] = "resource" -> TRUE
      [] scope[1] = "dimension" -> KnownTerm("dimension", scope[2])
      [] scope[1] = "transition" ->
            Contains(Vocabulary.mechanism, scope[2]) /\ KnownTerm("dimension", scope[3])

(* parse_policy_constraint_dsl.                                            *)
ParsesConstraint(c) ==
    CASE c.kind \in {"at_most", "at_least", "exactly"} -> c.of # <<>>
      [] c.kind \in {"requires", "equivalent"} -> Len(c.of) = 2
      [] c.kind = "budget" -> ParsesBudget(c)

(* The aliases a constraint or a guard names.                              *)
ConstraintAliases(c) ==
    IF c.kind = "budget" THEN {t.predicate : t \in Elements(c.terms)} ELSE Elements(c.of)
GuardAliases(g) == G!Predicates(g.when)

AliasesOf(p) == [i \in DOMAIN p.predicates |-> p.predicates[i].alias]

(* validate_policy_alias_references.                                       *)
AliasesDeclared(p) ==
    UNION {GuardAliases(g) : g \in Elements(p.guards)}
    \cup UNION {ConstraintAliases(c) : c \in Elements(p.constraints)}
        \subseteq Elements(AliasesOf(p))

ParsesAdvice(p) == \A i \in DOMAIN p.objectives : KnownTerm("objective", p.objectives[i].objective)

(* What every policy must have.                                            *)
Complete(p) == <<>> \notin {p.id, p.version, p.target}

(* parse_policy_dsl.                                                       *)
PolicyTextError(p) == FirstFailure(<<
    <<Len(p.id) > 1 \/ Len(p.version) > 1 \/ Len(p.target) > 1, "Twice">>,
    <<Repeats(AliasesOf(p)), "ELX-LANG-0002">>,
    <<\/ \E i \in DOMAIN p.guards : ~ParsesScope(p.guards[i].scope)
      \/ \E i \in DOMAIN p.constraints : ~ParsesConstraint(p.constraints[i])
      \/ ~ParsesAdvice(p), "Malformed">>,
    <<~Complete(p), "ELX-LANG-0004">>,
    <<~AliasesDeclared(p), "ELX-LANG-0003">> >>)

-----------------------------------------------------------------------------
(* `document NAME { ... }`: the items in their order.  A name is compared  *)
(* with the items before it only, and a resource's not with a group's.     *)

NoItems == [error |-> "none", resources |-> <<>>, groups |-> <<>>, policies |-> <<>>]

TakenForBesidesResources(d, item) ==   \* mutant: a policy may bear a resource's name
    CASE item.kind = "resource" -> Elements(Names(d.resources)) \cup Reserved
      [] item.kind = "group" -> Elements(Names(d.resources)) \cup Elements(Names(d.groups))
      [] item.kind = "policy" ->
            Reserved \cup Elements(Names(d.groups)) \cup Elements(Names(d.policies))

TakenFor(d, item) ==
    CASE item.kind = "resource" -> Elements(Names(d.resources)) \cup Reserved
      [] item.kind = "group" -> Elements(Names(d.resources)) \cup Elements(Names(d.groups))
      [] item.kind = "policy" -> Reserved \cup Elements(Names(d.resources))
            \cup Elements(Names(d.groups)) \cup Elements(Names(d.policies))

ItemError(d, item) == FirstFailure(<<
    <<item.kind = "group" /\ ~ParsesGroup(item), "Group">>,
    <<item.kind = "policy" /\ PolicyTextError(item) # "none", "Policy">>,
    <<item.name \in TakenFor(d, item), "DuplicateName">> >>)

ListFor == [resource |-> "resources", group |-> "groups", policy |-> "policies"]

ParseItem(d, item) ==
    CASE d.error # "none" -> d
      [] ItemError(d, item) # "none" -> [d EXCEPT !.error = ItemError(d, item)]
      [] OTHER -> [d EXCEPT ![ListFor[item.kind]] = Append(@, item)]

ReferencesResolve(d) ==
    LET resources == Elements(Names(d.resources))
    IN  /\ \A g \in Elements(d.groups) : GroupNames(g) \subseteq resources
        /\ \A p \in Elements(d.policies) : p.target[1] \in resources

(* ElasticDslInput::parse of a document.                                   *)
Resolved(d) ==
    CASE d.error # "none" -> Err(d.error)
      [] d.resources = <<>> -> Err("NoResource")
      [] ~ReferencesResolve(d) -> Err("ELX-LANG-0001")
      [] OTHER -> d
ParseDocument(items) == Resolved(FoldLeft(ParseItem, NoItems, items))

FirstOf(bad) == IF bad = <<>> THEN "none" ELSE Head(bad).error
FirstErr(list) == FirstOf(SelectSeq(list, IsErr))

(* expand_document_module: every resource as a module; the counts are      *)
(* asserted when the module is compiled.                                   *)
DocumentModule(d, modules) ==
    CASE FirstErr(modules) # "none" -> Err(FirstErr(modules))
      [] Len(d.resources) > MaxResources \/ Len(d.groups) > MaxGroups -> Err("TooMany")
      [] OTHER -> [modules |-> modules, groups |-> d.groups, policies |-> d.policies]
ExpandDocument(d) ==
    IF IsErr(d) THEN d
    ELSE DocumentModule(d, [i \in DOMAIN d.resources |->
                               ExpandResource(d.resources[i].name, d.resources[i].body)])

-----------------------------------------------------------------------------
(* What the generated functions return.                                    *)

SpecsOf(x) == [i \in DOMAIN x.modules |-> CallResource(x.modules[i])]

(* The specifications, by the names of their modules.                      *)
Named(modules, specs) ==
    [name \in {modules[i].name : i \in DOMAIN modules} |->
        specs[CHOOSE i \in DOMAIN modules : modules[i].name = name]]

(* document().                                                             *)
LowerOf(specs) == IF FirstErr(specs) # "none" THEN Err(FirstErr(specs)) ELSE LowerSpecs(specs)
CallDocument(x) == LowerOf(SpecsOf(x))

ScaleError(b) == b.unit[1] = 0 \/ b.quantum[1] = 0

(* One budget of a group, its resources by the ids of their modules.       *)
CallBudget(b, ids) ==
    CASE \E t \in Elements(b.terms) : t.predicate = 0 -> Err("Predicate")
      [] \E t \in Elements(b.terms) : t.weight <= 0 -> Err("NonPositiveWeight")
      [] ScaleError(b) -> Err("Scale")
      [] OTHER -> NewBudget(b.name, [i \in DOMAIN b.terms |->
                      [b.terms[i] EXCEPT !.resource = ids[@]]], b.maximum[1])

CallInvariant(v, ids) ==
    IF v.contract = 0 THEN Err("InvalidCustomTerm")
    ELSE NewInvariant(v.contract, ids[v.owner],
                      [i \in DOMAIN v.participants |-> ids[v.participants[i]]])

GroupFrom(g, ids, budgets, invariants) ==
    IF FirstErr(budgets \o invariants) # "none" THEN Err(FirstErr(budgets \o invariants))
    ELSE BuildGroup(g.name,
             [members |-> [i \in DOMAIN g.members[1] |-> ids[g.members[1][i]]],
              dependencies |-> [i \in DOMAIN g.depends |->
                                   <<ids[g.depends[i][1]], ids[g.depends[i][2]]>>],
              budgets |-> budgets, invariants |-> invariants, envelopes |-> <<>>])
CallGroup(g, ids) ==
    GroupFrom(g, ids, [i \in DOMAIN g.budgets |-> CallBudget(g.budgets[i], ids)],
              [i \in DOMAIN g.invariants |-> CallInvariant(g.invariants[i], ids)])

(* grouped_document(), of a document that lowers.                          *)
Grouped(document, groups) ==
    IF FirstErr(groups) # "none" THEN Err(FirstErr(groups)) ELSE GroupedDocument(document, groups)
GroupsBy(x, ids) == [i \in DOMAIN x.groups |-> CallGroup(x.groups[i], ids)]
CallGrouped(x, document, specs) ==
    IF IsErr(document) THEN document
    ELSE Grouped(document, GroupsBy(x, [name \in DOMAIN specs |-> specs[name].id]))

(* An alias is bound to a key of a predicate, and an atom finds the place  *)
(* of its key in the registry of the policy (ElasticPredicates::atom).     *)
KeysByAlias(p) ==
    [n \in 1 .. 1 + FoldLeft(LAMBDA m, q : IF q.alias > m THEN q.alias ELSE m, 0, p.predicates) |->
        LET bound == SelectSeq(p.predicates, LAMBDA q : q.alias = n - 1)
        IN  IF bound = <<>> THEN 0 ELSE bound[1].key]
KeyOf(p, alias) == KeysByAlias(p)[alias + 1]

ScopeValue(scope) ==
    CASE scope[1] = "resource" -> scope
      [] scope[1] = "dimension" -> <<"dimension", TermValue("dimension", scope[2])>>
      [] scope[1] = "transition" -> <<"transition", IndexIn("mechanism", scope[2]),
                                      TermValue("dimension", scope[3])>>

(* elastic_guard!.                                                         *)
Refusing(made, name) == IF made.refused THEN Err(name) ELSE made
CallGuard(p, g) ==
    LET keys == {q.key : q \in Elements(p.predicates)}
    IN  Refusing(G!NewGuard(ScopeValue(g.scope), keys,
                            G!Remap(g.when, KeysByAlias(p), G!FromKeys(keys))), "Guard")

(* One constraint of a policy, over keys.                                  *)
CallConstraint(p, c) ==
    LET keys == [i \in DOMAIN c.of |-> KeyOf(p, c.of[i])]
    IN  Refusing(CASE c.kind = "at_most" -> P!AtMost(keys, c.n)
                   [] c.kind = "at_least" -> P!AtLeast(keys, c.n)
                   [] c.kind = "exactly" -> P!Exactly(keys, c.n)
                   [] c.kind = "requires" -> P!Requires(keys[1], keys[2])
                   [] c.kind = "equivalent" -> P!Equivalent(keys[1], keys[2])
                   [] c.kind = "budget" ->
                        IF ScaleError(c) THEN P!Refused
                        ELSE P!CapacityBudget([i \in DOMAIN c.terms |->
                                 [c.terms[i] EXCEPT !.predicate = KeyOf(p, @)]], c.maximum[1]),
                 "Constraint")

(* Numeric objectives and hints, each checked by its constructor.          *)
CallAdvice(p) == FirstFailure(<<
    <<\E o \in Elements(p.objectives) : Blank(o.objective), "InvalidCustomTerm">>,
    <<\E o \in Elements(p.objectives) : o.unit = 0 \/ o.quantum = 0, "Scale">>,
    <<\E h \in Elements(p.hints) : h[1] = 0 \/ h[2] = 0, "Hint">> >>)

(* What guards are bound to: the resource's dimensions and transitions.    *)
Guardable(spec) ==
    [elastic |-> Elements(spec.parts.dimensions),
     transitions |-> [i \in DOMAIN spec.parts.transitions |->
         [mechanism |-> spec.parts.transitions[i][1], dimension |-> spec.parts.transitions[i][2]]]]

BlankScope(g) == g.scope[1] # "resource" /\ Blank(g.scope[Len(g.scope)])

(* policy_spec(), for the specification of its target.                     *)
BuildPolicy(spec, p, guards, constraints) ==
    LET objectives == [i \in DOMAIN p.objectives |->
                          TermValue("objective", p.objectives[i].objective)]
        advice == Advise(spec, objectives, p.hints)
    IN  IF FirstErr(guards \o constraints) # "none" THEN Err(FirstErr(guards \o constraints))
        ELSE IF PolicyError(<<"resource", spec.id>>, spec, Len(constraints)) # "none"
             THEN Err(PolicyError(<<"resource", spec.id>>, spec, Len(constraints)))
        ELSE IF ~G!Bindable(Guardable(spec), guards) THEN Err("GuardBinding")
        ELSE IF CallAdvice(p) # "none" THEN Err(CallAdvice(p))
        ELSE IF IsErr(advice) THEN advice
        ELSE [target |-> spec.id, guards |-> guards, constraints |-> constraints, advice |-> advice]
CallPolicy(spec, p) ==
    CASE IsErr(spec) -> spec
      [] \E q \in Elements(p.predicates) : q.key = 0 -> Err("Predicate")
      [] p.id[1] = 0 -> Err("PolicyId")
      [] \E i \in DOMAIN p.guards : BlankScope(p.guards[i]) -> Err("InvalidCustomTerm")
      [] OTHER -> BuildPolicy(spec, p, [i \in DOMAIN p.guards |-> CallGuard(p, p.guards[i])],
                     [i \in DOMAIN p.constraints |-> CallConstraint(p, p.constraints[i])])

-----------------------------------------------------------------------------
(* Writing a text, and expanding it.                                       *)

VARIABLES
    form,       \* "resource" or "document"
    text,       \* the body of the resource, or the items of the document
    expanded    \* what it expands to; NotYet before

languageVars == <<form, text, expanded>>
NotYet == Err("not expanded")

(* expand_elastic_tokens; the resource is called 1.                        *)
Expansion(f, t) ==
    IF f = "resource" THEN ExpandResource(1, t) ELSE ExpandDocument(ParseDocument(t))

LanguageInit == form \in {"resource", "document"} /\ text \in Started[form] /\ expanded = NotYet

WriteText ==
    /\ expanded = NotYet /\ Len(text) < MaxWritten[form]
    /\ \E token \in Ready[form] : text' = Append(text, token)
    /\ UNCHANGED <<form, expanded>>

ExpandText ==
    /\ expanded = NotYet
    /\ expanded' = Expansion(form, text)
    /\ UNCHANGED <<form, text>>

LanguageNext == WriteText \/ ExpandText

-----------------------------------------------------------------------------
(* Properties.                                                             *)

Accepted == expanded # NotYet /\ ~IsErr(expanded)

(* What an accepted body means is what its entries say, in any order that  *)
(* keeps the objectives and the labels in theirs; and it is what the       *)
(* attribute with these entries means.                                     *)
BodyMeans(entries) ==
    LET spec == CallResource(expanded)
        attribute == Derive(TRUE, <<entries>>)
        class == With("class", entries)
        turned == class \o Reverse(SelectSeq(entries, LAMBDA e : e.key \in
                                       {"id", "allow", "preserve", "admit", "capability", "observe"}))
                  \o With("optimize", entries) \o With("label", entries)
    IN  /\ ~IsErr(attribute)
        /\ spec = SpecOf(1, entries)
        /\ spec = SpecOf(1, turned)
        /\ ~IsErr(spec) =>
             spec.id = (IF With("id", entries) = <<>> THEN 1 ELSE With("id", entries)[1].arg)

(* The modules an accepted document expands to, resources and policies,    *)
(* stand side by side.                                                     *)
ModulesDistinct == ~Repeats(Names(expanded.modules) \o Names(expanded.policies))

(* Items of an accepted document share a name only where a resource comes  *)
(* after the policy or the group of its name: nothing else goes unnoticed. *)
OnlyLateResourcesCollide ==
    \A i, j \in DOMAIN text : i < j /\ text[i].name = text[j].name =>
        text[i].kind # "resource" /\ text[j].kind = "resource"

(* Every name an accepted document refers to is a module's; the document's *)
(* groups name its resources; the functions refuse only what the caller    *)
(* wrote, never a target or a reference that the expansion made.           *)
PolicyMeans(spec, policy) ==
    IF IsErr(policy)
    THEN policy.error \notin {"TargetKindMismatch", "TargetResourceMismatch", "DuplicateKey"}
    ELSE policy.target = spec.id
GroupsMean(specs, document, grouped) ==
    IF IsErr(grouped) THEN grouped.error # "UnknownResource"
    ELSE \A g \in Elements(expanded.groups) : \A m \in Elements(g.members[1]) :
            GroupResource(grouped, g.name, specs[m].id) = Resource(document, specs[m].id)
CallsMean(specs, document) ==
    /\ \A i \in DOMAIN expanded.modules : ~IsErr(Derive(TRUE, <<expanded.modules[i].attribute>>))
    /\ \A g \in Elements(expanded.groups) :
         /\ GroupNames(g) \subseteq DOMAIN specs
         /\ \A b \in Elements(g.budgets) : \A t \in Elements(b.terms) : t.resource \in DOMAIN specs
    /\ \A p \in Elements(expanded.policies) :
         /\ p.target[1] \in DOMAIN specs
         /\ PolicyMeans(specs[p.target[1]], CallPolicy(specs[p.target[1]], p))
    /\ ~IsErr(document) /\ expanded.groups # <<>> =>
         GroupsMean(specs, document, CallGrouped(expanded, document, specs))
DocumentMeans ==
    CallsMean(Named(expanded.modules, SpecsOf(expanded)), CallDocument(expanded))

SameDocument(other) ==
    /\ IsErr(other) = IsErr(expanded)
    /\ Accepted => CallDocument(other) = CallDocument(expanded)

(* Items that all differ in name may be written in any order.              *)
ItemOrderIrrelevant ==
    ~Repeats(Names(text)) =>
        SameDocument(Expansion("document", Reverse(text)))


(* A declaration that collides with another of its scope is refused (the   *)
(* diagnostic ELX-LANG-0002, and the refusal of a "colliding policy        *)
(* module"), so an accepted document has no two modules of one name.  Of a *)
(* policy followed by a resource this is not so: a resource's name is      *)
(* compared with those of resources only.                                  *)
ModulesAreDistinct == form = "document" /\ Accepted => ModulesDistinct
=============================================================================

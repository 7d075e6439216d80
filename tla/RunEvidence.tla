------------------------------ MODULE RunEvidence ------------------------------
(***************************************************************************)
(* What is made of the trail of a run: the evidence documents              *)
(* (evidence.rs, model_execution_evidence.rs, elastic-cli), and what is    *)
(* read back from such a document after it was changed on disk.            *)
(***************************************************************************)
EXTENDS RunTrail, Documents

CONSTANTS
  MaxPaths,     \* MAX_EVIDENCE_DIFF_PATHS
  MaxId,        \* the longest resource identity
  Altered,      \* bound: the outcomes of the cycles whose evidence is changed
  OtherTexts    \* what a part of a document may be replaced with

EvidenceAssumption ==
  /\ Candidate \subseteq Nat
  /\ {MaxPaths, MaxId} \subseteq Nat \ {0}

VARIABLES
  document,     \* the evidence captured from a completed run
  file          \* the document as it is read back

documentVars == <<document, file>>
evidenceVars == <<controlVars, trailVars, documentVars>>

-----------------------------------------------------------------------------
EvidenceInit ==
  /\ RunInit
  /\ document = None /\ file = None

(* The documents: one made of a run, of the one cycle of apply, of the     *)
(* configured controllers (two, whose runs went alike), or of a cycle of a *)
(* model loop.                                                             *)

EventOf(kind) == Object([kind |-> Text(kind), details |-> Text("details")])
EventsOf(kinds) == Array([i \in DOMAIN kinds |-> EventOf(kinds[i])])

Outcome(r) ==
  [committed |-> Flag(r.committed), rolled_back |-> Flag(r.rolledBack),
   verification |-> IF r.verification = "none" THEN Null ELSE Text(r.verification),
   events |-> EventsOf(r.events)]
CycleDocument(i, r) ==
  Object([index |-> Number(i - 1), validated |-> Flag(r.validated)] @@ Outcome(r))
Cycles == Array([i \in DOMAIN completed |-> CycleDocument(i, completed[i])])

Reported(id) ==
  [resource_id |-> Text(id), stop_reason |-> Text(stop[Loop]), cycles |-> Cycles,
   events |-> EventsOf(journal)]
RunDocument == Object([command |-> Text("run")] @@ Reported("one"))
ConfiguredDocument ==
  Object([command |-> Text("run"),
          controllers |-> Array(<<Object(Reported("one")), Object(Reported("two"))>>)])
ApplyDocument ==
  Object([command |-> Text("apply"), resource_id |-> Text("one")] @@ Outcome(completed[1]))

(* EvidenceEnvelope::capture names the schema of a document without one. *)
Capture(v) ==
  IF "evidence_schema" \in DOMAIN v.fields THEN v
  ELSE Object([evidence_schema |-> Text("v1")] @@ v.fields)

-----------------------------------------------------------------------------
(* Reading: validate_shape, then the two leading fields, then the meaning. *)

RECURSIVE Nodes(_)
Nodes(v) == FoldLeft(LAMBDA n, step : n + Nodes(Child(v, step)), 1, Steps(v))

RECURSIVE ShapeHolds(_, _)
ShapeHolds(v, depth) ==
  /\ depth <= MaxDepth /\ Cardinality(StepsOf(v)) <= MaxItems
  /\ v.kind = "text" => Len(BytesOf(v.text)) <= MaxText
  /\ \A step \in StepsOf(v) :
       /\ step[1] = "key" => Len(BytesOf(step[2])) <= MaxText
       /\ ShapeHolds(Child(v, step), depth + 1)
ValidateShape(v) == Nodes(v) <= MaxNodes /\ ShapeHolds(v, 0)

EvidenceCommand ==
  {"inspect", "observe", "plan", "doctor", "validate", "apply", "run", "watch", "explain",
   "replay", "diff", "guard-check", "guard-list", "guard-fingerprint", "guard-eval",
   "guard-explain", "guard-analyze", "guard-plan-dry-run"}

ValidId(v) ==
  /\ v.kind = "text"
  /\ Len(BytesOf(v.text)) \in 1..MaxId
  /\ "control" \notin Range(BytesOf(v.text))

ValidEvent(v) ==
  /\ IsObject(v) /\ DOMAIN v.fields = {"kind", "details"}
  /\ HasText(v, "kind") /\ TextOf(v, "kind") \in EventKind
  /\ HasText(v, "details")
ValidEvents(v) == v.kind = "array" /\ \A e \in Range(v.items) : ValidEvent(e)

EventKindPresent(events, kind) ==
  \E e \in Range(events.items) : HasText(e, "kind") /\ TextOf(e, "kind") = kind
Says(v, key, b) == Has(v, key) /\ v.fields[key] = Flag(b)

FlagsOneWay(v) ==    \* mutant: a flag that is set needs its event, an event no flag
  LET flags == {"committed", "rolled_back"} \cap DOMAIN v.fields
  IN /\ \A f \in flags : v.fields[f].kind = "bool"
     /\ ~(Says(v, "committed", TRUE) /\ Says(v, "rolled_back", TRUE))
     /\ flags # {} => Has(v, "events") /\ v.fields["events"].kind = "array"
     /\ \A f \in flags :
          Says(v, f, TRUE) => EventKindPresent(v.fields["events"],
            IF f = "committed" THEN "CommitExecuted" ELSE "RollbackExecuted")

ValidateTransactionFlags(v) ==
  LET flags == {"committed", "rolled_back"} \cap DOMAIN v.fields
  IN /\ \A f \in flags : v.fields[f].kind = "bool"
     /\ ~(Says(v, "committed", TRUE) /\ Says(v, "rolled_back", TRUE))
     /\ flags # {} =>
          /\ Has(v, "events") /\ v.fields["events"].kind = "array"
          /\ \A f \in flags :
               Says(v, f, EventKindPresent(v.fields["events"],
                 IF f = "committed" THEN "CommitExecuted" ELSE "RollbackExecuted"))

ValidControllers(v) ==
  /\ v.kind = "array"
  /\ \A c \in Range(v.items) : Has(c, "resource_id") /\ ValidId(c.fields["resource_id"])
  /\ \A i, j \in DOMAIN v.items :
       i # j => v.items[i].fields["resource_id"] # v.items[j].fields["resource_id"]

RECURSIVE ValidateSemantics(_)
ValidateSemantics(v) ==
  /\ IsObject(v) =>
       /\ Has(v, "resource_id") => ValidId(v.fields["resource_id"])
       /\ Has(v, "events") => ValidEvents(v.fields["events"])
       /\ ValidateTransactionFlags(v)
       /\ Has(v, "controllers") => ValidControllers(v.fields["controllers"])
  /\ \A step \in StepsOf(v) : ValidateSemantics(Child(v, step))

FromValue(v) ==
  /\ ValidateShape(v)
  /\ HasText(v, "evidence_schema") /\ TextOf(v, "evidence_schema") = "v1"
  /\ HasText(v, "command") /\ TextOf(v, "command") \in EvidenceCommand
  /\ ValidateSemantics(v)

-----------------------------------------------------------------------------
(* replay: what a document says, its events counted once where they are.   *)

KindCount(events, kind) ==
  Cardinality({i \in DOMAIN events.items : TextOf(events.items[i], "kind") = kind})

Added(a, b) ==
  [ids |-> a.ids \cup b.ids, events |-> a.events + b.events,
   commits |-> a.commits + b.commits, rollbacks |-> a.rollbacks + b.rollbacks]
RECURSIVE Summary(_)
Summary(v) ==
  LET events == v.fields["events"]
      counted ==
        [ids |-> IF Has(v, "resource_id") THEN {TextOf(v, "resource_id")} ELSE {},
         events |-> IF Has(v, "events") THEN Len(events.items) ELSE 0,
         commits |-> IF Has(v, "events") THEN KindCount(events, "CommitExecuted") ELSE 0,
         rollbacks |-> IF Has(v, "events") THEN KindCount(events, "RollbackExecuted") ELSE 0]
      below == SelectSeq(Steps(v), LAMBDA s : s # <<"key", "events">>)
  IN FoldLeft(LAMBDA sum, s : Added(sum, Summary(Child(v, s))), counted, below)

(* diff: the paths at which two documents differ, as many as are allowed.  *)
PushDiffPath(found, path) ==
  IF Len(found.paths) < MaxPaths THEN [found EXCEPT !.paths = Append(@, path)]
                                 ELSE [found EXCEPT !.truncated = TRUE]
AnyLengths(left, right, path, found) == found    \* mutant: lengths are not compared
Lengths(left, right, path, found) ==
  IF Len(left.items) = Len(right.items) THEN found
  ELSE PushDiffPath(found, Append(path, <<"length", 0>>))
RECURSIVE CollectDiffPaths(_, _, _, _)
CollectDiffPaths(left, right, path, found) ==
  LET Both(acc, step) ==
        IF acc.truncated THEN acc
        ELSE IF step \in StepsOf(left) \cap StepsOf(right)
        THEN CollectDiffPaths(Child(left, step), Child(right, step), Append(path, step), acc)
        ELSE PushDiffPath(acc, Append(path, step))
      either == [kind |-> "object", fields |-> right.fields @@ left.fields]
      shorter == IF Len(left.items) < Len(right.items) THEN left ELSE right
  IN CASE Len(found.paths) >= MaxPaths -> [found EXCEPT !.truncated = TRUE]
       [] Len(found.paths) < MaxPaths /\ left.kind = "object" /\ right.kind = "object" ->
            FoldLeft(Both, found, Steps(either))
       [] Len(found.paths) < MaxPaths /\ left.kind = "array" /\ right.kind = "array" ->
            FoldLeft(Both, Lengths(left, right, path, found), Steps(shorter))
       [] OTHER -> IF left = right THEN found ELSE PushDiffPath(found, path)

Diff(left, right) ==
  LET found == CollectDiffPaths(left, right, <<>>, [paths |-> <<>>, truncated |-> FALSE])
  IN [equal |-> found.paths = <<>> /\ ~found.truncated,
      changed |-> Range(found.paths), truncated |-> found.truncated]

-----------------------------------------------------------------------------
(* The evidence of a cycle of a model loop, against its contracts: the     *)
(* ranks of the published profiles.                                        *)

ProfileEvidence(rank) == Object([preference_rank |-> Number(rank), active_experts |-> Number(rank)])
RankOrNull(r) == IF r = None THEN Null ELSE Number(r)

TerminalRank(r) == IF r.committed THEN r.proposed ELSE r.initial

(* The rank is observed or unsupported; a plan that was selected but not   *)
(* carried further names its profile too.                                  *)
ModelWire(r) ==
  [evidence_kind |-> Text("cycle"), resource_id |-> Text("one"),
   resource_fingerprint |-> Text("contracts"),
   observation_snapshots |-> Array(<<Object(
     [all_signals_valid |-> Flag(r.initial # None),
      observations |-> Array(<<Object(
        [valid |-> Flag(r.initial # None), value |-> RankOrNull(r.initial),
         unsupported_reason |-> IF r.initial = None THEN Text("reason") ELSE Null])>>)])>>),
   initial_profile_rank |-> RankOrNull(r.initial),
   plan |-> IF r.how = "observed" THEN Null ELSE Object(
     [validated |-> Flag(r.validated),
      outcome |-> IF r.proposed = None THEN Null ELSE ProfileEvidence(r.proposed),
      invariant_checks |-> Array(IF r.validated THEN <<Object([holds |-> Flag(TRUE)])>> ELSE <<>>)]),
   actuation |-> IF r.acted THEN Object([target_profile_rank |-> Number(r.proposed)]) ELSE Null,
   verification |-> IF r.acted THEN Text(r.verification) ELSE Null,
   committed |-> Flag(r.committed),
   commit_rationale |-> IF r.committed THEN Text("rationale") ELSE Null,
   rolled_back |-> Flag(r.rolledBack),
   rollback |-> IF r.rolledBack THEN Object([invariants_restored |-> Flag(TRUE)]) ELSE Null,
   final_profile_rank |-> Number(TerminalRank(r)),
   events |-> EventsOf(r.events)]

(* to_runtime_evidence adds the two fields of the envelope, and            *)
(* from_runtime_evidence takes them away.                                  *)
ToRuntimeEvidence(wire) == Capture(Object([command |-> Text("run")] @@ wire))
WireOf(v) == [k \in DOMAIN v.fields \ {"evidence_schema", "command"} |-> v.fields[k]]

Optional == {"initial_profile_rank", "plan", "actuation", "verification", "commit_rationale",
             "rollback"}
Required == {"evidence_kind", "resource_id", "resource_fingerprint", "observation_snapshots",
             "committed", "rolled_back", "final_profile_rank", "events"}
Field(fields, key) == IF key \in DOMAIN fields THEN fields[key] ELSE Null
IsKind(v, kind) == v.kind = kind
Kinds(v, kinds) ==
  /\ IsObject(v) /\ DOMAIN v.fields = DOMAIN kinds
  /\ \A k \in DOMAIN kinds : v.fields[k].kind \in kinds[k]

(* serde: no unknown field, every required one, each of its type. *)
Decodes(wire) ==
  LET is == [k \in Optional \cup Required |-> Field(wire, k)]
  IN /\ Required \subseteq DOMAIN wire /\ DOMAIN wire \subseteq Required \cup Optional
     /\ \A k \in {"evidence_kind", "resource_id", "resource_fingerprint"} : IsKind(is[k], "text")
     /\ \A k \in {"committed", "rolled_back"} : IsKind(is[k], "bool")
     /\ IsKind(is["final_profile_rank"], "number") /\ IsKind(is["observation_snapshots"], "array")
     /\ \A s \in Range(is["observation_snapshots"].items) :
          /\ Kinds(s, [all_signals_valid |-> {"bool"}, observations |-> {"array"}])
          /\ \A o \in Range(s.fields["observations"].items) :
               /\ IsObject(o)
               /\ Kinds(Object(o.fields @@ [value |-> Null, unsupported_reason |-> Null]),
                        [valid |-> {"bool"}, value |-> {"null", "number"},
                         unsupported_reason |-> {"null", "text"}])
     /\ is["initial_profile_rank"].kind \in {"null", "number"}
     /\ is["commit_rationale"].kind \in {"null", "text"}
     /\ is["verification"] \in {Null, Text("Pass"), Text("Fail"), Text("Inconclusive")}
     /\ \/ is["plan"] = Null
        \/ /\ Kinds(is["plan"], [validated |-> {"bool"}, outcome |-> {"null", "object"},
                                 invariant_checks |-> {"array"}])
           /\ \A c \in Range(is["plan"].fields["invariant_checks"].items) :
                Kinds(c, [holds |-> {"bool"}])
           /\ IsObject(is["plan"].fields["outcome"]) =>
                Kinds(is["plan"].fields["outcome"],
                      [preference_rank |-> {"number"}, active_experts |-> {"number"}])
     /\ is["actuation"] = Null \/ Kinds(is["actuation"], [target_profile_rank |-> {"number"}])
     /\ is["rollback"] = Null \/ Kinds(is["rollback"], [invariants_restored |-> {"bool"}])
     /\ ValidEvents(is["events"])

Published(v) == v.number \in Candidate
Actual(o) ==
  IF o.fields["valid"].is
  THEN Field(o.fields, "value") # Null /\ Field(o.fields, "unsupported_reason") = Null
  ELSE /\ Field(o.fields, "value") = Null
       /\ Field(o.fields, "unsupported_reason") \notin {Null, Text("")}

TargetIsPlanned(actuation, plan) ==
  /\ plan # Null /\ plan.fields["validated"].is /\ plan.fields["outcome"] # Null
  /\ plan.fields["outcome"].fields["preference_rank"] = actuation.fields["target_profile_rank"]

(* validate_wire: the contracts, the outcome, the observations, the plan,  *)
(* the actuation and the terminal rank, then the envelope.                 *)
OfTheContracts(is) ==
  /\ is["evidence_kind"] = Text("cycle") /\ is["resource_fingerprint"] = Text("contracts")
  /\ is["resource_id"] = Text("one")
  /\ Published(is["final_profile_rank"])
  /\ is["initial_profile_rank"] # Null => Published(is["initial_profile_rank"])
OneOutcome(is) ==
  /\ ~(is["committed"].is /\ is["rolled_back"].is)
  /\ is["committed"].is <=> is["commit_rationale"] # Null
  /\ is["rolled_back"].is <=> is["rollback"] # Null
  /\ is["rollback"] # Null => is["rollback"].fields["invariants_restored"].is
SnapshotHolds(s) ==
  LET seen == Range(s.fields["observations"].items)
  IN /\ s.fields["all_signals_valid"].is <=> \A o \in seen : o.fields["valid"].is
     /\ \A o \in seen : Actual(o)
PlanHolds(plan) ==
  IF plan.fields["outcome"] = Null THEN ~plan.fields["validated"].is
  ELSE LET rank == plan.fields["outcome"].fields["preference_rank"]
       IN /\ Published(rank) /\ plan.fields["outcome"] = ProfileEvidence(rank.number)
          /\ plan.fields["validated"].is =>
               \A c \in Range(plan.fields["invariant_checks"].items) : c.fields["holds"].is
ActuationHolds(is) ==
  LET ended == is["committed"].is \/ is["rolled_back"].is
  IN IF is["actuation"] = Null THEN is["verification"] = Null /\ ~ended
     ELSE /\ Published(is["actuation"].fields["target_profile_rank"])
          /\ TargetIsPlanned(is["actuation"], is["plan"])
          /\ is["verification"] # Null /\ ended
AnyTerminalRank(is) ==    \* mutant: the rank a commit ended at is not compared
  /\ is["committed"].is => is["verification"] = Text("Pass")
  /\ is["rolled_back"].is => is["initial_profile_rank"] = is["final_profile_rank"]
TerminalRankHolds(is) ==
  /\ is["committed"].is =>
       /\ is["verification"] = Text("Pass")
       /\ is["final_profile_rank"] = is["actuation"].fields["target_profile_rank"]
  /\ is["rolled_back"].is => is["initial_profile_rank"] = is["final_profile_rank"]
ValidateWire(wire) ==
  LET is == [k \in Optional \cup Required |-> Field(wire, k)]
  IN /\ OfTheContracts(is) /\ OneOutcome(is)
     /\ \A s \in Range(is["observation_snapshots"].items) : SnapshotHolds(s)
     /\ is["plan"] # Null => PlanHolds(is["plan"])
     /\ ActuationHolds(is) /\ TerminalRankHolds(is)
     /\ FromValue(ToRuntimeEvidence(wire))

FromRuntimeEvidence(v) ==
  /\ TextOf(v, "command") = "run"
  /\ Decodes(WireOf(v)) /\ ValidateWire(WireOf(v))

-----------------------------------------------------------------------------
(* A run that ended well is reported, a cycle of a model loop only if its  *)
(* terminal rank is known; then the file is read back, perhaps after one   *)
(* change: a part replaced or a field removed.                             *)

Ended == pc[Loop] = "stopped" /\ stop[Loop] \notin {"error", "configuration"}
Rendered(kind) ==
  CASE kind = "run" -> RunDocument
    [] kind = "configured" -> ConfiguredDocument
    [] kind = "apply" -> ApplyDocument
    [] kind = "model" -> ToRuntimeEvidence(ModelWire(completed[1]))

Report(kind) ==
  /\ Ended /\ document = None
  /\ CASE kind \in {"run", "apply"} -> flavor = "plain"
       [] kind = "configured" -> flavor = "forecast"
       [] kind = "model" -> flavor = "model"
  /\ kind \in {"apply", "model"} => Len(completed) = 1
  /\ kind = "apply" => config[Loop].mode = "Apply"
  /\ kind = "model" => TerminalRank(completed[1]) # None
  /\ document' = [kind |-> kind, tree |-> Capture(Rendered(kind))]
  /\ file' = document'.tree
  /\ UNCHANGED <<controlVars, trailVars>>

RECURSIVE Put(_, _, _)
Put(v, path, by) ==
  IF path = <<>> THEN by
  ELSE LET step == Head(path)
           child == Put(Child(v, step), Tail(path), by)
       IN IF step[1] = "index" THEN [v EXCEPT !.items[step[2]] = child]
                               ELSE [v EXCEPT !.fields[step[2]] = child]
Without(v, key) == Object([k \in DOMAIN v.fields \ {key} |-> v.fields[k]])

Replacements ==
  {Null, Flag(TRUE), Flag(FALSE), Array(<<>>)} \cup {Text(t) : t \in OtherTexts}
    \cup (IF flavor = "model" THEN {Number(n) : n \in Candidate} ELSE {})

Alter ==
  /\ document # None /\ file = document.tree
  /\ Len(completed) = 1 /\ completed[1].how \in Altered /\ ~cancelled[Loop]
  /\ \E p \in Paths(file) :
       \/ \E v \in Replacements : file' = Put(file, p, v)
       \/ \E key \in DOMAIN (IF IsObject(At(file, p)) THEN At(file, p).fields ELSE <<>>) :
            file' = Put(file, p, Without(At(file, p), key))
  /\ UNCHANGED <<controlVars, trailVars, document>>

EvidenceNext ==
  \/ RunNext /\ UNCHANGED documentVars
  \/ \E kind \in {"run", "configured", "apply", "model"} : Report(kind)
  \/ Alter
EvidenceSpec == EvidenceInit /\ [][EvidenceNext]_evidenceVars

-----------------------------------------------------------------------------
Accepted ==
  /\ FromValue(file)
  /\ document.kind = "model" => FromRuntimeEvidence(file)

Copies == CASE document.kind \in {"apply", "model"} -> 1
            [] document.kind = "run" -> 2
            [] document.kind = "configured" -> 4

(* What an accepted document still says of the cycle it was made of. *)
RECURSIVE SaysThroughout(_, _)
SaysThroughout(v, r) ==
  /\ Has(v, "committed") => Says(v, "committed", r.committed)
  /\ Has(v, "rolled_back") => Says(v, "rolled_back", r.rolledBack)
  /\ \A step \in StepsOf(v) : SaysThroughout(Child(v, step), r)
Truthful(r) ==
  /\ SaysThroughout(file, r)
  /\ document.kind = "model" /\ r.acted =>
       file.fields["final_profile_rank"] = Number(TerminalRank(r))

(* A path that is in one document and not, or not alike, in the other.     *)
RECURSIVE Found(_, _)
Found(v, path) ==
  CASE path = <<>> -> [there |-> TRUE, value |-> v]
    [] path # <<>> /\ Head(path) \in StepsOf(v) -> Found(Child(v, Head(path)), Tail(path))
    [] OTHER -> [there |-> FALSE]
Differs(left, right, path) ==
  LET a == Found(left, path)
      b == Found(right, path)
  IN a.there # b.there \/ (a.there /\ b.there /\ a.value # b.value)
LengthDiffers(left, right, path) ==
  Len(At(left, Front(path)).items) # Len(At(right, Front(path)).items)
(* Every place where two documents differ is named, or one above it is.    *)
RECURSIVE NamesAll(_, _, _, _)
NamesAll(left, right, path, named) ==
  \/ left = right \/ path \in named
  \/ /\ left.kind = right.kind /\ IsContainer(left)
     /\ left.kind = "array" /\ Len(left.items) # Len(right.items) =>
          Append(path, <<"length", 0>>) \in named
     /\ \A step \in StepsOf(left) \cap StepsOf(right) :
          NamesAll(Child(left, step), Child(right, step), Append(path, step), named)
     /\ left.kind = "object" =>
          \A step \in (StepsOf(left) \ StepsOf(right)) \cup (StepsOf(right) \ StepsOf(left)) :
            Append(path, step) \in named
TellsOf(diff, left, right) ==
  /\ diff.equal <=> left = right
  /\ \A c \in diff.changed :
       IF c # <<>> /\ Last(c)[1] = "length" THEN LengthDiffers(left, right, c)
                                           ELSE Differs(left, right, c)
  /\ Cardinality(diff.changed) <= MaxPaths
  /\ ~diff.truncated => NamesAll(left, right, <<>>, diff.changed)
DiffTells(left, right) == TellsOf(Diff(left, right), left, right)

(* Evidence of a run is accepted and counts what the run did; no one       *)
(* change of it is accepted that turns the outcome it states; a comparison *)
(* names every difference, or says that it left some out.                  *)
StandsIf(accepted) ==
  /\ file = document.tree /\ ValidateShape(file) =>
       /\ accepted
       /\ Summary(file).commits = Copies * done.commits
       /\ Summary(file).rollbacks = Copies * done.rollbacks
       /\ Summary(file).ids = IF document.kind = "configured" THEN {"one", "two"} ELSE {"one"}
  /\ Len(completed) = 1 /\ accepted => Truthful(completed[1])
  /\ DiffTells(IF file = document.tree THEN Capture(RunDocument) ELSE document.tree, file)
EvidenceStands == document # None => StandsIf(Accepted)
=============================================================================

-------------------------- MODULE MCGuardedTransaction --------------------------
(* Three surfaces: the trusted boundaries with two candidates, the second  *)
(* named preferred; a loop of at most two cycles and its evidence; and     *)
(* small documents before the scanners.                                    *)
EXTENDS GuardedTransaction, RunTrail, TLC
CONSTANTS p, q

Ranking == (p :> 2) @@ (q :> 1)

VARIABLES
  surface, document, file, scanned

loopVars == <<runVars, document, file>>
allVars == <<vars, surface, loopVars, scanned>>

Letters(n) == [i \in 1..n |-> "letter"]
FieldNames ==
  <<"active_experts", "actuation", "all_signals_valid", "command", "commit_rationale",
    "committed", "controllers", "cycles", "details", "events", "evidence_kind",
    "evidence_schema", "final_profile_rank", "holds", "index", "initial_profile_rank",
    "invariant_checks", "invariants_restored", "kind", "observation_snapshots",
    "observations", "outcome", "plan", "preference_rank", "resource_fingerprint",
    "resource_id", "rollback", "rolled_back", "stop_reason", "target_profile_rank",
    "unsupported_reason", "valid", "validated", "value", "verification">>
Config1(mode, periodic) == [mode |-> mode, dryRun |-> FALSE, periodic |-> periodic, limit |-> 2]

RunConfigs ==
  Loop :> {Config1("ObserveOnly", FALSE), Config1("PlanOnly", FALSE),
           Config1("DryRun", FALSE), Config1("Apply", FALSE), Config1("Apply", TRUE)}

E == INSTANCE RunEvidence WITH
  MaxPaths <- 3, MaxId <- 3,
  Altered <- {"committed", "rolledBack"},
  OtherTexts <- {"one", "raw", "CommitExecuted", "RollbackExecuted"},
  Keys <- FieldNames, Spelling <- [raw |-> <<"control">>],
  MaxDepth <- 7, MaxNodes <- 200, MaxItems <- 40, MaxText <- 3, MaxNumber <- 2, MaxBytes <- 30

S == INSTANCE Documents WITH
  Keys <- <<"a", "b">>,
  Spelling <- [quoted |-> <<"letter", "quote", "letter">>, b |-> Letters(2), long |-> Letters(5)],
  MaxDepth <- 2, MaxNodes <- 5, MaxItems <- 3, MaxText <- 4, MaxNumber <- 2, MaxBytes <- 30

ASSUME SurfaceAssumption ==
  /\ E!DocumentAssumption /\ E!EvidenceAssumption /\ S!DocumentAssumption

Leaves == {S!Null, S!Number(7), S!Number(12), S!Number(123), S!Text("x"), S!Text("quoted"),
           S!Text("long")}
Few ==
  {S!Null, S!Number(123), S!Text("quoted"), S!Array(<<>>), S!Array(<<S!Number(7), S!Number(12)>>),
   S!Object([a |-> S!Text("x")]), S!Object([b |-> S!Array(<<S!Null>>)]),
   S!Array(<<S!Null, S!Null, S!Null, S!Null>>)}
Of(values) ==
  {S!Array(s) : s \in UNION {[1..n -> values] : n \in 0..2}}
    \cup {S!Object(f) : f \in UNION {[D -> values] : D \in SUBSET {"a", "b"}}}
Small == Leaves \cup Of(Leaves) \cup Of(Few)
Idle == [document |-> S!Null, gap |-> <<>>]

MCInit ==
  /\ surface \in {"boundaries", "loop", "scanner"}
  /\ Init /\ E!EvidenceInit
  /\ surface # "boundaries" =>
       /\ boundary = "batch" /\ snapshot = [value |-> [c \in Declared |-> "good"], at |-> 0]
  /\ surface # "loop" => flavor = "plain" /\ config[Loop] = Config1("ObserveOnly", FALSE)
  /\ scanned = Idle

Scan ==
  /\ scanned = Idle
  /\ scanned' \in [document : Small, gap : {<<>>, <<"space">>}]

(* Bound: two executions at the first moment, or one until the last.  *)
Within == clock' + 2 * calls' <= 4

(* A loop that has ended rests, and a scanner that has read.  *)
Rest ==
  \/ surface = "loop" /\ pc[Loop] = "stopped"
  \/ surface = "scanner" /\ scanned # Idle

MCNext ==
  \/ surface = "boundaries" /\ Next /\ Within /\ UNCHANGED <<surface, loopVars, scanned>>
  \/ surface = "loop" /\ E!EvidenceNext /\ UNCHANGED <<surface, vars, scanned>>
  \/ surface = "scanner" /\ Scan /\ UNCHANGED <<surface, vars, loopVars>>
  \/ Rest /\ UNCHANGED allVars
MCSpec == MCInit /\ [][MCNext]_allVars

(* Evidence of a completed run reads back as what the run did, no single   *)
(* change of it is accepted that turns an outcome, and a comparison of two *)
(* documents names every difference or says it is truncated (evidence.rs). *)
EvidenceStands == E!EvidenceStands

(* The scanners let a document through exactly if it is within the bounds, *)
(* and never a part of one (decision_trace.rs).                            *)
PreflightIsExact == S!PreflightIsExactOn(scanned.document, scanned.gap)
=============================================================================

-------------------------- MODULE MCKvTransactions --------------------------
(* What elastic-kv does to its surfaces, each by itself: loops that change *)
(* one page, executions over storage with its writers, and the planning of *)
(* another representation for a view of pages.                             *)
EXTENDS KvPageTransaction, TLC

CONSTANTS c1, c2, e1, e2, Execution, StateId, Partial, MaxGeneration, MaxSequence,
          Declared, Admitted, Drafts, Strangers, Measure, Odd, Keys, PageId, LastEpoch, MaxExact,
          MaxAge, MaxTokens

VARIABLES
    surface,   \* which of them this behaviour is about
    state, activeToken, nextSequence, call, chosen, read, token, stage,
    report, writer, effect,
    slate, perPage, committed, pending, supported, tokens, screening, observed,
    pages, plans, bond, bound

storageVars == <<state, activeToken, nextSequence, call, chosen, read, token,
                 stage, report, writer, effect>>
planningVars == <<slate, perPage, committed, pending, supported, tokens, screening,
                  observed, pages, plans, bond, bound>>

Storage == INSTANCE StorageRecompute WITH
    pc <- call, candidate <- chosen, source <- read, author <- writer

Planning == INSTANCE RepresentationPlanning WITH
    report <- screening, read <- observed, binding <- bond

ASSUME SurfaceAssumption ==
    Storage!StorageAssumption /\ Planning!RepresentationAssumption

Settings(m, n) == [mode |-> m, dryRun |-> FALSE, periodic |-> FALSE, limit |-> n]
Looping == [c \in Controller |-> IF c = c1 THEN {Settings("Periodic", 2)}
                                           ELSE {Settings("Apply", 1)}]

(* Candidates out of order, doubled, or none at all; and one whose bits    *)
(* were changed since the screening.                                       *)
Precise(i, k, c, m, b) ==
    [id |-> i, rank |-> k, target |-> c, mechanism |-> m, bits |-> b]
SomeDrafts ==
    {<<>>,
     <<Precise("k2", 2, "raw", "reencode", 3), Precise("k1", 1, "packed", "reencode", 1)>>,
     <<Precise("k1", 1, "packed", "reinterpret", 2), Precise("k1", 2, "raw", "reencode", 2)>>}
SomeStrangers == {Precise("k2", 2, "raw", "reencode", 1)}

(* Room for one byte or none, fresh or old, inexact, of two minds, or from *)
(* the future and of another resource.                                     *)
Seen(a, v, c, f) ==
    [status |-> "valid", age |-> a, seen |-> v, context |-> c, foreign |-> f]
SomeMeasures == {<<1, 0>>, <<2, 1>>, <<3, 2>>, <<5, 0>>}
SomeOdd == {Seen(0, 1, 2, FALSE), Seen(None, 2, 2, TRUE)}

Materialized(s, p, r) == [scope |-> s, pipeline |-> p, recovery |-> r]
SomeKeys ==
    {Materialized("tokenStable", "transformThenCodec", "storedCanonicalRaw"),
     Materialized("raw", "raw", "none"), Materialized("raw", "fusedDeclared", "none"),
     Materialized("queryDependent", "fusedDeclared", "none")}

(* A surface that rests keeps one initial state.                           *)
MCInit ==
    /\ Init /\ Storage!Init /\ Planning!Init
    /\ surface \in {"page", "storage", "frontier", "view", "binding"}
    /\ surface # "storage" => state.id = "resident"
    /\ surface # "page" => page.contract = "raw"
    /\ surface \notin {"frontier", "binding"} => committed.contract = "raw"
    /\ surface \notin {"view", "frontier"} <=> perPage

(* A flag is read between cycles only, so raising it there is enough.      *)
PageNext ==
    /\ Next
    /\ \A c \in Controller : cancelled'[c] # cancelled[c] => pc[c] \in {"start", "between"}

(* The frontier; the pages of the view; and the binding of one page, where *)
(* a process never loses its raw representation.                           *)
FrontierNext ==
    \/ Planning!Learn \/ Planning!Issue
    \/ Planning!Propose \/ Planning!Commit \/ Planning!Rollback
PlanningNext ==
    /\ Planning!Next
    /\ UNCHANGED <<committed, pending>>
    /\ surface = "view" => UNCHANGED screening
    /\ surface = "binding" => plans'[2] = None /\ "raw" \in supported'

MCNext ==
    /\ UNCHANGED surface
    /\ \/ surface = "page" /\ PageNext /\ UNCHANGED <<storageVars, planningVars>>
       \/ surface = "storage" /\ Storage!Next /\ UNCHANGED <<vars, planningVars>>
       \/ surface = "frontier" /\ FrontierNext /\ UNCHANGED <<vars, storageVars>>
       \/ surface \in {"view", "binding"} /\ PlanningNext /\ UNCHANGED <<vars, storageVars>>
MCSpec == MCInit /\ [][MCNext]_<<surface, vars, storageVars, planningVars>>

Alike == Permutations(Execution)

(* The evidence of a storage execution says what is left of its effect.    *)
EvidenceIsTrue == Storage!EvidenceIsTrue

(* Whatever fails or is rolled back, the authoritative storage state only  *)
(* ever moves to a later generation.                                       *)
ImplementsVersionedState == Storage!ImplementsVersionedState

(* A screening is bound only to a plan, and a plan only to a candidate,    *)
(* that it is about; a view that is read as one representation keeps one.  *)
PlanningIsTrue == Planning!BindingIsTrue /\ Planning!ViewStaysWhole

(* The frontier moves under evidence issued for this very transition.      *)
FrontierIsJustified == Planning!FrontierIsJustified
=============================================================================

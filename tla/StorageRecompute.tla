-------------------------- MODULE StorageRecompute --------------------------
(***************************************************************************)
(* Fenced transactions over one storage surface (elastic-kv,               *)
(* storage_recompute_transaction.rs): callers execute screened candidates  *)
(* with execute_storage_recompute_transaction, while writers of the domain *)
(* replace the state on their own.                                         *)
(*                                                                         *)
(* The backend is ReferenceStorageRecomputeBackendV1 with the faults the   *)
(* trait allows: any call may fail, and a failed actuation may have        *)
(* changed the state, in part or in full.  Every call to the backend is a  *)
(* step; anything may happen between two.  Fingerprints stand for what     *)
(* they are computed from.                                                 *)
(***************************************************************************)
EXTENDS Naturals

CONSTANTS
    Execution,      \* calls of execute_storage_recompute_transaction
    StateId,        \* state identities
    Partial,        \* the identity a partial actuation leaves behind
    None,
    MaxGeneration,  \* largest generation number
    MaxSequence     \* largest ownership sequence

StorageAssumption ==
    /\ MaxGeneration \in Nat /\ MaxSequence \in Nat
    /\ None \notin Execution /\ Partial \notin StateId
    /\ None \notin Execution \X (0 .. MaxSequence)

State == [generation : 0 .. MaxGeneration, id : StateId \cup {Partial}]
StorageCandidate == [keep : BOOLEAN, generation : 0 .. MaxGeneration, id : StateId]
Stage == {"Bind", "Validate", "Act", "Verify", "Commit"}

VARIABLES
    state,        \* ReferenceStorageRecomputeBackendV1::state
    activeToken,  \* ::active_token: its owner and sequence, or None
    nextSequence, \* ::next_sequence
    pc,           \* the next backend call of each execution
    candidate,    \* the candidate of each execution
    source,       \* the bound source state
    token,        \* the ownership token an execution holds
    stage,        \* where an execution failed
    report,       \* what it returned about its rollback
    author,       \* ghost: who wrote the state, None for a writer
    effect        \* ghost: what is left of the mutation of an execution

backendVars == <<state, activeToken, nextSequence>>
vars == <<backendVars, pc, candidate, source, token, stage, report, author, effect>>

Call == {"idle", "read", "validate", "reread", "acquire", "apply", "observe",
         "verify", "commit", "rollback", "confirm", "returned"}
Report == {"none", "committed", "notAttempted", "restored", "notRestored"}

Init ==
    /\ state \in {s \in State : s.generation = 0 /\ s.id # Partial}
    /\ activeToken = None
    /\ nextSequence = 0
    /\ pc = [e \in Execution |-> "idle"]
    /\ candidate = [e \in Execution |-> None]
    /\ source = [e \in Execution |-> None]
    /\ token = [e \in Execution |-> None]
    /\ stage = [e \in Execution |-> None]
    /\ report = [e \in Execution |-> "none"]
    /\ author = None
    /\ effect = [e \in Execution |-> "none"]

-----------------------------------------------------------------------------
Goto(e, call) == pc' = [pc EXCEPT ![e] = call]

(* failure_without_rollback and bound_failure_without_rollback.            *)
Fail(e, where) ==
    /\ Goto(e, "returned")
    /\ stage' = [stage EXCEPT ![e] = where]
    /\ report' = [report EXCEPT ![e] = "notAttempted"]

(* fail_after_possible_mutation: the rollback comes first.                 *)
RollBack(e, where) ==
    /\ Goto(e, "rollback")
    /\ stage' = [stage EXCEPT ![e] = where]
    /\ UNCHANGED report

Proceed(e, call) == Goto(e, call) /\ UNCHANGED <<stage, report>>

(* The last call went wrong, or right.                                     *)
OrFail(e, good, call, where) ==
    \/ good /\ Proceed(e, call)
    \/ Fail(e, where)

OrRollBack(e, good, call, where) ==
    \/ good /\ Proceed(e, call)
    \/ RollBack(e, where)

NoEffect == UNCHANGED <<backendVars, author, effect>>
Bindings == <<candidate, source>>

-----------------------------------------------------------------------------

(* derive_target: the addition is checked.                                *)
Derivable(c, s) ==
    /\ c.generation = s.generation
    /\ IF c.keep THEN c.id = s.id ELSE s.generation < MaxGeneration

Derived(c, s) ==
    IF c.keep THEN s ELSE [generation |-> s.generation + 1, id |-> c.id]

Target(e) == Derived(candidate[e], source[e])

Owns(e) == token[e] # None /\ activeToken = token[e]

(* The caller binds a candidate to a state it has read.                    *)
Bind(e) ==
    /\ pc[e] = "idle"
    /\ \E c \in StorageCandidate : candidate' = [candidate EXCEPT ![e] = c]
    /\ source' = [source EXCEPT ![e] = state]
    /\ Proceed(e, "read")
    /\ UNCHANGED token /\ NoEffect

(* Binding and plan are checked against the candidate, and the state read  *)
(* against the binding.                                                    *)
ReadSource(e) ==
    /\ pc[e] = "read"
    /\ OrFail(e, state = source[e] /\ Derivable(candidate[e], source[e]),
              "validate", "Bind")
    /\ UNCHANGED <<Bindings, token>> /\ NoEffect

ValidateAction(e) ==
    /\ pc[e] = "validate"
    /\ OrFail(e, state = source[e], "reread", "Validate")
    /\ UNCHANGED <<Bindings, token>> /\ NoEffect

ReadAgain(e) ==
    /\ pc[e] = "reread"
    /\ OrFail(e, state = source[e], "acquire", "Validate")
    /\ UNCHANGED <<Bindings, token>> /\ NoEffect

(* The sequence number is checked before the token is issued.              *)
Acquirable(e) ==
    state = source[e] /\ activeToken = None /\ nextSequence < MaxSequence

AcquireTransaction(e) ==
    /\ pc[e] = "acquire"
    /\ \/ /\ Acquirable(e)
          /\ activeToken' = <<e, nextSequence>>
          /\ token' = [token EXCEPT ![e] = <<e, nextSequence>>]
          /\ nextSequence' = nextSequence + 1
          /\ Proceed(e, "apply")
       \/ /\ Fail(e, "Act")
          /\ UNCHANGED <<activeToken, nextSequence, token>>
    /\ UNCHANGED <<state, author, effect, Bindings>>

-----------------------------------------------------------------------------
(* A mutation by an execution.                                             *)
Mutate(e, s) ==
    /\ state' = s
    /\ author' = e
    /\ effect' = [effect EXCEPT ![e] = "applied"]

PartialIsMismatch(e) ==         \* mutant: a partial mutation is called a mismatch
    /\ pc[e] = "apply"
    /\ \/ /\ Owns(e) /\ state = source[e]
          /\ Mutate(e, Target(e))
          /\ Proceed(e, "observe") \/ Fail(e, "Act")
          /\ UNCHANGED activeToken
       \/ /\ ~(Owns(e) /\ state = source[e])
          /\ activeToken' = IF Owns(e) THEN None ELSE activeToken
          /\ Fail(e, "Act")
          /\ UNCHANGED <<state, author, effect>>
    /\ UNCHANGED <<nextSequence, token, Bindings>>

(* apply_if_source: applied, applied wholly or in part before an error, or *)
(* refused; a refusal after a comparison gives the token up.               *)
ApplyIfSource(e) ==
    /\ pc[e] = "apply"
    /\ \/ /\ Owns(e) /\ state = source[e]
          /\ Mutate(e, Target(e))
          /\ Proceed(e, "observe") \/ RollBack(e, "Act")
          /\ UNCHANGED activeToken
       \/ /\ Owns(e) /\ state = source[e] /\ source[e].generation < MaxGeneration
          /\ Mutate(e, [generation |-> source[e].generation + 1, id |-> Partial])
          /\ RollBack(e, "Act")
          /\ UNCHANGED activeToken
       \/ /\ ~(Owns(e) /\ state = source[e])
          /\ activeToken' = IF Owns(e) THEN None ELSE activeToken
          /\ Fail(e, "Act")
          /\ UNCHANGED <<state, author, effect>>
    /\ UNCHANGED <<nextSequence, token, Bindings>>

ObserveTarget(e) ==
    /\ pc[e] = "observe"
    /\ OrRollBack(e, state = Target(e), "verify", "Verify")
    /\ UNCHANGED <<Bindings, token>> /\ NoEffect

VerifyAction(e) ==
    /\ pc[e] = "verify"
    /\ OrRollBack(e, Owns(e) /\ state = Target(e), "commit", "Verify")
    /\ UNCHANGED <<Bindings, token>> /\ NoEffect

CommitAction(e) ==
    /\ pc[e] = "commit"
    /\ \/ /\ Owns(e) /\ state = Target(e)
          /\ activeToken' = None
          /\ Goto(e, "returned")
          /\ report' = [report EXCEPT ![e] = "committed"]
          /\ UNCHANGED stage
       \/ RollBack(e, "Commit") /\ UNCHANGED activeToken
    /\ UNCHANGED <<state, nextSequence, author, effect, token, Bindings>>

(* Rollback: restored, refused because the token is lost, or failed.       *)
GiveUp(e) ==
    /\ Goto(e, "returned")
    /\ report' = [report EXCEPT ![e] = "notRestored"]

RollbackReleases(e) ==          \* mutant: a failed rollback gives the token up
    /\ pc[e] = "rollback"
    /\ \/ /\ Owns(e)
          /\ state' = source[e] /\ author' = e
          /\ effect' = [effect EXCEPT ![e] = "undone"]
          /\ Goto(e, "confirm") /\ UNCHANGED report
       \/ GiveUp(e) /\ UNCHANGED <<state, author, effect>>
    /\ activeToken' = IF Owns(e) THEN None ELSE activeToken
    /\ UNCHANGED <<nextSequence, token, stage, Bindings>>

RollbackIfOwned(e) ==
    /\ pc[e] = "rollback"
    /\ \/ /\ Owns(e)
          /\ state' = source[e] /\ author' = e
          /\ effect' = [effect EXCEPT ![e] = "undone"]
          /\ activeToken' = None
          /\ Goto(e, "confirm") /\ UNCHANGED report
       \/ GiveUp(e) /\ UNCHANGED <<state, author, effect, activeToken>>
    /\ UNCHANGED <<nextSequence, token, stage, Bindings>>

(* The restoration is reported only if it can be read.                     *)
ConfirmRestored(e) ==
    /\ pc[e] = "confirm"
    /\ \/ /\ state = source[e]
          /\ Goto(e, "returned")
          /\ report' = [report EXCEPT ![e] = "restored"]
       \/ GiveUp(e)
    /\ UNCHANGED <<token, stage, Bindings>> /\ NoEffect

-----------------------------------------------------------------------------
(* A writer of the domain: the backend takes the token away first.         *)
WriterReplaces ==
    /\ state.generation < MaxGeneration
    /\ \E id \in StateId : state' = [generation |-> state.generation + 1, id |-> id]
    /\ author' = None
    /\ activeToken' = None
    /\ UNCHANGED <<nextSequence, pc, candidate, source, token, stage, report, effect>>

Execute(e) ==
    \/ Bind(e) \/ ReadSource(e) \/ ValidateAction(e) \/ ReadAgain(e)
    \/ AcquireTransaction(e) \/ ApplyIfSource(e) \/ ObserveTarget(e)
    \/ VerifyAction(e) \/ CommitAction(e)
    \/ RollbackIfOwned(e) \/ ConfirmRestored(e)

Next == WriterReplaces \/ \E e \in Execution : Execute(e)

Spec == Init /\ [][Next]_vars

-----------------------------------------------------------------------------
(* Properties.                                                             *)

(* Every variable keeps its type.                                          *)
TypeOK ==
    /\ state \in State
    /\ activeToken \in (Execution \X (0 .. MaxSequence)) \cup {None}
    /\ nextSequence \in 0 .. MaxSequence
    /\ pc \in [Execution -> Call]
    /\ candidate \in [Execution -> StorageCandidate \cup {None}]
    /\ source \in [Execution -> State \cup {None}]
    /\ token \in [Execution -> (Execution \X (0 .. MaxSequence)) \cup {None}]
    /\ stage \in [Execution -> Stage \cup {None}]
    /\ report \in [Execution -> Report]
    /\ author \in Execution \cup {None}
    /\ effect \in [Execution -> {"none", "applied", "undone"}]

(* The evidence an execution returns is true: a committed one has had its  *)
(* effect, one that attempted no rollback had none, and one that reports   *)
(* its source restored has none left.  Conversely, an effect that nothing  *)
(* fences any more was committed.                                          *)
EvidenceIsTrue == \A e \in Execution :
    /\ activeToken = None /\ author = e /\ effect[e] = "applied"
          => report[e] = "committed"
    /\ report[e] = "committed" => effect[e] = "applied"
    /\ report[e] = "notAttempted" => effect[e] = "none"
    /\ report[e] = "restored" => effect[e] = "undone"

(* The authoritative state: a transaction in progress is not yet visible.  *)
Authoritative ==
    IF activeToken = None THEN state ELSE source[activeToken[1]]

(* The backend implements a state that only ever moves to later            *)
(* generations, whatever is tried, fails, is half done or is rolled back.  *)
Whole == {s \in State : s.id # Partial}
V == INSTANCE VersionedState WITH State <- Whole, value <- Authoritative
ImplementsVersionedState == V!Spec
=============================================================================

-------------------------- MODULE CompositePrepare --------------------------
(***************************************************************************)
(* The trusted backends of a composite transaction, and the half of it     *)
(* that does not actuate (elastic-runtime, composite_prepare.rs).          *)
(*                                                                         *)
(* The backends are as the two traits promise them:                        *)
(* CompositePrepareBackend (composite_prepare.rs) and                      *)
(* CompositeTransactionBackend (composite_transaction.rs).  One owns one   *)
(* resource's visible state, at most one checkpoint of it, and at most one *)
(* reservation made by prepare().  An operator on a backend is the effect  *)
(* of ONE call that returned in the way its name says; the callers choose  *)
(* which.  A call that fails may have done part of its work: actuate() and *)
(* restore may leave the state Torn, a failed abort or commit may or may   *)
(* not have dropped the reservation.                                       *)
(*                                                                         *)
(* prepare_composite_plan validates every subplan, captures every          *)
(* checkpoint, then prepares every resource in the execution order of the  *)
(* plan; on a failure it unwinds.  abort_composite_prepare unwinds a       *)
(* successful prepare, and retry_composite_prepare_cleanup goes on with an *)
(* incomplete unwinding.                                                   *)
(*                                                                         *)
(* The caller owns one linear token at a time (`holding`): nothing, a      *)
(* prepared envelope, or a recovery envelope whose entries are `retained`. *)
(* It settles that token before it prepares the next plan; every call gets *)
(* a slice of backends of the caller's choice.  One action is one backend  *)
(* call together with the bookkeeping the code does on its result.         *)
(***************************************************************************)
EXTENDS Naturals, FiniteSets, SequencesExt

CONSTANTS
    Resource,   \* logical resource ids of the group
    Backend,    \* backend instance identities (adapter name + instance id)
    Serves,     \* the resource a backend instance controls: resource_id()
    MaxAttempt, \* bound: how many composite plans the caller prepares
    Torn,       \* the visible state after a partial physical effect
    None        \* no checkpoint; no backend

ASSUME BackendAssumption ==
    /\ Serves \in [Backend -> Resource]
    /\ MaxAttempt \in Nat
    /\ None \notin Backend

(***************************************************************************)
(* A visible state is named by the attempt that targeted it (0 at start).  *)
(***************************************************************************)
Version == (0 .. MaxAttempt) \cup {Torn}

ASSUME ValueAssumption ==
    /\ Torn \notin Nat
    /\ None \notin Nat
    /\ None # Torn

VARIABLES
    visible,     \* visible[b]: the physical state of b
    checkpoint,  \* checkpoint[b]: the pre-act state b retains, or None
    reserved     \* reserved[b]: prepare() holds a reservation in b

backendVars == <<visible, checkpoint, reserved>>

BackendTypeOK ==
    /\ visible \in [Backend -> Version]
    /\ checkpoint \in [Backend -> Version \cup {None}]
    /\ reserved \in [Backend -> BOOLEAN]

BackendInit ==
    /\ visible = [b \in Backend |-> 0]
    /\ checkpoint = [b \in Backend |-> None]
    /\ reserved = [b \in Backend |-> FALSE]

-----------------------------------------------------------------------------
(* validate, verify, and any call that returned without touching b.        *)
Untouched == UNCHANGED backendVars

(* capture_pre_act_state: keep the current state, change nothing visible.  *)
CaptureCall(b) ==
    /\ checkpoint' = [checkpoint EXCEPT ![b] = visible[b]]
    /\ UNCHANGED <<visible, reserved>>

(* prepare: reserve, change nothing visible.                               *)
PrepareCall(b) ==
    /\ reserved' = [reserved EXCEPT ![b] = TRUE]
    /\ UNCHANGED <<visible, checkpoint>>

(* actuate: the physical effect.  Whatever it returned, the state may be   *)
(* the target, the old state or something in between; verify() tells.      *)
ActuateCall(b, target) ==
    /\ \E v \in {target, Torn, visible[b]} :
          visible' = [visible EXCEPT ![b] = v]
    /\ UNCHANGED <<checkpoint, reserved>>

(* commit: the local plan is finished; the reservation is consumed.        *)
CommitCall(b) ==
    /\ reserved' = [reserved EXCEPT ![b] = FALSE]
    /\ UNCHANGED <<visible, checkpoint>>

(* abort_prepare: undo a preparation that never reached actuation.         *)
AbortCall(b) ==
    /\ reserved' = [reserved EXCEPT ![b] = FALSE]
    /\ UNCHANGED <<visible, checkpoint>>

(* commit or abort_prepare that returned an error.                         *)
ReservationCallFails(b) ==
    /\ \E kept \in {FALSE, reserved[b]} :
          reserved' = [reserved EXCEPT ![b] = kept]
    /\ UNCHANGED <<visible, checkpoint>>

(* restore_pre_act_state with invariants_restored = true: the exact        *)
(* checkpointed state, valid after actuate and after a local commit.       *)
RestoreCall(b) ==
    /\ visible' = [visible EXCEPT ![b] = checkpoint[b]]
    /\ reserved' = [reserved EXCEPT ![b] = FALSE]
    /\ UNCHANGED checkpoint

(* restore_pre_act_state that failed or could not prove the restoration.   *)
RestoreCallFails(b) ==
    /\ \E v \in {visible[b], checkpoint[b], Torn} :
          visible' = [visible EXCEPT ![b] = v]
    /\ \E kept \in {FALSE, reserved[b]} :
          reserved' = [reserved EXCEPT ![b] = kept]
    /\ UNCHANGED checkpoint

(* release_pre_act_state: forget the checkpoint.                           *)
ReleaseCall(b) ==
    /\ checkpoint' = [checkpoint EXCEPT ![b] = None]
    /\ UNCHANGED <<visible, reserved>>

-----------------------------------------------------------------------------
(* The calls of a transaction.                                             *)

CONSTANT Order   \* execution order of the plan: required resources first

ASSUME OrderAssumption ==
    /\ Order \in Seq(Resource)
    /\ Len(Order) > 0
    /\ \A i, j \in 1 .. Len(Order) : Order[i] = Order[j] => i = j
    /\ \A r \in Resource : \E i \in 1 .. Len(Order) : Order[i] = r

VARIABLES
    pc,        \* the phase the running call is in, or "idle" between calls
    pos,       \* index into Order of the subplan a forward phase is at
    lookup,    \* backend_index of the running call: first match per resource
    bound,     \* the backend instance each prepared entry is bound to
    owed,      \* the recovery action an entry still needs
    todo,      \* entries the running cleanup loop has still to visit
    retained,  \* entries cleanup could not finish, in envelope order
    holding,   \* the linear token the caller owns
    outcome,   \* what the last call reported
    attempt,   \* number of the composite plan, and the target it asks for
    baseline   \* ghost: the visible state when the attempt began

callVars == <<pc, pos, lookup, todo>>
planVars == <<bound, attempt, baseline>>
tokenVars == <<retained, holding, outcome>>
prepareVars == <<backendVars, callVars, planVars, tokenVars, owed>>

Action == {"none", "Abort", "Restore", "Release"}
Outcome == {"open", "Prepared", "Committed", "RolledBack", "RecoveryRequired"}
Token == {"none", "prepared", "prepareRecovery",
          "transactionRecovery", "commitCleanup"}
Phase == {"idle", "validate", "capture", "prepare", "abort", "release",
          "retry", "act", "verify", "commit", "recover", "finalize"}

NoLookup == [r \in Resource |-> None]

(***************************************************************************)
(* A slice is what a caller passes as `backends`; `lookup` is what         *)
(* backend_index finds in it: the first backend with that resource id.     *)
(***************************************************************************)
Slice ==
    {s \in [offered : SUBSET Backend, lookup : [Resource -> Backend \cup {None}]] :
        \A r \in Resource :
            LET matches == {b \in s.offered : Serves[b] = r} IN
            IF matches = {} THEN s.lookup[r] = None ELSE s.lookup[r] \in matches}

(* validate_backend_set: exactly the expected resources, each once.        *)
ExactSlice(s, expected) ==
    /\ Cardinality(s.offered) = Cardinality(expected)
    /\ {Serves[b] : b \in s.offered} = expected

(* Every entry of rs finds the instance it was prepared on.                *)
BoundSlice(s, rs) == \A r \in rs : s.lookup[r] = bound[r]

(* validate_prepared_backend_inventory, validate_recovery_backend_inventory *)
MatchingSlice(s, rs) == ExactSlice(s, rs) /\ BoundSlice(s, rs)

Current == Order[pos]
AtLast == pos = Len(Order)
UpTo(n) == Reverse(SubSeq(Order, 1, n))

-----------------------------------------------------------------------------
(* Control helpers.                                                        *)

(* The running call returns; the envelope it hands back is `retained`.     *)
Return(token, result) ==
    /\ pc' = "idle"
    /\ pos' = 1
    /\ lookup' = NoLookup
    /\ todo' = <<>>
    /\ holding' = token
    /\ outcome' = result

(* A cleanup loop starts over `entries` with the current backends.         *)
Unwind(phase, entries) ==
    /\ pc' = phase
    /\ pos' = 1
    /\ todo' = entries
    /\ retained' = <<>>
    /\ UNCHANGED <<lookup, holding, outcome>>

(* A forward phase goes to the next subplan, or to the next phase.         *)
Advance(nextPhase) ==
    /\ pc' = IF AtLast THEN nextPhase ELSE pc
    /\ pos' = IF AtLast THEN 1 ELSE pos + 1
    /\ UNCHANGED <<lookup, todo>>

Owe(r, action) == owed' = [owed EXCEPT ![r] = action]

(* The loop is done with its head entry, which owes `action` no more.      *)
Discharged(r, next) ==
    /\ Owe(r, next)
    /\ todo' = Tail(todo)
    /\ UNCHANGED <<pc, pos, lookup>>
    /\ UNCHANGED tokenVars

(* The loop keeps its head entry for the envelope it will return.          *)
Keep(r) ==
    /\ retained' = Append(retained, r)
    /\ todo' = Tail(todo)
    /\ UNCHANGED <<pc, pos, lookup, owed, holding, outcome>>

-----------------------------------------------------------------------------
(* prepare_composite_plan *)

PrepareInit ==
    /\ BackendInit
    /\ pc = "idle" /\ pos = 1 /\ lookup = NoLookup /\ todo = <<>>
    /\ bound = NoLookup /\ attempt = 0 /\ baseline = visible
    /\ retained = <<>> /\ holding = "none" /\ outcome = "RolledBack"
    /\ owed = [r \in Resource |-> "none"]

BeginPrepare(s) ==
    /\ pc = "idle" /\ holding = "none" /\ attempt < MaxAttempt
    /\ ExactSlice(s, Resource)
    /\ pc' = "validate" /\ pos' = 1
    /\ lookup' = s.lookup /\ bound' = s.lookup
    /\ attempt' = attempt + 1 /\ baseline' = visible
    /\ outcome' = "open"
    /\ UNCHANGED <<backendVars, owed, todo, retained, holding>>

(* Bind failure: no backend was called.                                    *)
BeginPrepareRefused(s) ==
    /\ pc = "idle" /\ holding = "none" /\ attempt < MaxAttempt
    /\ ~ExactSlice(s, Resource)
    /\ attempt' = attempt + 1 /\ baseline' = visible
    /\ outcome' = "RolledBack"
    /\ UNCHANGED <<backendVars, callVars, owed, bound, retained, holding>>

(* Phase 1: every validation passes before any backend is asked to act.    *)
ValidatePasses ==
    /\ pc = "validate"
    /\ Advance("capture")
    /\ Untouched /\ UNCHANGED <<planVars, tokenVars, owed>>

ValidateRefuses ==
    /\ pc = "validate"
    /\ Return("none", "RolledBack")
    /\ Untouched /\ UNCHANGED <<planVars, owed, retained>>

(* Phase 2: every checkpoint is captured before the first prepare.         *)
CaptureSucceeds ==
    /\ pc = "capture"
    /\ CaptureCall(lookup[Current])
    /\ Owe(Current, "Release")
    /\ Advance("prepare")
    /\ UNCHANGED <<planVars, tokenVars>>

CaptureFails ==
    /\ pc = "capture"
    /\ Untouched
    /\ Unwind("release", UpTo(pos - 1))
    /\ UNCHANGED <<planVars, owed>>

(* The checkpoint names another resource or backend: it is released first. *)
CaptureMisbound ==
    /\ pc = "capture"
    /\ CaptureCall(lookup[Current])
    /\ Owe(Current, "Release")
    /\ Unwind("release", UpTo(pos))
    /\ UNCHANGED planVars

(* Phase 3: every resource is prepared; nothing is actuated here.          *)
PrepareSucceeds ==
    /\ pc = "prepare"
    /\ PrepareCall(lookup[Current])
    /\ Owe(Current, "Abort")
    /\ \/ ~AtLast /\ Advance("prepare") /\ UNCHANGED <<holding, outcome>>
       \/ AtLast /\ Return("prepared", "Prepared")
    /\ UNCHANGED <<planVars, retained>>

PrepareFails ==
    /\ pc = "prepare"
    /\ Untouched
    /\ Unwind("abort", UpTo(pos - 1))
    /\ UNCHANGED <<planVars, owed>>

(* The actuation does not match the plan: it is aborted like the others.   *)
PrepareMisbound ==
    /\ pc = "prepare"
    /\ PrepareCall(lookup[Current])
    /\ Owe(Current, "Abort")
    /\ Unwind("abort", UpTo(pos))
    /\ UNCHANGED planVars

-----------------------------------------------------------------------------
(* cleanup_prepared and release_checkpoints.  Their branches for a missing *)
(* or replaced backend are dead here: the slice of the call was validated. *)

(* Pass 1 ("abort") goes on; a retry releases the same entry next.         *)
AbortSucceeds ==
    /\ pc \in {"abort", "retry"} /\ todo # <<>>
    /\ LET r == Head(todo) IN
          /\ owed[r] = "Abort"
          /\ AbortCall(lookup[r])
          /\ Owe(r, "Release")
    /\ todo' = IF pc = "abort" THEN Tail(todo) ELSE todo
    /\ UNCHANGED <<pc, pos, lookup, planVars, tokenVars>>

AbortFails ==
    /\ pc \in {"abort", "retry"} /\ todo # <<>>
    /\ owed[Head(todo)] = "Abort"
    /\ ReservationCallFails(lookup[Head(todo)])
    /\ Keep(Head(todo))
    /\ UNCHANGED planVars

(* Pass 2 visits every checkpoint of the plan.                             *)
AbortPassEnds ==
    /\ pc = "abort" /\ todo = <<>>
    /\ pc' = "release" /\ todo' = Reverse(Order)
    /\ UNCHANGED <<backendVars, pos, lookup, planVars, tokenVars, owed>>

(* retain_without_release: a failed abort still needs its checkpoint.      *)
ReleaseSkips ==
    /\ pc = "release" /\ todo # <<>>
    /\ owed[Head(todo)] = "Abort"
    /\ todo' = Tail(todo)
    /\ UNCHANGED <<backendVars, pc, pos, lookup, planVars, tokenVars, owed>>

ReleaseSucceeds ==
    /\ pc \in {"release", "retry"} /\ todo # <<>>
    /\ owed[Head(todo)] = "Release"
    /\ ReleaseCall(lookup[Head(todo)])
    /\ Discharged(Head(todo), "none")
    /\ UNCHANGED planVars

(* Mutant: the failed release is not kept for the envelope.                *)
ReleaseFailureDropped ==
    /\ pc \in {"release", "retry"} /\ todo # <<>>
    /\ owed[Head(todo)] = "Release"
    /\ Untouched
    /\ Discharged(Head(todo), "none")
    /\ UNCHANGED planVars

ReleaseFails ==
    /\ pc \in {"release", "retry"} /\ todo # <<>>
    /\ owed[Head(todo)] = "Release"
    /\ Untouched
    /\ Keep(Head(todo))
    /\ UNCHANGED planVars

(* with_cleanup_result: an envelope is returned iff an entry was retained. *)
PrepareCleanupReturns ==
    /\ pc \in {"release", "retry"} /\ todo = <<>>
    /\ IF retained = <<>> THEN Return("none", "RolledBack")
                          ELSE Return("prepareRecovery", "RecoveryRequired")
    /\ UNCHANGED <<backendVars, planVars, owed, retained>>

-----------------------------------------------------------------------------
(* The caller's entry points on a token it holds.                          *)

(* The token is consumed and a cleanup loop starts on the caller's slice.  *)
Consume(s, phase, entries) ==
    /\ pc' = phase
    /\ lookup' = s.lookup
    /\ todo' = entries
    /\ retained' = <<>>
    /\ holding' = "none"
    /\ UNCHANGED <<backendVars, pos, planVars, owed>>

AbortComposite(s) ==
    /\ pc = "idle" /\ holding = "prepared"
    /\ MatchingSlice(s, Resource)
    /\ Consume(s, "abort", Reverse(Order))
    /\ outcome' = "open"

(* from_prepared: the wrong backends turn the token into a recovery one.   *)
AbortCompositeRefused(s) ==
    /\ pc = "idle" /\ holding = "prepared"
    /\ ~MatchingSlice(s, Resource)
    /\ retained' = Reverse(Order)
    /\ holding' = "prepareRecovery"
    /\ outcome' = "RecoveryRequired"
    /\ UNCHANGED <<backendVars, callVars, planVars, owed>>

(* A retry with the wrong backends hands the same token back: no change.   *)
RetryPrepareCleanup(s) ==
    /\ pc = "idle" /\ holding = "prepareRecovery"
    /\ MatchingSlice(s, ToSet(retained))
    /\ Consume(s, "retry", retained)
    /\ outcome' = "open"

-----------------------------------------------------------------------------
PrepareRuntimeStep ==
    \/ ValidatePasses \/ ValidateRefuses
    \/ CaptureSucceeds \/ CaptureFails \/ CaptureMisbound
    \/ PrepareSucceeds \/ PrepareFails \/ PrepareMisbound
    \/ AbortSucceeds \/ AbortFails \/ AbortPassEnds
    \/ ReleaseSkips \/ ReleaseSucceeds \/ ReleaseFails
    \/ PrepareCleanupReturns

PrepareCallerStep ==
    /\ pc = "idle"
    /\ \E s \in Slice :
          \/ BeginPrepare(s) \/ BeginPrepareRefused(s)
          \/ AbortComposite(s) \/ AbortCompositeRefused(s)
          \/ RetryPrepareCleanup(s)
=============================================================================

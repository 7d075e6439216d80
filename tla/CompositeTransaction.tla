------------------------ MODULE CompositeTransaction ------------------------
(***************************************************************************)
(* The composite transaction (elastic-runtime, composite_transaction.rs)   *)
(* on top of the prepare boundary: execute_composite_transaction takes a   *)
(* prepared envelope through ACT, VERIFY and COMMIT, and on any failure or *)
(* cancellation before the last local commit recovers every entry in       *)
(* reverse order.  The two retry functions go on with a recovery that, or  *)
(* a checkpoint release that, could not be finished.                       *)
(*                                                                         *)
(* EntryPhase and next_action of the code are one function here: `owed[r]` *)
(* is "Abort" for a Prepared entry and "Restore" for an Actuated or a      *)
(* Committed one, which is exactly how recover_entries maps them.          *)
(***************************************************************************)
EXTENDS CompositePrepare

VARIABLE cancelled   \* the CancellationToken, set by another thread

vars == <<prepareVars, cancelled>>

(* Mutant: any backend of the right resource will do.                      *)
ReachableByResource(r) == lookup[r] # None

Reachable(r) == lookup[r] = bound[r]

Init == PrepareInit /\ cancelled = FALSE

-----------------------------------------------------------------------------
(* execute_composite_transaction *)

(* validate_transaction_backends: as many backends as entries, each entry  *)
(* finding the instance it is bound to.                                    *)
TransactionSlice(s) ==
    /\ Cardinality(s.offered) = Cardinality(Resource)
    /\ BoundSlice(s, Resource)

Execute(s) ==
    /\ pc = "idle" /\ holding = "prepared"
    /\ TransactionSlice(s) /\ ~cancelled
    /\ Consume(s, "act", <<>>)
    /\ outcome' = "open"

(* Wrong backends, or cancelled before actuation: recover what can be      *)
(* reached of the entries through the slice that was passed.               *)
ExecuteRefused(s) ==
    /\ pc = "idle" /\ holding = "prepared"
    /\ ~TransactionSlice(s) \/ cancelled
    /\ Consume(s, "recover", Reverse(Order))
    /\ outcome' = "open"

(* Mutant: recovery goes in the order of execution.                        *)
RecoverForward == Unwind("recover", Order) /\ UNCHANGED planVars

(* recover_entries: all of them, dependents first.                         *)
Recover == Unwind("recover", Reverse(Order)) /\ UNCHANGED planVars

(* The flag is read before every actuation, verification and commit.       *)
CancellationObserved ==
    /\ pc \in {"act", "verify", "commit"} /\ cancelled
    /\ Untouched /\ UNCHANGED owed
    /\ Recover

(* The entry counts as actuated before the call: an error may have left a  *)
(* partial effect.                                                         *)
Actuating ==
    /\ pc = "act" /\ ~cancelled
    /\ Owe(Current, "Restore")
    /\ ActuateCall(lookup[Current], attempt)

ActuateSucceeds ==
    /\ Actuating
    /\ Advance("verify")
    /\ UNCHANGED <<planVars, tokenVars>>

ActuateFails == Actuating /\ Recover

VerifyPasses ==
    /\ pc = "verify" /\ ~cancelled
    /\ visible[lookup[Current]] = attempt
    /\ Advance("commit")
    /\ Untouched /\ UNCHANGED <<planVars, tokenVars, owed>>

(* An error, a failed or an inconclusive verification.                     *)
VerifyFails ==
    /\ pc = "verify" /\ ~cancelled
    /\ Untouched /\ UNCHANGED owed
    /\ Recover

CommitSucceeds ==
    /\ pc = "commit" /\ ~cancelled /\ ~AtLast
    /\ CommitCall(lookup[Current])
    /\ Advance("commit")
    /\ UNCHANGED <<planVars, tokenVars, owed>>

(* The last local commit is the global one: only checkpoints are left.     *)
GlobalCommit ==
    /\ pc = "commit" /\ ~cancelled /\ AtLast
    /\ CommitCall(lookup[Current])
    /\ owed' = [r \in Resource |-> "Release"]
    /\ pc' = "finalize" /\ pos' = 1 /\ todo' = Reverse(Order)
    /\ outcome' = "Committed"
    /\ UNCHANGED <<lookup, planVars, retained, holding>>

(* Mutant: a failed local commit ends the call, as if nothing was done.    *)
CommitFailureReturns ==
    /\ pc = "commit" /\ ~cancelled
    /\ ReservationCallFails(lookup[Current])
    /\ Return("none", "RolledBack")
    /\ UNCHANGED <<planVars, owed, retained>>

CommitFails ==
    /\ pc = "commit" /\ ~cancelled
    /\ ReservationCallFails(lookup[Current])
    /\ UNCHANGED owed
    /\ Recover

-----------------------------------------------------------------------------
(* recover_recovery_entries: per entry, undo and then release; an entry    *)
(* that fails is kept and the loop goes on with the next one.              *)

Visiting(phase, action) ==
    /\ pc = phase /\ todo # <<>>
    /\ owed[Head(todo)] = action

RecoverUnreachable ==
    /\ pc \in {"recover", "finalize"} /\ todo # <<>>
    /\ ~Reachable(Head(todo))
    /\ Untouched
    /\ Keep(Head(todo))
    /\ UNCHANGED planVars

(* The same entry is released next.                                        *)
UndoneNext ==
    /\ Owe(Head(todo), "Release")
    /\ UNCHANGED <<callVars, planVars, tokenVars>>

RecoverAborts ==
    /\ Visiting("recover", "Abort") /\ Reachable(Head(todo))
    /\ AbortCall(lookup[Head(todo)])
    /\ UndoneNext

RecoverAbortFails ==
    /\ Visiting("recover", "Abort") /\ Reachable(Head(todo))
    /\ ReservationCallFails(lookup[Head(todo)])
    /\ Keep(Head(todo))
    /\ UNCHANGED planVars

RecoverRestores ==
    /\ Visiting("recover", "Restore") /\ Reachable(Head(todo))
    /\ RestoreCall(lookup[Head(todo)])
    /\ UndoneNext

(* Mutant: a failed restoration is tried again on the spot.                *)
RestoreUntilItWorks ==
    /\ Visiting("recover", "Restore") /\ Reachable(Head(todo))
    /\ RestoreCallFails(lookup[Head(todo)])
    /\ UNCHANGED <<callVars, planVars, tokenVars, owed>>

(* An error, or a record with invariants_restored = false.                 *)
RecoverRestoreFails ==
    /\ Visiting("recover", "Restore") /\ Reachable(Head(todo))
    /\ RestoreCallFails(lookup[Head(todo)])
    /\ Keep(Head(todo))
    /\ UNCHANGED planVars

(* Also the loop body of release_committed_checkpoints.                    *)
RecoverReleases ==
    /\ Visiting("recover", "Release") \/ Visiting("finalize", "Release")
    /\ Reachable(Head(todo))
    /\ ReleaseCall(lookup[Head(todo)])
    /\ Discharged(Head(todo), "none")
    /\ UNCHANGED planVars

RecoverReleaseFails ==
    /\ Visiting("recover", "Release") \/ Visiting("finalize", "Release")
    /\ Reachable(Head(todo))
    /\ Untouched
    /\ Keep(Head(todo))
    /\ UNCHANGED planVars

(* with_recovery_result: RolledBack iff nothing was retained.              *)
RecoveryReturns ==
    /\ pc = "recover" /\ todo = <<>>
    /\ IF retained = <<>>
       THEN Return("none", "RolledBack")
       ELSE Return("transactionRecovery", "RecoveryRequired")
    /\ UNCHANGED <<backendVars, planVars, owed, retained>>

(* The transaction is committed whether or not checkpoints are left.       *)
FinalizeReturns ==
    /\ pc = "finalize" /\ todo = <<>>
    /\ Return(IF retained = <<>> THEN "none" ELSE "commitCleanup", "Committed")
    /\ UNCHANGED <<backendVars, planVars, owed, retained>>

-----------------------------------------------------------------------------
(* validate_recovery_backends; a refused retry hands the token back.       *)
RetryRecovery(s) ==
    /\ pc = "idle" /\ holding = "transactionRecovery"
    /\ Cardinality(s.offered) = Len(retained)
    /\ BoundSlice(s, ToSet(retained))
    /\ Consume(s, "recover", retained)
    /\ outcome' = "open"

(* retry_composite_commit_cleanup takes any slice and skips what it lacks. *)
RetryCommitCleanup(s) ==
    /\ pc = "idle" /\ holding = "commitCleanup"
    /\ Consume(s, "finalize", retained)
    /\ UNCHANGED outcome

(* Another thread raises the flag of the transaction's token.              *)
Cancel ==
    /\ holding = "prepared" \/ pc \in {"act", "verify", "commit"}
    /\ ~cancelled
    /\ cancelled' = TRUE
    /\ UNCHANGED prepareVars

-----------------------------------------------------------------------------
TransactionRuntimeStep ==
    \/ CancellationObserved
    \/ ActuateSucceeds \/ ActuateFails
    \/ VerifyPasses \/ VerifyFails
    \/ CommitSucceeds \/ GlobalCommit \/ CommitFails
    \/ RecoverUnreachable
    \/ RecoverAborts \/ RecoverAbortFails
    \/ RecoverRestores \/ RecoverRestoreFails
    \/ RecoverReleases \/ RecoverReleaseFails
    \/ RecoveryReturns \/ FinalizeReturns

TransactionCallerStep ==
    /\ pc = "idle"
    /\ \E s \in Slice :
          \/ Execute(s) \/ ExecuteRefused(s)
          \/ RetryRecovery(s) \/ RetryCommitCleanup(s)

(* What the library does inside a call, once it was called.                *)
RuntimeStep ==
    /\ PrepareRuntimeStep \/ TransactionRuntimeStep
    /\ UNCHANGED cancelled

(* What the caller decides.  Every transaction gets a fresh token.         *)
CallerStep ==
    \/ PrepareCallerStep /\ cancelled' = (cancelled /\ attempt' = attempt)
    \/ TransactionCallerStep /\ UNCHANGED cancelled

(* Every plan is prepared and every token settled: an end of the bound.    *)
Finished ==
    /\ pc = "idle" /\ holding = "none" /\ attempt = MaxAttempt
    /\ UNCHANGED vars

Next == RuntimeStep \/ CallerStep \/ Cancel \/ Finished

Spec == Init /\ [][Next]_vars

(* A call runs to its end: backend calls return and the loops go on.  The  *)
(* caller and the cancelling thread are under no obligation.               *)
FairSpec == Spec /\ WF_vars(RuntimeStep)

-----------------------------------------------------------------------------
(* Properties.                                                             *)

(* Every variable keeps its type, the slice and the token included.        *)
CallTypeOK ==
    /\ pc \in Phase /\ pos \in 1 .. Len(Order)
    /\ lookup \in [Resource -> Backend \cup {None}]
    /\ todo \in Seq(Resource)

PlanTypeOK ==
    /\ bound \in [Resource -> Backend \cup {None}]
    /\ attempt \in 0 .. MaxAttempt
    /\ baseline \in [Backend -> Version]

TokenTypeOK ==
    /\ retained \in Seq(Resource)
    /\ holding \in Token /\ outcome \in Outcome

TypeOK ==
    /\ BackendTypeOK /\ CallTypeOK /\ PlanTypeOK /\ TokenTypeOK
    /\ owed \in [Resource -> Action]
    /\ cancelled \in BOOLEAN

(* What the caller is told is what happened to the whole group: Committed  *)
(* means that every resource shows the target, RolledBack (the disposition *)
(* RolledBack, or a failure without a recovery envelope) that every        *)
(* backend shows what it showed before, and that nothing is left behind.   *)
AtomicOutcome ==
    pc = "idle" =>
        /\ outcome = "Committed" =>
              \A r \in Resource : visible[bound[r]] = attempt
        /\ outcome = "RolledBack" =>
              /\ visible = baseline
              /\ \A b \in Backend : checkpoint[b] = None /\ ~reserved[b]

(* Between calls, every checkpoint and every reservation that a backend    *)
(* still holds is the business of exactly one entry of the caller's token, *)
(* and that entry's next action is one that gets rid of it: a failed       *)
(* cleanup never loses an obligation.                                      *)
NothingLeaks ==
    pc = "idle" =>
        LET entries == IF holding = "prepared" THEN Reverse(Order) ELSE retained
        IN  /\ \A i, j \in DOMAIN entries : entries[i] = entries[j] => i = j
            /\ ToSet(entries) = {r \in Resource : owed[r] # "none"}
            /\ \A b \in Backend :
                  checkpoint[b] # None \/ reserved[b] =>
                      \E r \in ToSet(entries) :
                          bound[r] = b /\ (reserved[b] => owed[r] # "Release")

(* The next action of an entry undoes all that was done to its backend: a  *)
(* state that differs from the baseline is owed a restore and still has    *)
(* its checkpoint; abort_prepare is never left for a touched resource; a   *)
(* checkpoint is released only when it is no longer needed.                *)
RecoverySuffices ==
    \A r \in Resource :
        bound[r] # None /\ outcome # "Committed" =>
            /\ visible[bound[r]] # baseline[bound[r]] => owed[r] = "Restore"
            /\ reserved[bound[r]] => owed[r] \in {"Abort", "Restore"}
            /\ owed[r] \in {"Abort", "Restore"} =>
                  checkpoint[bound[r]] = baseline[bound[r]]

(* No backend commits locally before every one of them was actuated and    *)
(* verified at the target.                                                 *)
CommitWindowVerified ==
    pc = "commit" => \A r \in Resource : visible[bound[r]] = attempt

(* Whatever slices later calls are given, only the instances the plan was  *)
(* prepared on are touched: a replaced backend is left alone.              *)
OnlyBoundInstances ==
    [][\A b \in Backend :
          \/ \E r \in Resource : bound[r] = b
          \/ /\ visible'[b] = visible[b]
             /\ checkpoint'[b] = checkpoint[b]
             /\ reserved'[b] = reserved[b]]_vars

(* A required resource is restored only after every resource that was      *)
(* actuated after it was restored, or was tried in this call and kept.     *)
DependentsFirst ==
    [][\A i \in 1 .. Len(Order) : \A j \in i + 1 .. Len(Order) :
          owed[Order[i]] = "Restore" /\ owed'[Order[i]] = "Release" =>
              owed[Order[j]] # "Restore" \/ Order[j] \in ToSet(retained)
                \/ outcome' = "Committed"]_vars

(* A call that was made returns, whatever its backends answer and whenever *)
(* it is cancelled.                                                        *)
CallReturns == pc # "idle" ~> pc = "idle"

-----------------------------------------------------------------------------
(* The inductive invariant behind AtomicOutcome, RecoverySuffices and      *)
(* CommitWindowVerified.                                                   *)

PlanBound == \A r \in Resource : bound[r] \in Backend /\ Serves[bound[r]] = r

(* Only the first plan is unbound; outside the loops that skip unreachable *)
(* entries the running call sees exactly the instances of the plan.        *)
BindingInv ==
    /\ \/ PlanBound
       \/ /\ \A r \in Resource : bound[r] = None
          /\ pc = "idle" /\ holding = "none" /\ outcome = "RolledBack"
    /\ pc \notin {"idle", "retry", "recover", "finalize"} => lookup = bound
    /\ pc = "retry" => \A r \in ToSet(todo) : lookup[r] = bound[r]

(* What a bound backend may look like, given what its entry owes.          *)
EntryInv(b, action) ==
    /\ action = "Restore" => outcome # "Committed"
    /\ action = "Abort" => outcome # "Committed"
    /\ outcome = "Committed" => visible[b] = attempt
    /\ action # "Restore" /\ outcome # "Committed" => visible[b] = baseline[b]
    /\ action \in {"Abort", "Restore"} => checkpoint[b] = baseline[b]
    /\ action \in {"none", "Release"} => ~reserved[b]
    /\ action = "none" => checkpoint[b] = None

(* Every other backend is as the attempt found it.                         *)
BackendInv ==
    \A b \in Backend :
        IF bound[Serves[b]] = b
        THEN EntryInv(b, owed[Serves[b]])
        ELSE visible[b] = baseline[b] /\ checkpoint[b] = None /\ ~reserved[b]

(* How far a forward phase got is how far the owed actions changed.        *)
ForwardInv ==
    /\ pc = "idle" => pos = 1
    /\ pc = "validate" => \A r \in Resource : owed[r] = "none"
    /\ pc = "capture" =>
          \A i \in 1 .. Len(Order) :
              IF i < pos
              THEN /\ owed[Order[i]] = "Release"
                   /\ checkpoint[bound[Order[i]]] = baseline[bound[Order[i]]]
              ELSE owed[Order[i]] = "none"
    /\ pc = "prepare" =>
          \A i \in 1 .. Len(Order) :
              /\ owed[Order[i]] = IF i < pos THEN "Abort" ELSE "Release"
              /\ checkpoint[bound[Order[i]]] = baseline[bound[Order[i]]]
    /\ pc = "act" =>
          \A i \in 1 .. Len(Order) :
              owed[Order[i]] = IF i < pos THEN "Restore" ELSE "Abort"
    /\ pc \in {"verify", "commit"} => \A r \in Resource : owed[r] = "Restore"
    /\ pc = "verify" =>
          \A i \in 1 .. Len(Order) :
              i < pos => visible[bound[Order[i]]] = attempt
    /\ pc = "commit" =>
          \A i \in 1 .. Len(Order) :
              /\ visible[bound[Order[i]]] = attempt
              /\ i < pos => ~reserved[bound[Order[i]]]

(* Whatever is owed is on the running loop's list or was kept for the      *)
(* envelope; between calls it is in the envelope.                          *)
Pending == ToSet(todo) \cup ToSet(retained)

ObligationInv ==
    /\ pc = "abort" => \A r \in Resource : owed[r] = "Abort" => r \in Pending
    /\ pc = "release" =>
          \A r \in Resource : /\ owed[r] = "Abort" => r \in ToSet(retained)
                              /\ owed[r] = "Release" => r \in Pending
    /\ pc \in {"retry", "recover", "finalize"} =>
          \A r \in Resource : owed[r] # "none" => r \in Pending
    /\ pc \in {"abort", "release", "retry"} =>
          \A r \in Resource : owed[r] # "Restore"
    /\ pc = "finalize" => \A r \in Resource : owed[r] \in {"none", "Release"}

TokenInv ==
    /\ pc # "idle" => holding = "none"
    /\ pc = "idle" =>
          /\ holding = "none" => outcome \in {"RolledBack", "Committed"}
          /\ holding = "none" => \A r \in Resource : owed[r] = "none"
          /\ holding = "prepared" => \A r \in Resource : owed[r] = "Abort"
          /\ holding \in {"prepareRecovery", "transactionRecovery", "commitCleanup"} =>
                \A r \in Resource : owed[r] # "none" => r \in ToSet(retained)
          /\ holding = "prepareRecovery" => \A r \in Resource : owed[r] # "Restore"
    /\ outcome = "RolledBack" => pc = "idle" /\ holding = "none"
    /\ outcome = "Committed" =>
          \/ pc = "finalize"
          \/ pc = "idle" /\ holding \in {"none", "commitCleanup"}
    /\ pc = "finalize" \/ holding = "commitCleanup" => outcome = "Committed"

(* The strengthening that every step preserves.                            *)
IInv ==
    TypeOK /\ BindingInv /\ BackendInv /\ ForwardInv /\ ObligationInv /\ TokenInv

(* What NothingLeaks needs beyond it: the lists name each entry once.  An  *)
(* entry is on both only in the release pass, when its abort failed: the   *)
(* pass goes over the whole plan and skips it.                             *)
Cleaning == pc \in {"abort", "release", "retry", "recover", "finalize"}

ListInv ==
    /\ IsInjective(todo) /\ IsInjective(retained)
    /\ \A r \in ToSet(todo) \cap ToSet(retained) : pc = "release" /\ owed[r] = "Abort"
    /\ \A r \in Pending : owed[r] # "none"
    /\ pc = "abort" => /\ \A r \in Resource : owed[r] # "none"
                       /\ \A r \in ToSet(retained) : owed[r] = "Abort"
    /\ ~Cleaning => todo = <<>>
    /\ retained # <<>> =>
          \/ Cleaning
          \/ holding \in {"prepareRecovery", "transactionRecovery", "commitCleanup"}

(* What DependentsFirst needs: recovery lists go against the order of the  *)
(* plan, what was kept comes before what is still to be visited.           *)
Precedes(r, t) ==
    \E i \in 1 .. Len(Order) : \E j \in i + 1 .. Len(Order) : Order[i] = r /\ Order[j] = t

AgainstOrder(s) ==
    \A j \in DOMAIN s : \A i \in 1 .. j - 1 : Precedes(s[j], s[i])

OrderInv ==
    /\ pc = "recover" =>
          /\ AgainstOrder(todo) /\ AgainstOrder(retained)
          /\ \A r \in ToSet(todo), t \in ToSet(retained) : Precedes(r, t)
    /\ holding = "transactionRecovery" => AgainstOrder(retained)

-----------------------------------------------------------------------------
(* The transaction implements the abstract group: while an attempt is      *)
(* open, the settled versions are those it began with.                     *)
Open == ~ \/ outcome = "Committed"
          \/ outcome = "RolledBack"

Group == INSTANCE AtomicGroup WITH
    Member <- Backend,
    status <- IF Open THEN "open" ELSE outcome,
    participants <- {bound[r] : r \in Resource} \ {None},
    version <- IF Open THEN baseline ELSE visible

(* Everything a caller can see of a transaction is what AtomicGroup does.  *)
ImplementsAtomicGroup == Group!Spec
=============================================================================

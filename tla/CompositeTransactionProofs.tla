--------------------- MODULE CompositeTransactionProofs ---------------------
(***************************************************************************)
(* Proofs about the composite transaction for every set of resources and   *)
(* backends, every execution order and every number of attempts.           *)
(***************************************************************************)
EXTENDS CompositeTransaction, TLAPS

-----------------------------------------------------------------------------
(* Lists of entries: what the cleanup loops do to todo and retained.       *)

(* Removing the head of a list leaves a list; nothing else is lost.        *)
LEMMA HeadTail ==
    ASSUME NEW S, NEW s \in Seq(S), s # <<>>
    PROVE  /\ Head(s) \in S
           /\ Tail(s) \in Seq(S)
           /\ ToSet(s) = {Head(s)} \cup ToSet(Tail(s))
  <1>1. Head(s) \in S /\ Tail(s) \in Seq(S) /\ Len(s) \in Nat \ {0}
    OBVIOUS
  <1>2. /\ DOMAIN s = 1 .. Len(s)
        /\ DOMAIN Tail(s) = 1 .. (Len(s) - 1)
        /\ \A i \in 1 .. (Len(s) - 1) : Tail(s)[i] = s[i + 1]
        /\ Head(s) = s[1]
    BY <1>1
  <1>3. ASSUME NEW e \in ToSet(s)
        PROVE  e \in {Head(s)} \cup ToSet(Tail(s))
    <2>1. PICK i \in 1 .. Len(s) : s[i] = e
      BY <1>2 DEF ToSet
    <2>2. CASE i = 1
      BY <2>1, <2>2, <1>2
    <2>3. CASE i # 1
      <3>1. i - 1 \in 1 .. (Len(s) - 1) /\ Tail(s)[i - 1] = e
        BY <2>1, <2>3, <1>1, <1>2
      <3>2. QED
        BY <3>1, <1>2 DEF ToSet
    <2>4. QED
      BY <2>2, <2>3
  <1>4. ASSUME NEW e \in {Head(s)} \cup ToSet(Tail(s))
        PROVE  e \in ToSet(s)
    <2>1. CASE e = Head(s)
      BY <2>1, <1>1, <1>2 DEF ToSet
    <2>2. CASE e \in ToSet(Tail(s))
      <3>1. PICK i \in 1 .. (Len(s) - 1) : Tail(s)[i] = e
        BY <2>2, <1>2 DEF ToSet
      <3>2. i + 1 \in 1 .. Len(s) /\ s[i + 1] = e
        BY <3>1, <1>1, <1>2
      <3>3. QED
        BY <3>2, <1>2 DEF ToSet
    <2>3. QED
      BY <1>4, <2>1, <2>2
  <1>5. QED
    BY <1>1, <1>3, <1>4

(* Keeping an entry adds exactly that entry.                               *)
LEMMA AppendElements ==
    ASSUME NEW S, NEW s \in Seq(S), NEW e \in S
    PROVE  /\ Append(s, e) \in Seq(S)
           /\ ToSet(Append(s, e)) = ToSet(s) \cup {e}
  <1>1. /\ Append(s, e) \in Seq(S)
        /\ Len(s) \in Nat
        /\ DOMAIN s = 1 .. Len(s)
        /\ DOMAIN Append(s, e) = 1 .. (Len(s) + 1)
        /\ \A i \in 1 .. Len(s) : Append(s, e)[i] = s[i]
        /\ Append(s, e)[Len(s) + 1] = e
    OBVIOUS
  <1>2. ASSUME NEW x \in ToSet(Append(s, e))
        PROVE  x \in ToSet(s) \cup {e}
    BY <1>1 DEF ToSet
  <1>3. ASSUME NEW x \in ToSet(s) \cup {e}
        PROVE  x \in ToSet(Append(s, e))
    BY <1>1 DEF ToSet
  <1>4. QED
    BY <1>1, <1>2, <1>3

(* Reversing a list keeps its elements.                                    *)
LEMMA ReverseElements ==
    ASSUME NEW S, NEW s \in Seq(S)
    PROVE  /\ Reverse(s) \in Seq(S)
           /\ ToSet(Reverse(s)) = ToSet(s)
  <1>1. /\ Len(s) \in Nat
        /\ DOMAIN s = 1 .. Len(s)
        /\ DOMAIN Reverse(s) = 1 .. Len(s)
        /\ \A i \in 1 .. Len(s) : Reverse(s)[i] = s[(Len(s) - i) + 1]
        /\ \A i \in 1 .. Len(s) : (Len(s) - i) + 1 \in 1 .. Len(s)
        /\ \A i \in 1 .. Len(s) : s[i] \in S
    BY DEF Reverse
  <1>2. Reverse(s) \in Seq(S)
    BY <1>1 DEF Reverse
  <1>3. ASSUME NEW x \in ToSet(s)
        PROVE  x \in ToSet(Reverse(s))
    <2>1. PICK i \in 1 .. Len(s) : s[i] = x
      BY <1>1 DEF ToSet
    <2>2. Reverse(s)[(Len(s) - i) + 1] = x
      BY <1>1, <2>1
    <2>3. QED
      BY <1>1, <2>2 DEF ToSet
  <1>4. ASSUME NEW x \in ToSet(Reverse(s))
        PROVE  x \in ToSet(s)
    BY <1>1 DEF ToSet
  <1>5. QED
    BY <1>2, <1>3, <1>4

(* The whole plan, unwound, is every resource.                             *)
LEMMA WholePlan ==
    /\ Reverse(Order) \in Seq(Resource)
    /\ ToSet(Reverse(Order)) = Resource
  <1>1. ToSet(Order) = Resource
    BY OrderAssumption DEF ToSet
  <1>2. QED
    BY <1>1, ReverseElements, OrderAssumption

(* The plan is a finite list of resources.                                 *)
LEMMA PlanEntries ==
    /\ Len(Order) \in Nat /\ 1 \in 1 .. Len(Order)
    /\ \A k \in 1 .. Len(Order) : Order[k] \in Resource
  <1>1. Order \in Seq(Resource) /\ Len(Order) > 0
    BY OrderAssumption
  <1>2. QED
    BY <1>1

(* The first n entries of the plan.                                        *)
LEMMA PlanHead ==
    ASSUME NEW n \in 0 .. Len(Order)
    PROVE  /\ SubSeq(Order, 1, n) \in Seq(Resource)
           /\ Len(SubSeq(Order, 1, n)) = n
           /\ DOMAIN SubSeq(Order, 1, n) = 1 .. n
           /\ \A i \in 1 .. n : SubSeq(Order, 1, n)[i] = Order[i]
           /\ \A i \in 1 .. n : i \in 1 .. Len(Order) /\ (i < n \/ i = n)
           /\ \A i \in 1 .. n : Order[i] \in Resource
  <1>1. Order \in Seq(Resource) /\ Len(Order) \in Nat /\ n \in Nat
    BY OrderAssumption
  <1>2. \A i \in 1 .. n : i \in 1 .. Len(Order) /\ (i < n \/ i = n)
    BY <1>1
  <1>3. \A i \in 1 .. n : Order[i] \in Resource
    BY <1>1, <1>2
  <1>4. /\ SubSeq(Order, 1, n) \in Seq(Resource)
        /\ Len(SubSeq(Order, 1, n)) = n
        /\ DOMAIN SubSeq(Order, 1, n) = 1 .. n
    BY <1>1
  <1>5. \A i \in 1 .. n : SubSeq(Order, 1, n)[i] = Order[i]
    BY <1>1
  <1>6. QED
    BY <1>2, <1>3, <1>4, <1>5

(* The first n entries of the plan, unwound.                               *)
LEMMA PlanPrefix ==
    ASSUME NEW n \in 0 .. Len(Order)
    PROVE  /\ UpTo(n) \in Seq(Resource)
           /\ \A i \in 1 .. n : Order[i] \in ToSet(UpTo(n))
  <1>1. /\ SubSeq(Order, 1, n) \in Seq(Resource)
        /\ DOMAIN SubSeq(Order, 1, n) = 1 .. n
        /\ \A i \in 1 .. n : SubSeq(Order, 1, n)[i] = Order[i]
    BY PlanHead
  <1>2. \A i \in 1 .. n : Order[i] \in ToSet(SubSeq(Order, 1, n))
    BY <1>1 DEF ToSet
  <1>3. QED
    BY <1>1, <1>2, ReverseElements DEF UpTo

(* The empty list has no entries.                                          *)
LEMMA EmptyList == ToSet(<<>>) = {} /\ <<>> \in Seq(Resource)
  BY DEF ToSet

-----------------------------------------------------------------------------
(* Types of the pieces an action is made of.                               *)

(* A forward phase is always at some resource of the plan.                 *)
LEMMA CurrentResource ==
    ASSUME CallTypeOK
    PROVE  Current \in Resource
  BY PlanEntries DEF CallTypeOK, Current

(* Every backend call but restore keeps the types of the backends.         *)
LEMMA BackendCallsTyped ==
    ASSUME BackendTypeOK, NEW b, NEW t \in Version,
           \/ Untouched \/ CaptureCall(b) \/ PrepareCall(b) \/ ActuateCall(b, t)
           \/ CommitCall(b) \/ AbortCall(b) \/ ReservationCallFails(b)
           \/ ReleaseCall(b)
    PROVE  BackendTypeOK'
  <1> USE DEF BackendTypeOK
  <1>1. CASE Untouched
    BY <1>1 DEF Untouched, backendVars
  <1>2. CASE CaptureCall(b)
    BY <1>2 DEF CaptureCall
  <1>3. CASE PrepareCall(b) \/ CommitCall(b) \/ AbortCall(b) \/ ReservationCallFails(b)
    BY <1>3 DEF PrepareCall, CommitCall, AbortCall, ReservationCallFails
  <1>4. CASE ActuateCall(b, t)
    BY <1>4 DEF ActuateCall, Version
  <1>5. CASE ReleaseCall(b)
    BY <1>5 DEF ReleaseCall
  <1>6. QED
    BY <1>1, <1>2, <1>3, <1>4, <1>5

(* Restoring keeps them as long as there is a checkpoint to restore.       *)
LEMMA RestoreTyped ==
    ASSUME BackendTypeOK, NEW b \in Backend, checkpoint[b] # None,
           RestoreCall(b) \/ RestoreCallFails(b)
    PROVE  BackendTypeOK'
  <1>1. checkpoint[b] \in Version
    BY DEF BackendTypeOK
  <1>2. CASE RestoreCall(b)
    BY <1>1, <1>2 DEF RestoreCall, BackendTypeOK
  <1>3. CASE RestoreCallFails(b)
    BY <1>1, <1>3 DEF RestoreCallFails, BackendTypeOK, Version
  <1>4. QED
    BY <1>2, <1>3

(* The control helpers keep the types of the call and of the token.        *)
LEMMA ControlTyped ==
    ASSUME CallTypeOK
    PROVE  /\ \A phase \in Phase : Advance(phase) => CallTypeOK'
           /\ \A token \in Token, result \in Outcome :
                 Return(token, result) => 
                    CallTypeOK' /\ holding' \in Token /\ outcome' \in Outcome
           /\ \A phase \in Phase, entries \in Seq(Resource) :
                 TokenTypeOK /\ Unwind(phase, entries) => CallTypeOK' /\ TokenTypeOK'
           /\ \A r \in Resource :
                 todo # <<>> /\ TokenTypeOK /\ Keep(r) => CallTypeOK' /\ TokenTypeOK'
  <1>1. ASSUME NEW phase \in Phase, Advance(phase) PROVE CallTypeOK'
    BY <1>1, PlanEntries DEF Advance, AtLast, CallTypeOK
  <1>2. ASSUME NEW token \in Token, NEW result \in Outcome, Return(token, result)
        PROVE  CallTypeOK' /\ holding' \in Token /\ outcome' \in Outcome
    BY <1>2, PlanEntries DEF Return, CallTypeOK, NoLookup, Phase
  <1>3. ASSUME NEW phase \in Phase, NEW entries \in Seq(Resource),
               TokenTypeOK, Unwind(phase, entries)
        PROVE  CallTypeOK' /\ TokenTypeOK'
    BY <1>3, PlanEntries DEF Unwind, CallTypeOK, TokenTypeOK
  <1>4. ASSUME NEW r \in Resource, todo # <<>>, TokenTypeOK, Keep(r)
        PROVE  CallTypeOK' /\ TokenTypeOK'
    BY <1>4, HeadTail, AppendElements DEF Keep, CallTypeOK, TokenTypeOK
  <1>5. QED
    BY <1>1, <1>2, <1>3, <1>4

-----------------------------------------------------------------------------
(* Type correctness, one action at a time.                                 *)

(* What every proof about a step starts from.                              *)
LEMMA IInvParts ==
    ASSUME IInv
    PROVE  /\ TypeOK /\ BackendTypeOK /\ CallTypeOK /\ PlanTypeOK /\ TokenTypeOK
           /\ owed \in [Resource -> Action] /\ cancelled \in BOOLEAN
           /\ BindingInv /\ BackendInv /\ ForwardInv /\ ObligationInv /\ TokenInv
  BY DEF IInv, TypeOK

(* The steps of prepare_composite_plan and its cleanup keep the types.     *)
LEMMA PrepareStepTyped ==
    ASSUME IInv, PrepareRuntimeStep, UNCHANGED cancelled
    PROVE  TypeOK'
  <1> USE IInvParts, CurrentResource, BackendCallsTyped, ControlTyped
      DEF TypeOK, Phase, Token, Outcome, Action, Owe, planVars, tokenVars
  <1>v. /\ UNCHANGED planVars /\ attempt \in Version => PlanTypeOK'
        /\ 0 \in Version
        /\ Untouched => BackendTypeOK'
    BY BackendAssumption DEF PlanTypeOK, Version, Untouched, backendVars, BackendTypeOK
  <1>u. UpTo(pos - 1) \in Seq(Resource) /\ UpTo(pos) \in Seq(Resource)
    BY PlanPrefix, OrderAssumption DEF CallTypeOK
  <1>1. CASE ValidatePasses
    BY <1>1, <1>v DEF ValidatePasses, TokenTypeOK, PlanTypeOK
  <1>2. CASE ValidateRefuses
    BY <1>2, <1>v DEF ValidateRefuses, TokenTypeOK, PlanTypeOK
  <1>3. CASE CaptureSucceeds
    BY <1>3, <1>v DEF CaptureSucceeds, TokenTypeOK, PlanTypeOK
  <1>4. CASE CaptureFails
    BY <1>4, <1>v, <1>u DEF CaptureFails, PlanTypeOK
  <1>5. CASE CaptureMisbound
    BY <1>5, <1>v, <1>u DEF CaptureMisbound, PlanTypeOK
  <1>6. CASE PrepareSucceeds
    BY <1>6, <1>v DEF PrepareSucceeds, TokenTypeOK, PlanTypeOK
  <1>7. CASE PrepareFails
    BY <1>7, <1>v, <1>u DEF PrepareFails, PlanTypeOK
  <1>8. CASE PrepareMisbound
    BY <1>8, <1>v, <1>u DEF PrepareMisbound, PlanTypeOK
  <1>9. CASE AbortSucceeds
    BY <1>9, <1>v, HeadTail DEF AbortSucceeds, TokenTypeOK, PlanTypeOK, CallTypeOK
  <1>10. CASE AbortFails
    BY <1>10, <1>v, HeadTail DEF AbortFails, PlanTypeOK, CallTypeOK, Keep
  <1>11. CASE AbortPassEnds
    BY <1>11, <1>v, WholePlan
    DEF AbortPassEnds, PlanTypeOK, CallTypeOK, TokenTypeOK, BackendTypeOK, backendVars
  <1>12. CASE ReleaseSkips
    BY <1>12, <1>v, HeadTail
    DEF ReleaseSkips, PlanTypeOK, CallTypeOK, TokenTypeOK, BackendTypeOK, backendVars
  <1>13. CASE ReleaseSucceeds
    BY <1>13, <1>v, HeadTail
    DEF ReleaseSucceeds, Discharged, PlanTypeOK, CallTypeOK, TokenTypeOK
  <1>14. CASE ReleaseFails
    BY <1>14, <1>v, HeadTail DEF ReleaseFails, PlanTypeOK, CallTypeOK, Keep
  <1>15. CASE PrepareCleanupReturns
    BY <1>15, <1>v
    DEF PrepareCleanupReturns, PlanTypeOK, TokenTypeOK, BackendTypeOK, backendVars
  <1>16. QED
    BY <1>1, <1>2, <1>3, <1>4, <1>5, <1>6, <1>7, <1>8, <1>9, <1>10, <1>11, <1>12,
       <1>13, <1>14, <1>15
    DEF PrepareRuntimeStep

(* An entry that must be aborted or restored still has its checkpoint.     *)
LEMMA OwedHasCheckpoint ==
    ASSUME IInv, pc # "idle", NEW r \in Resource
    PROVE  /\ PlanBound
           /\ bound[r] \in Backend /\ Serves[bound[r]] = r
           /\ EntryInv(bound[r], owed[r])
           /\ owed[r] \in {"Abort", "Restore"} =>
                 /\ checkpoint[bound[r]] = baseline[bound[r]]
                 /\ checkpoint[bound[r]] \in Version
                 /\ checkpoint[bound[r]] # None
  <1>1. PlanBound /\ bound[r] \in Backend /\ Serves[bound[r]] = r
    BY IInvParts DEF BindingInv, PlanBound
  <1>2. EntryInv(bound[r], owed[r])
    BY <1>1, IInvParts DEF BackendInv
  <1>3. None \notin Version /\ baseline[bound[r]] \in Version
    BY <1>1, IInvParts, ValueAssumption, BackendAssumption DEF PlanTypeOK, Version
  <1>4. QED
    BY <1>1, <1>2, <1>3 DEF EntryInv

(* The global commit hands the whole plan, last entry first, to the        *)
(* release of the checkpoints.                                             *)
LEMMA FinalizingTyped ==
    ASSUME CallTypeOK, pc' = "finalize", pos' = 1, todo' = Reverse(Order),
           UNCHANGED lookup
    PROVE  CallTypeOK'
  <1>1. 1 \in 1 .. Len(Order)
    BY PlanEntries
  <1>2. todo' \in Seq(Resource)
    BY WholePlan
  <1>3. "finalize" \in Phase
    BY DEF Phase
  <1>4. lookup' \in [Resource -> Backend \cup {None}]
    BY DEF CallTypeOK
  <1>5. QED
    BY <1>1, <1>2, <1>3, <1>4 DEF CallTypeOK

(* The steps of execute_composite_transaction and its retries.             *)
LEMMA TransactionStepTyped ==
    ASSUME IInv, TransactionRuntimeStep, UNCHANGED cancelled
    PROVE  TypeOK'
  <1> USE IInvParts, CurrentResource, ControlTyped
      DEF TypeOK, Phase, Token, Outcome, Action, Owe, planVars, tokenVars
  <1>v. /\ UNCHANGED planVars /\ attempt \in Version => PlanTypeOK'
        /\ attempt \in Version
        /\ Untouched => BackendTypeOK'
        /\ \A b : ActuateCall(b, attempt) \/ CommitCall(b) \/ AbortCall(b)
                     \/ ReservationCallFails(b) \/ ReleaseCall(b) => BackendTypeOK'
    BY BackendCallsTyped DEF PlanTypeOK, Version, Untouched, backendVars, BackendTypeOK
  <1>r. Recover => CallTypeOK' /\ TokenTypeOK' /\ UNCHANGED planVars
    BY WholePlan DEF Recover
  <1>h. todo # <<>> => Head(todo) \in Resource /\ Tail(todo) \in Seq(Resource)
    BY HeadTail DEF CallTypeOK
  <1>k. todo # <<>> /\ Keep(Head(todo)) =>
            CallTypeOK' /\ TokenTypeOK' /\ owed' \in [Resource -> Action]
    BY <1>h DEF Keep
  <1>u. UndoneNext => CallTypeOK' /\ PlanTypeOK' /\ TokenTypeOK'
                        /\ owed' \in [Resource -> Action]
    BY <1>v DEF UndoneNext, callVars, CallTypeOK, TokenTypeOK
  <1>d. todo # <<>> /\ Discharged(Head(todo), "none") =>
            CallTypeOK' /\ TokenTypeOK' /\ owed' \in [Resource -> Action]
    BY <1>h DEF Discharged, CallTypeOK, TokenTypeOK
  <1>1. CASE CancellationObserved
    BY <1>1, <1>v, <1>r DEF CancellationObserved
  <1>2. CASE ActuateSucceeds
    BY <1>2, <1>v DEF ActuateSucceeds, Actuating, TokenTypeOK
  <1>3. CASE ActuateFails
    BY <1>3, <1>v, <1>r DEF ActuateFails, Actuating
  <1>4. CASE VerifyPasses
    BY <1>4, <1>v DEF VerifyPasses, TokenTypeOK
  <1>5. CASE VerifyFails
    BY <1>5, <1>v, <1>r DEF VerifyFails
  <1>6. CASE CommitSucceeds
    BY <1>6, <1>v DEF CommitSucceeds, TokenTypeOK
  <1>7. CASE GlobalCommit
    <2>1. /\ UNCHANGED planVars /\ CommitCall(lookup[Current]) /\ UNCHANGED lookup
          /\ pc' = "finalize" /\ pos' = 1 /\ todo' = Reverse(Order)
          /\ owed' = [r \in Resource |-> "Release"] /\ outcome' = "Committed"
          /\ UNCHANGED <<retained, holding>>
      BY <1>7 DEF GlobalCommit
    <2>2. BackendTypeOK' /\ PlanTypeOK'
      BY <1>v, <2>1
    <2>3. CallTypeOK'
      BY <2>1, FinalizingTyped
    <2>4. TokenTypeOK'
      BY <2>1 DEF TokenTypeOK
    <2>5. owed' \in [Resource -> Action]
      BY <2>1
    <2>6. QED
      BY <2>2, <2>3, <2>4, <2>5
  <1>8. CASE CommitFails
    BY <1>8, <1>v, <1>r DEF CommitFails
  <1>9. CASE RecoverUnreachable
    BY <1>9, <1>v, <1>k DEF RecoverUnreachable
  <1>10. CASE RecoverAborts
    BY <1>10, <1>v, <1>u DEF RecoverAborts
  <1>11. CASE RecoverAbortFails
    BY <1>11, <1>v, <1>k DEF RecoverAbortFails, Visiting
  <1>12. CASE RecoverRestores
    BY <1>12, <1>u, <1>h, OwedHasCheckpoint, RestoreTyped
    DEF RecoverRestores, Visiting, Reachable
  <1>13. CASE RecoverRestoreFails
    BY <1>13, <1>v, <1>k, <1>h, OwedHasCheckpoint, RestoreTyped
    DEF RecoverRestoreFails, Visiting, Reachable
  <1>14. CASE RecoverReleases
    BY <1>14, <1>v, <1>d DEF RecoverReleases, Visiting
  <1>15. CASE RecoverReleaseFails
    BY <1>15, <1>v, <1>k DEF RecoverReleaseFails, Visiting
  <1>16. CASE RecoveryReturns
    BY <1>16, <1>v DEF RecoveryReturns, TokenTypeOK, BackendTypeOK, backendVars
  <1>17. CASE FinalizeReturns
    BY <1>17, <1>v DEF FinalizeReturns, TokenTypeOK, BackendTypeOK, backendVars
  <1>18. QED
    BY <1>1, <1>2, <1>3, <1>4, <1>5, <1>6, <1>7, <1>8, <1>9, <1>10, <1>11, <1>12,
       <1>13, <1>14, <1>15, <1>16, <1>17
    DEF TransactionRuntimeStep

(* What the caller, the cancelling thread or nobody does.                  *)
LEMMA CallerStepTyped ==
    ASSUME IInv, CallerStep \/ Cancel \/ UNCHANGED vars
    PROVE  TypeOK'
  <1> USE IInvParts
      DEF TypeOK, Phase, Token, Outcome, Action, planVars, tokenVars, callVars, backendVars,
          BackendTypeOK, CallTypeOK, PlanTypeOK, TokenTypeOK
  <1>s. \A s \in Slice : s.lookup \in [Resource -> Backend \cup {None}]
    BY DEF Slice
  <1>c. ASSUME NEW s \in Slice, NEW phase \in Phase, NEW entries \in Seq(Resource),
               Consume(s, phase, entries)
        PROVE  BackendTypeOK' /\ CallTypeOK' /\ PlanTypeOK' /\ UNCHANGED owed
                 /\ retained' \in Seq(Resource) /\ holding' \in Token
    BY <1>c, <1>s DEF Consume
  <1>n. attempt < MaxAttempt => attempt + 1 \in 0 .. MaxAttempt
    BY BackendAssumption
  <1>1. ASSUME NEW s \in Slice, BeginPrepare(s) \/ BeginPrepareRefused(s),
               cancelled' \in BOOLEAN
        PROVE  TypeOK'
    <2>1. CASE BeginPrepare(s)
      <3>1. BackendTypeOK' /\ PlanTypeOK' /\ owed' \in [Resource -> Action]
        BY <2>1, <1>s, <1>n DEF BeginPrepare
      <3>2. CallTypeOK' /\ TokenTypeOK'
        BY <2>1, <1>s, PlanEntries DEF BeginPrepare
      <3>3. QED
        BY <1>1, <3>1, <3>2
    <2>2. CASE BeginPrepareRefused(s)
      BY <1>1, <2>2, <1>n DEF BeginPrepareRefused
    <2>3. QED
      BY <1>1, <2>1, <2>2
  <1>2. ASSUME NEW s \in Slice,
               AbortComposite(s) \/ RetryPrepareCleanup(s),
               cancelled' \in BOOLEAN
        PROVE  TypeOK'
    BY <1>2, <1>c, WholePlan DEF AbortComposite, RetryPrepareCleanup
  <1>3. ASSUME NEW s \in Slice, AbortCompositeRefused(s), cancelled' \in BOOLEAN
        PROVE  TypeOK'
    BY <1>3, WholePlan DEF AbortCompositeRefused
  <1>4. ASSUME NEW s \in Slice,
               Execute(s) \/ ExecuteRefused(s) \/ RetryRecovery(s) \/ RetryCommitCleanup(s),
               cancelled' \in BOOLEAN
        PROVE  TypeOK'
    BY <1>4, <1>c, WholePlan, EmptyList
    DEF Execute, ExecuteRefused, RetryRecovery, RetryCommitCleanup
  <1>5. CASE PrepareCallerStep /\ cancelled' = (cancelled /\ attempt' = attempt)
    <2>1. cancelled' \in BOOLEAN
      BY <1>5
    <2>2. QED
      BY <1>1, <1>2, <1>3, <1>5, <2>1 DEF PrepareCallerStep
  <1>6. CASE TransactionCallerStep /\ UNCHANGED cancelled
    BY <1>4, <1>6 DEF TransactionCallerStep
  <1>7. CASE Cancel
    BY <1>7 DEF Cancel, prepareVars
  <1>8. CASE UNCHANGED vars
    BY <1>8 DEF vars, prepareVars
  <1>9. QED
    BY <1>5, <1>6, <1>7, <1>8 DEF CallerStep

-----------------------------------------------------------------------------
(* The binding of the plan to backend instances.                           *)

(* Inside a call the plan, its binding and its baseline are fixed.         *)
LEMMA RuntimeStepFrame ==
    ASSUME RuntimeStep
    PROVE  pc # "idle" /\ UNCHANGED planVars
  BY DEF RuntimeStep, PrepareRuntimeStep, TransactionRuntimeStep, callVars, planVars,
       ValidatePasses, ValidateRefuses, CaptureSucceeds, CaptureFails, CaptureMisbound,
       PrepareSucceeds, PrepareFails, PrepareMisbound, AbortSucceeds, AbortFails,
       AbortPassEnds, ReleaseSkips, ReleaseSucceeds, ReleaseFails, PrepareCleanupReturns,
       CancellationObserved, Recover, ActuateSucceeds, ActuateFails, Actuating,
       VerifyPasses, VerifyFails, CommitSucceeds, GlobalCommit, CommitFails, RecoverUnreachable,
       RecoverAborts, RecoverAbortFails, RecoverRestores, RecoverRestoreFails,
       RecoverReleases, RecoverReleaseFails, UndoneNext, RecoveryReturns,
       FinalizeReturns, Visiting

(* Steps inside a call never rebind the plan, and a phase that calls       *)
(* backends without checking them never sees another slice.                *)
LEMMA RuntimeStepBinding ==
    ASSUME IInv, RuntimeStep
    PROVE  BindingInv'
  <1> USE DEF planVars
  <1>1. pc # "idle" /\ bound' = bound
    BY RuntimeStepFrame
  <1>2. PlanBound'
    BY <1>1, IInvParts DEF BindingInv, PlanBound
  <1>3. \/ pc' = "idle" \/ pc' = "recover" \/ pc' = "finalize"
        \/ /\ pc # "retry" /\ pc' # "retry"
           /\ pc # "recover" /\ pc # "finalize"
           /\ lookup' = lookup
        \/ /\ pc = "retry" /\ pc' = "retry" /\ lookup' = lookup
           /\ ToSet(todo') \subseteq ToSet(todo)
    <2>h. todo # <<>> => ToSet(Tail(todo)) \subseteq ToSet(todo)
      BY HeadTail, IInvParts DEF CallTypeOK
    <2>1. CASE PrepareRuntimeStep
      BY <2>1, <2>h
      DEF PrepareRuntimeStep, Advance, Return, Unwind, Keep, Discharged,
          ValidatePasses, ValidateRefuses, CaptureSucceeds, CaptureFails,
          CaptureMisbound, PrepareSucceeds, PrepareFails, PrepareMisbound,
          AbortSucceeds, AbortFails, AbortPassEnds, ReleaseSkips, ReleaseSucceeds,
          ReleaseFails, PrepareCleanupReturns
    <2>2. CASE TransactionRuntimeStep
      BY <2>2
      DEF TransactionRuntimeStep, Advance, Return, Unwind, Keep, Discharged, callVars,
          CancellationObserved, Recover, ActuateSucceeds, ActuateFails, Actuating,
          VerifyPasses, VerifyFails, CommitSucceeds, GlobalCommit, CommitFails,
          RecoverUnreachable, RecoverAborts, RecoverAbortFails, RecoverRestores,
          RecoverRestoreFails, RecoverReleases, RecoverReleaseFails, UndoneNext,
          RecoveryReturns, FinalizeReturns, Visiting
    <2>3. QED
      BY <2>1, <2>2 DEF RuntimeStep
  <1>4. QED
    BY <1>1, <1>2, <1>3, IInvParts DEF BindingInv

(* A new plan is bound to the slice it was given; later calls are checked  *)
(* against that.                                                           *)
LEMMA CallerStepBinding ==
    ASSUME IInv, CallerStep \/ Cancel \/ UNCHANGED vars
    PROVE  BindingInv'
  <1> USE IInvParts DEF BindingInv, planVars, callVars, tokenVars
  <1>1. ASSUME NEW s \in Slice, BeginPrepare(s)
        PROVE  BindingInv'
    <2>1. \A r \in Resource : \E b \in s.offered : Serves[b] = r
      BY <1>1 DEF BeginPrepare, ExactSlice
    <2>2. \A r \in Resource : s.lookup[r] \in s.offered /\ Serves[s.lookup[r]] = r
      BY <2>1 DEF Slice
    <2>3. PlanBound'
      BY <1>1, <2>2 DEF BeginPrepare, PlanBound, Slice
    <2>4. QED
      BY <1>1, <2>3 DEF BeginPrepare
  <1>2. ASSUME NEW s \in Slice, BeginPrepareRefused(s)
        PROVE  BindingInv'
    BY <1>2 DEF BeginPrepareRefused, PlanBound
  <1>f. ASSUME bound \in [Resource -> Backend \cup {None}], NEW s \in Slice, BoundSlice(s, Resource)
        PROVE  s.lookup = bound
    BY <1>f DEF BoundSlice, Slice
  <1>3. ASSUME NEW s \in Slice, AbortComposite(s) \/ AbortCompositeRefused(s)
        PROVE  BindingInv'
    BY <1>3, <1>f
    DEF AbortComposite, AbortCompositeRefused, Consume, MatchingSlice, PlanBound, PlanTypeOK
  <1>4. ASSUME NEW s \in Slice, RetryPrepareCleanup(s)
        PROVE  BindingInv'
    BY <1>4 DEF RetryPrepareCleanup, Consume, MatchingSlice, BoundSlice, PlanBound
  <1>5. ASSUME NEW s \in Slice,
               Execute(s) \/ ExecuteRefused(s) \/ RetryRecovery(s) \/ RetryCommitCleanup(s)
        PROVE  BindingInv'
    BY <1>5, <1>f
    DEF Execute, ExecuteRefused, RetryRecovery, RetryCommitCleanup, Consume,
        TransactionSlice, PlanBound, PlanTypeOK
  <1>6. CASE Cancel \/ UNCHANGED vars
    BY <1>6 DEF Cancel, vars, prepareVars, PlanBound
  <1>7. QED
    BY <1>1, <1>2, <1>3, <1>4, <1>5, <1>6
    DEF CallerStep, PrepareCallerStep, TransactionCallerStep

-----------------------------------------------------------------------------
(* What the calls of a step do to the backends.                            *)

(* The subplan a forward phase is at: its backend, and what it owes.       *)
LEMMA AtCurrent ==
    ASSUME IInv, pc \in {"capture", "prepare", "act", "verify", "commit"}
    PROVE  /\ Current \in Resource
           /\ lookup[Current] = bound[Current] /\ bound[Current] \in Backend
           /\ Serves[bound[Current]] = Current
           /\ EntryInv(bound[Current], owed[Current])
           /\ outcome # "Committed" /\ outcome # "RolledBack"
           /\ pc = "capture" => owed[Current] = "none"
           /\ pc = "prepare" =>
                 /\ owed[Current] = "Release"
                 /\ checkpoint[bound[Current]] = baseline[bound[Current]]
           /\ pc = "act" => owed[Current] = "Abort"
           /\ pc \in {"verify", "commit"} => owed[Current] = "Restore"
  <1>1. Current \in Resource /\ pos \in 1 .. Len(Order) /\ pos \in Nat
    BY CurrentResource, IInvParts, OrderAssumption DEF CallTypeOK
  <1>2. lookup = bound
    BY IInvParts DEF BindingInv
  <1>3. /\ bound[Current] \in Backend /\ Serves[bound[Current]] = Current
        /\ EntryInv(bound[Current], owed[Current])
    BY <1>1, OwedHasCheckpoint
  <1>4. outcome # "Committed" /\ outcome # "RolledBack"
    BY IInvParts DEF TokenInv
  <1>5. /\ pc = "capture" => owed[Current] = "none"
        /\ pc = "prepare" => /\ owed[Current] = "Release"
                             /\ checkpoint[bound[Current]] = baseline[bound[Current]]
        /\ pc = "act" => owed[Current] = "Abort"
        /\ pc \in {"verify", "commit"} => owed[Current] = "Restore"
    BY <1>1, IInvParts DEF ForwardInv, Current
  <1>6. QED
    BY <1>1, <1>2, <1>3, <1>4, <1>5

(* The entry a prepare cleanup loop is at.                                 *)
LEMMA AtHead ==
    ASSUME IInv, todo # <<>>,
           \/ pc \in {"abort", "release", "retry"}
           \/ pc \in {"recover", "finalize"} /\ Reachable(Head(todo))
    PROVE  /\ Head(todo) \in Resource
           /\ lookup[Head(todo)] = bound[Head(todo)] /\ bound[Head(todo)] \in Backend
           /\ Serves[bound[Head(todo)]] = Head(todo)
           /\ EntryInv(bound[Head(todo)], owed[Head(todo)])
           /\ outcome # "RolledBack"
           /\ pc # "finalize" <=> outcome # "Committed"
  <1>1. Head(todo) \in Resource /\ Head(todo) \in ToSet(todo)
    BY HeadTail, IInvParts DEF CallTypeOK
  <1>2. lookup[Head(todo)] = bound[Head(todo)]
    BY <1>1, IInvParts DEF BindingInv, Reachable
  <1>3. /\ bound[Head(todo)] \in Backend /\ Serves[bound[Head(todo)]] = Head(todo)
        /\ EntryInv(bound[Head(todo)], owed[Head(todo)])
    BY <1>1, OwedHasCheckpoint
  <1>4. outcome # "RolledBack" /\ (pc # "finalize" <=> outcome # "Committed")
    BY IInvParts DEF TokenInv
  <1>5. QED
    BY <1>1, <1>2, <1>3, <1>4

(* A prepare step changes the backend of the entry it is at, and no other; *)
(* what the entry owes changes with it.                                    *)
LEMMA PrepareStepBackend ==
    ASSUME IInv, PrepareRuntimeStep
    PROVE  BackendInv'
  <1> SUFFICES ASSUME NEW b \in Backend
               PROVE  (IF bound[Serves[b]] = b
                       THEN EntryInv(b, owed[Serves[b]])
                       ELSE visible[b] = baseline[b] /\ checkpoint[b] = None
                              /\ ~reserved[b])'
    BY DEF BackendInv
  <1> DEFINE r == Serves[b]
  <1> USE IInvParts DEF EntryInv, planVars, tokenVars, Owe, Advance, Unwind, Return
  <1>b. /\ r \in Resource
        /\ IF bound[r] = b
           THEN EntryInv(b, owed[r])
           ELSE visible[b] = baseline[b] /\ checkpoint[b] = None /\ ~reserved[b]
    BY BackendAssumption DEF BackendInv
  <1>t. /\ visible \in [Backend -> Version] /\ reserved \in [Backend -> BOOLEAN]
        /\ checkpoint \in [Backend -> Version \cup {None}]
    BY DEF BackendTypeOK
  <1> HIDE DEF r
  <1>1. CASE ValidatePasses \/ CaptureFails \/ PrepareFails
    BY <1>1, <1>b
    DEF ValidatePasses, CaptureFails, PrepareFails, Untouched, backendVars, r
  <1>2. CASE ValidateRefuses
    <2>1. outcome # "Committed" /\ outcome' = "RolledBack" /\ UNCHANGED backendVars
      BY <1>2 DEF ValidateRefuses, Untouched, TokenInv
    <2>2. QED
      BY <1>2, <2>1, <1>b DEF ValidateRefuses, backendVars, r
  <1>3. CASE CaptureSucceeds \/ CaptureMisbound
    BY <1>3, <1>b, <1>t, AtCurrent DEF CaptureSucceeds, CaptureMisbound, CaptureCall, r
  <1>4. CASE PrepareSucceeds \/ PrepareMisbound
    BY <1>4, <1>b, <1>t, AtCurrent DEF PrepareSucceeds, PrepareMisbound, PrepareCall, r
  <1>5. CASE AbortSucceeds
    BY <1>5, <1>b, <1>t, AtHead DEF AbortSucceeds, AbortCall, r
  <1>6. CASE AbortFails
    BY <1>6, <1>b, <1>t, AtHead DEF AbortFails, ReservationCallFails, Keep, r
  <1>7. CASE AbortPassEnds \/ ReleaseSkips
    BY <1>7, <1>b DEF AbortPassEnds, ReleaseSkips, backendVars, r
  <1>8. CASE ReleaseSucceeds
    BY <1>8, <1>b, <1>t, AtHead DEF ReleaseSucceeds, ReleaseCall, Discharged, r
  <1>9. CASE ReleaseFails
    BY <1>9, <1>b DEF ReleaseFails, Untouched, backendVars, Keep, r
  <1>10. CASE PrepareCleanupReturns
    <2>1. outcome # "Committed" /\ outcome' # "Committed"
      BY <1>10 DEF PrepareCleanupReturns, TokenInv
    <2>2. QED
      BY <1>10, <2>1, <1>b DEF PrepareCleanupReturns, backendVars, r
  <1>11. QED
    BY <1>1, <1>2, <1>3, <1>4, <1>5, <1>6, <1>7, <1>8, <1>9, <1>10
    DEF PrepareRuntimeStep

(* So does a transaction step; the last local commit turns every entry     *)
(* into a checkpoint to release.                                           *)
LEMMA TransactionStepBackend ==
    ASSUME IInv, TransactionRuntimeStep
    PROVE  BackendInv'
  <1> SUFFICES ASSUME NEW b \in Backend
               PROVE  (IF bound[Serves[b]] = b
                       THEN EntryInv(b, owed[Serves[b]])
                       ELSE visible[b] = baseline[b] /\ checkpoint[b] = None
                              /\ ~reserved[b])'
    BY DEF BackendInv
  <1> DEFINE r == Serves[b]
  <1> USE IInvParts DEF EntryInv, planVars, tokenVars, Owe, Advance, Unwind, Return,
                        Recover, Visiting, UndoneNext
  <1>b. /\ r \in Resource
        /\ IF bound[r] = b
           THEN EntryInv(b, owed[r])
           ELSE visible[b] = baseline[b] /\ checkpoint[b] = None /\ ~reserved[b]
    BY BackendAssumption DEF BackendInv
  <1>t. /\ visible \in [Backend -> Version] /\ reserved \in [Backend -> BOOLEAN]
        /\ checkpoint \in [Backend -> Version \cup {None}]
    BY DEF BackendTypeOK
  <1> HIDE DEF r
  <1>1. CASE CancellationObserved \/ VerifyPasses \/ VerifyFails
    BY <1>1, <1>b
    DEF CancellationObserved, VerifyPasses, VerifyFails, Untouched, backendVars, r
  <1>2. CASE ActuateSucceeds \/ ActuateFails
    BY <1>2, <1>b, <1>t, AtCurrent DEF ActuateSucceeds, ActuateFails, Actuating, ActuateCall, r
  <1>3. CASE CommitSucceeds
    BY <1>3, <1>b, <1>t, AtCurrent DEF CommitSucceeds, CommitCall, r
  <1>4. CASE GlobalCommit
    <2>1. bound[r] = b => /\ visible[b] = attempt
                          /\ reserved[b] => r = Current
                          /\ checkpoint[b] = baseline[b]
      BY <1>4, <1>b, AtCurrent, OrderAssumption
      DEF GlobalCommit, ForwardInv, Current, AtLast, CallTypeOK
    <2>2. QED
      BY <1>4, <2>1, <1>b, <1>t, AtCurrent DEF GlobalCommit, CommitCall, r
  <1>5. CASE CommitFails
    BY <1>5, <1>b, <1>t, AtCurrent DEF CommitFails, ReservationCallFails, r
  <1>6. CASE RecoverUnreachable \/ RecoverReleaseFails
    BY <1>6, <1>b DEF RecoverUnreachable, RecoverReleaseFails, Untouched, backendVars, Keep, r
  <1>7. CASE RecoverAborts
    BY <1>7, <1>b, <1>t, AtHead DEF RecoverAborts, AbortCall, r
  <1>8. CASE RecoverAbortFails
    BY <1>8, <1>b, <1>t, AtHead DEF RecoverAbortFails, ReservationCallFails, Keep, r
  <1>9. CASE RecoverRestores
    BY <1>9, <1>b, <1>t, AtHead DEF RecoverRestores, RestoreCall, r
  <1>10. CASE RecoverRestoreFails
    BY <1>10, <1>b, <1>t, AtHead DEF RecoverRestoreFails, RestoreCallFails, Keep, r
  <1>11. CASE RecoverReleases
    BY <1>11, <1>b, <1>t, AtHead DEF RecoverReleases, ReleaseCall, Discharged, r
  <1>12. CASE RecoveryReturns
    <2>1. outcome # "Committed" /\ outcome' # "Committed"
      BY <1>12 DEF RecoveryReturns, TokenInv
    <2>2. QED
      BY <1>12, <2>1, <1>b DEF RecoveryReturns, backendVars, r
  <1>13. CASE FinalizeReturns
    <2>1. outcome = "Committed" /\ outcome' = "Committed"
      BY <1>13 DEF FinalizeReturns, TokenInv
    <2>2. QED
      BY <1>13, <2>1, <1>b DEF FinalizeReturns, backendVars, r
  <1>14. QED
    BY <1>1, <1>2, <1>3, <1>4, <1>5, <1>6, <1>7, <1>8, <1>9, <1>10, <1>11, <1>12, <1>13
    DEF TransactionRuntimeStep

(* A new plan starts on clean backends; the other entry points only hand   *)
(* a token to a loop, and never the token of a committed plan to recovery. *)
LEMMA CallerStepBackend ==
    ASSUME IInv, CallerStep \/ Cancel \/ UNCHANGED vars
    PROVE  BackendInv'
  <1> SUFFICES ASSUME NEW b \in Backend
               PROVE  (IF bound[Serves[b]] = b
                       THEN EntryInv(b, owed[Serves[b]])
                       ELSE visible[b] = baseline[b] /\ checkpoint[b] = None
                              /\ ~reserved[b])'
    BY DEF BackendInv
  <1> USE IInvParts DEF EntryInv, planVars, callVars, backendVars
  <1>b. /\ Serves[b] \in Resource
        /\ IF bound[Serves[b]] = b
           THEN EntryInv(b, owed[Serves[b]])
           ELSE visible[b] = baseline[b] /\ checkpoint[b] = None /\ ~reserved[b]
    BY BackendAssumption DEF BackendInv
  <1>1. ASSUME NEW s \in Slice, BeginPrepare(s) \/ BeginPrepareRefused(s)
        PROVE  (IF bound[Serves[b]] = b
                THEN EntryInv(b, owed[Serves[b]])
                ELSE visible[b] = baseline[b] /\ checkpoint[b] = None
                       /\ ~reserved[b])'
    <2>1. owed[Serves[b]] = "none" /\ checkpoint[b] = None /\ ~reserved[b]
      BY <1>1, <1>b DEF BeginPrepare, BeginPrepareRefused, TokenInv
    <2>2. /\ visible'[b] = baseline'[b] /\ UNCHANGED <<owed, checkpoint, reserved>>
          /\ outcome' # "Committed"
      BY <1>1 DEF BeginPrepare, BeginPrepareRefused
    <2>3. QED
      BY <2>1, <2>2
  <1>2. ASSUME /\ UNCHANGED <<bound, visible, checkpoint, reserved, owed, baseline, attempt>>
               /\ \/ outcome' = outcome
                  \/ outcome # "Committed" /\ outcome' # "Committed"
        PROVE  (IF bound[Serves[b]] = b
                THEN EntryInv(b, owed[Serves[b]])
                ELSE visible[b] = baseline[b] /\ checkpoint[b] = None
                       /\ ~reserved[b])'
    BY <1>2, <1>b
  <1>3. ASSUME NEW s \in Slice,
               AbortComposite(s) \/ AbortCompositeRefused(s) \/ RetryPrepareCleanup(s)
                 \/ Execute(s) \/ ExecuteRefused(s) \/ RetryRecovery(s)
                 \/ RetryCommitCleanup(s)
        PROVE  /\ UNCHANGED <<bound, visible, checkpoint, reserved, owed, baseline, attempt>>
               /\ \/ outcome' = outcome
                  \/ outcome # "Committed" /\ outcome' # "Committed"
    BY <1>3
    DEF AbortComposite, AbortCompositeRefused, RetryPrepareCleanup, Execute, ExecuteRefused,
        RetryRecovery, RetryCommitCleanup, Consume, TokenInv
  <1>4. CASE Cancel \/ UNCHANGED vars
    BY <1>2, <1>4 DEF Cancel, vars, prepareVars, tokenVars
  <1>5. QED
    BY <1>1, <1>2, <1>3, <1>4
    DEF CallerStep, PrepareCallerStep, TransactionCallerStep

-----------------------------------------------------------------------------
(* Where the forward phases are.                                           *)

(* Each forward step moves the boundary between done and not done by one.  *)
LEMMA StepForward ==
    ASSUME IInv, RuntimeStep
    PROVE  ForwardInv'
  <1> USE DEF planVars, tokenVars, Owe, Current
  <1>t. /\ owed \in [Resource -> Action]
        /\ visible \in [Backend -> Version] /\ reserved \in [Backend -> BOOLEAN]
        /\ checkpoint \in [Backend -> Version \cup {None}]
        /\ pos \in Nat /\ pos \in 1 .. Len(Order) /\ Len(Order) \in Nat
        /\ \A i \in 1 .. Len(Order) : Order[i] \in Resource
        /\ \A i, j \in 1 .. Len(Order) : Order[i] = Order[j] => i = j
        /\ \A r \in Resource : \E i \in 1 .. Len(Order) : Order[i] = r
    BY IInvParts, OrderAssumption DEF BackendTypeOK, CallTypeOK
  <1>p. pc # "idle" /\ PlanBound
    BY RuntimeStepFrame, IInvParts DEF BindingInv
  <1>i. \A i, j \in 1 .. Len(Order) : bound[Order[i]] = bound[Order[j]] => i = j
    <2>1. \A i \in 1 .. Len(Order) : Serves[bound[Order[i]]] = Order[i]
      BY <1>t, <1>p DEF PlanBound
    <2>2. QED
      BY <1>t, <2>1
  <1>b. \A i \in 1 .. Len(Order) : bound[Order[i]] \in Backend
    BY <1>t, <1>p DEF PlanBound
  <1>f. ForwardInv
    BY IInvParts
  <1>1. CASE ValidatePasses
    BY <1>1, <1>t, <1>f DEF ValidatePasses, Advance, Untouched, backendVars, ForwardInv, AtLast
  <1>2. CASE CaptureSucceeds
    <2>1. /\ lookup[Order[pos]] = bound[Order[pos]]
          /\ visible[bound[Order[pos]]] = baseline[bound[Order[pos]]]
      BY <1>2, AtCurrent DEF CaptureSucceeds, EntryInv
    <2>2. checkpoint' = [checkpoint EXCEPT ![bound[Order[pos]]] = baseline[bound[Order[pos]]]]
      BY <1>2, <2>1 DEF CaptureSucceeds, CaptureCall
    <2>3. \A i \in 1 .. Len(Order) :
             checkpoint'[bound[Order[i]]] = IF i = pos THEN baseline[bound[Order[i]]]
                                            ELSE checkpoint[bound[Order[i]]]
      BY <1>t, <1>i, <1>b, <2>2
    <2>4. \A i \in 1 .. Len(Order) :
             owed'[Order[i]] = IF i = pos THEN "Release" ELSE owed[Order[i]]
      BY <1>2, <1>t DEF CaptureSucceeds
    <2>5. UNCHANGED <<bound, baseline>> /\ pc = "capture"
      BY <1>2 DEF CaptureSucceeds
    <2>6. \A i \in 1 .. Len(Order) :
             IF i < pos
             THEN /\ owed[Order[i]] = "Release"
                  /\ checkpoint[bound[Order[i]]] = baseline[bound[Order[i]]]
             ELSE owed[Order[i]] = "none"
      BY <1>f, <2>5 DEF ForwardInv
    <2>7. CASE AtLast
      <3>1. pc' = "prepare" /\ pos' = 1 /\ \A i \in 1 .. Len(Order) : i < pos \/ i = pos
        BY <1>2, <1>t, <2>7 DEF CaptureSucceeds, Advance, AtLast
      <3>2. QED
        BY <1>t, <2>3, <2>4, <2>5, <2>6, <3>1 DEF ForwardInv
    <2>8. CASE ~AtLast
      <3>1. pc' = "capture" /\ pos' = pos + 1
        BY <1>2, <2>8 DEF CaptureSucceeds, Advance
      <3>2. QED
        BY <1>t, <2>3, <2>4, <2>5, <2>6, <3>1 DEF ForwardInv
    <2>9. QED
      BY <2>7, <2>8
  <1>3. CASE PrepareSucceeds
    <2>1. \A i \in 1 .. Len(Order) :
             owed'[Order[i]] = IF i = pos THEN "Abort" ELSE owed[Order[i]]
      BY <1>3, <1>t DEF PrepareSucceeds
    <2>2. UNCHANGED <<bound, baseline, checkpoint>> /\ pc = "prepare"
      BY <1>3 DEF PrepareSucceeds, PrepareCall
    <2>3. \A i \in 1 .. Len(Order) :
             /\ owed[Order[i]] = IF i < pos THEN "Abort" ELSE "Release"
             /\ checkpoint[bound[Order[i]]] = baseline[bound[Order[i]]]
      BY <1>f, <2>2 DEF ForwardInv
    <2>4. (pc' = "idle" /\ pos' = 1) \/ (pc' = "prepare" /\ pos' = pos + 1)
      BY <1>3 DEF PrepareSucceeds, Advance, Return
    <2>5. QED
      BY <1>t, <2>1, <2>2, <2>3, <2>4 DEF ForwardInv
  <1>4. CASE ActuateSucceeds
    <2>1. \A i \in 1 .. Len(Order) :
             owed'[Order[i]] = IF i = pos THEN "Restore" ELSE owed[Order[i]]
      BY <1>4, <1>t DEF ActuateSucceeds, Actuating
    <2>2. \A i \in 1 .. Len(Order) :
             owed[Order[i]] = IF i < pos THEN "Restore" ELSE "Abort"
      BY <1>4, <1>f DEF ActuateSucceeds, Actuating, ForwardInv
    <2>3. CASE AtLast
      <3>1. pc' = "verify" /\ pos' = 1 /\ \A i \in 1 .. Len(Order) : i < pos \/ i = pos
        BY <1>4, <1>t, <2>3 DEF ActuateSucceeds, Actuating, Advance, AtLast
      <3>2. \A r \in Resource : owed'[r] = "Restore"
        BY <1>t, <2>1, <2>2, <3>1
      <3>3. QED
        BY <1>t, <3>1, <3>2 DEF ForwardInv
    <2>4. CASE ~AtLast
      <3>1. pc' = "act" /\ pos' = pos + 1
        BY <1>4, <2>4 DEF ActuateSucceeds, Actuating, Advance
      <3>2. \A i \in 1 .. Len(Order) : i < pos + 1 <=> i < pos \/ i = pos
        BY <1>t
      <3>3. \A i \in 1 .. Len(Order) :
               owed'[Order[i]] = IF i < pos + 1 THEN "Restore" ELSE "Abort"
        BY <2>1, <2>2, <3>2
      <3>4. QED
        BY <3>1, <3>3 DEF ForwardInv
    <2>5. QED
      BY <2>3, <2>4
  <1>5. CASE VerifyPasses
    <2>1. /\ visible[bound[Order[pos]]] = attempt
          /\ UNCHANGED <<visible, reserved, owed, bound, attempt>>
      BY <1>5, AtCurrent DEF VerifyPasses, Untouched, backendVars
    <2>2. QED
      BY <1>5, <1>t, <1>f, <2>1 DEF VerifyPasses, Advance, AtLast, ForwardInv
  <1>6. CASE CommitSucceeds
    <2>1. reserved' = [reserved EXCEPT ![bound[Order[pos]]] = FALSE]
      BY <1>6, AtCurrent DEF CommitSucceeds, CommitCall
    <2>2. \A i \in 1 .. Len(Order) :
             i = pos \/ ~reserved[bound[Order[i]]] => ~reserved'[bound[Order[i]]]
      BY <1>t, <1>b, <2>1
    <2>3. /\ UNCHANGED <<visible, owed, bound, attempt>>
          /\ pc = "commit" /\ pc' = "commit" /\ pos' = pos + 1
      BY <1>6 DEF CommitSucceeds, CommitCall, Advance
    <2>4. /\ \A i \in 1 .. Len(Order) :
                /\ visible[bound[Order[i]]] = attempt
                /\ i < pos => ~reserved[bound[Order[i]]]
          /\ \A r \in Resource : owed[r] = "Restore"
      BY <1>f, <2>3 DEF ForwardInv
    <2>5. \A i \in 1 .. Len(Order) : i < pos + 1 => ~reserved'[bound[Order[i]]]
      <3>1. \A i \in 1 .. Len(Order) : i < pos + 1 => i = pos \/ i < pos
        BY <1>t
      <3>2. QED
        BY <2>2, <2>4, <3>1
    <2>6. QED
      BY <2>3, <2>4, <2>5 DEF ForwardInv
  <1>7. ASSUME pc' \in {"idle", "abort", "release", "retry", "recover", "finalize"},
               pc' = "idle" => pos' = 1
        PROVE  ForwardInv'
    BY <1>7 DEF ForwardInv
  <1>8. CASE PrepareRuntimeStep
    BY <1>1, <1>2, <1>3, <1>7, <1>8
    DEF PrepareRuntimeStep, Return, Unwind, Keep, Discharged,
        ValidateRefuses, CaptureFails, CaptureMisbound, PrepareFails, PrepareMisbound,
        AbortSucceeds, AbortFails, AbortPassEnds, ReleaseSkips, ReleaseSucceeds,
        ReleaseFails, PrepareCleanupReturns
  <1>9. CASE TransactionRuntimeStep
    BY <1>4, <1>5, <1>6, <1>7, <1>9
    DEF TransactionRuntimeStep, Return, Unwind, Keep, Discharged, callVars,
        CancellationObserved, Recover, ActuateFails, VerifyFails, GlobalCommit,
        CommitFails, RecoverUnreachable, RecoverAborts, RecoverAbortFails,
        RecoverRestores, RecoverRestoreFails, RecoverReleases, RecoverReleaseFails,
        UndoneNext, RecoveryReturns, FinalizeReturns, Visiting
  <1>10. QED
    BY <1>8, <1>9 DEF RuntimeStep

(* A new plan owes nothing; a prepared one is all still to be aborted.     *)
LEMMA CallerForward ==
    ASSUME IInv, CallerStep \/ Cancel \/ UNCHANGED vars
    PROVE  ForwardInv'
  <1>f. ForwardInv /\ TokenInv
    BY IInvParts
  <1>o. \A i \in 1 .. Len(Order) : Order[i] \in Resource
    BY OrderAssumption
  <1>1. ASSUME NEW s \in Slice, BeginPrepare(s)
        PROVE  ForwardInv'
    BY <1>1, <1>f DEF BeginPrepare, ForwardInv, TokenInv
  <1>2. ASSUME NEW s \in Slice, Execute(s)
        PROVE  ForwardInv'
    <2>1. /\ pos' = 1 /\ pc' = "act"
          /\ \A r \in Resource : owed'[r] = "Abort"
      BY <1>2, <1>f DEF Execute, Consume, ForwardInv, TokenInv
    <2>2. \A i \in 1 .. Len(Order) : ~(i < pos')
      BY <2>1
    <2>3. QED
      BY <1>o, <2>1, <2>2 DEF ForwardInv
  <1>3. ASSUME NEW s \in Slice,
               AbortComposite(s) \/ RetryPrepareCleanup(s) \/ ExecuteRefused(s)
                 \/ RetryRecovery(s) \/ RetryCommitCleanup(s)
        PROVE  ForwardInv'
    BY <1>3
    DEF AbortComposite, RetryPrepareCleanup, ExecuteRefused, RetryRecovery,
        RetryCommitCleanup, Consume, ForwardInv
  <1>4. ASSUME NEW s \in Slice, BeginPrepareRefused(s) \/ AbortCompositeRefused(s)
        PROVE  ForwardInv'
    BY <1>4, <1>f DEF BeginPrepareRefused, AbortCompositeRefused, callVars, ForwardInv
  <1>5. CASE Cancel \/ UNCHANGED vars
    <2>1. UNCHANGED <<pc, pos, owed, checkpoint, reserved, visible, bound, baseline, attempt>>
      BY <1>5 DEF Cancel, vars, prepareVars, callVars, planVars, backendVars
    <2>2. QED
      BY <1>f, <2>1 DEF ForwardInv
  <1>6. QED
    BY <1>1, <1>2, <1>3, <1>4, <1>5
    DEF CallerStep, PrepareCallerStep, TransactionCallerStep

-----------------------------------------------------------------------------
(* No obligation is lost.                                                  *)

(* The entries a failed forward phase has behind it are the ones unwound.  *)
LEMMA UnwoundPrefix ==
    ASSUME CallTypeOK
    PROVE  /\ \A i \in 1 .. Len(Order) : i < pos => Order[i] \in ToSet(UpTo(pos - 1))
           /\ \A i \in 1 .. Len(Order) :
                 i < pos \/ i = pos => Order[i] \in ToSet(UpTo(pos))
  <1>1. Len(Order) \in Nat /\ pos - 1 \in 0 .. Len(Order) /\ pos \in 0 .. Len(Order)
    BY OrderAssumption DEF CallTypeOK
  <1>2. /\ \A i \in 1 .. (pos - 1) : Order[i] \in ToSet(UpTo(pos - 1))
        /\ \A i \in 1 .. pos : Order[i] \in ToSet(UpTo(pos))
    BY <1>1, PlanPrefix
  <1>3. \A i \in 1 .. Len(Order) :
           /\ i < pos => i \in 1 .. (pos - 1)
           /\ i < pos \/ i = pos => i \in 1 .. pos
    BY <1>1
  <1>4. QED
    BY <1>2, <1>3

(* The prepare cleanup loops: an entry leaves todo discharged, or kept.    *)
LEMMA PrepareStepObligation ==
    ASSUME IInv, PrepareRuntimeStep
    PROVE  ObligationInv'
  <1> USE DEF Pending, planVars, tokenVars, Owe, Advance, Unwind, Return
  <1>p. /\ ObligationInv /\ owed \in [Resource -> Action]
        /\ todo \in Seq(Resource) /\ retained \in Seq(Resource)
    BY IInvParts DEF CallTypeOK, TokenTypeOK
  <1>h. todo # <<>> => /\ Head(todo) \in Resource
                       /\ ToSet(todo) = {Head(todo)} \cup ToSet(Tail(todo))
    BY <1>p, HeadTail
  <1>k. todo # <<>> /\ Keep(Head(todo)) =>
           /\ ToSet(retained') = ToSet(retained) \cup {Head(todo)}
           /\ Pending' = Pending
           /\ UNCHANGED <<pc, owed>>
    BY <1>p, <1>h, AppendElements DEF Keep
  <1>e. /\ todo = <<>> => ToSet(todo) = {}
        /\ retained = <<>> => ToSet(retained) = {}
    BY EmptyList
  <1>1. CASE ValidatePasses \/ ValidateRefuses \/ CaptureSucceeds \/ PrepareSucceeds
    BY <1>1
    DEF ValidatePasses, ValidateRefuses, CaptureSucceeds, PrepareSucceeds, ObligationInv
  <1>2. CASE CaptureFails \/ CaptureMisbound
    <2>1. pos \in 1 .. Len(Order) /\ pc = "capture"
      BY <1>2, IInvParts DEF CallTypeOK, CaptureFails, CaptureMisbound
    <2>2. \A i \in 1 .. Len(Order) :
             owed[Order[i]] = IF i < pos THEN "Release" ELSE "none"
      BY <2>1, IInvParts DEF ForwardInv
    <2>3. /\ \A i \in 1 .. Len(Order) : i < pos => Order[i] \in ToSet(UpTo(pos - 1))
          /\ \A i \in 1 .. Len(Order) : i < pos \/ i = pos => Order[i] \in ToSet(UpTo(pos))
      BY IInvParts, UnwoundPrefix
    <2>4. \A r \in Resource : \E i \in 1 .. Len(Order) : Order[i] = r
      BY OrderAssumption
    <2>5. CASE CaptureFails
      <3>1. pc' = "release" /\ todo' = UpTo(pos - 1) /\ owed' = owed
        BY <2>5 DEF CaptureFails
      <3>2. \A r \in Resource : owed[r] = "none" \/ (owed[r] = "Release" /\ r \in ToSet(todo'))
        BY <2>2, <2>3, <2>4, <3>1
      <3>3. QED
        BY <3>1, <3>2 DEF ObligationInv
    <2>6. CASE CaptureMisbound
      <3>1. /\ pc' = "release" /\ todo' = UpTo(pos)
            /\ owed' = [owed EXCEPT ![Order[pos]] = "Release"]
        BY <2>6 DEF CaptureMisbound, Current
      <3>2. \A r \in Resource :
               owed'[r] = "none" \/ (owed'[r] = "Release" /\ r \in ToSet(todo'))
        BY <1>p, <2>1, <2>2, <2>3, <2>4, <3>1
      <3>3. QED
        BY <3>1, <3>2 DEF ObligationInv
    <2>7. QED
      BY <1>2, <2>5, <2>6
  <1>3. CASE PrepareFails \/ PrepareMisbound
    <2>1. pos \in 1 .. Len(Order) /\ pc = "prepare"
      BY <1>3, IInvParts DEF CallTypeOK, PrepareFails, PrepareMisbound
    <2>2. \A i \in 1 .. Len(Order) :
             owed[Order[i]] = IF i < pos THEN "Abort" ELSE "Release"
      BY <2>1, IInvParts DEF ForwardInv
    <2>3. /\ \A i \in 1 .. Len(Order) : i < pos => Order[i] \in ToSet(UpTo(pos - 1))
          /\ \A i \in 1 .. Len(Order) : i < pos \/ i = pos => Order[i] \in ToSet(UpTo(pos))
      BY IInvParts, UnwoundPrefix
    <2>4. \A r \in Resource : \E i \in 1 .. Len(Order) : Order[i] = r
      BY OrderAssumption
    <2>5. CASE PrepareFails
      <3>1. pc' = "abort" /\ todo' = UpTo(pos - 1) /\ owed' = owed
        BY <2>5 DEF PrepareFails
      <3>2. \A r \in Resource :
               owed[r] = "Release" \/ (owed[r] = "Abort" /\ r \in ToSet(todo'))
        BY <2>2, <2>3, <2>4, <3>1
      <3>3. QED
        BY <3>1, <3>2 DEF ObligationInv
    <2>6. CASE PrepareMisbound
      <3>1. /\ pc' = "abort" /\ todo' = UpTo(pos)
            /\ owed' = [owed EXCEPT ![Order[pos]] = "Abort"]
        BY <2>6 DEF PrepareMisbound, Current
      <3>2. \A r \in Resource :
               owed'[r] = "Release" \/ (owed'[r] = "Abort" /\ r \in ToSet(todo'))
        BY <1>p, <2>1, <2>2, <2>3, <2>4, <3>1
      <3>3. QED
        BY <3>1, <3>2 DEF ObligationInv
    <2>7. QED
      BY <1>3, <2>5, <2>6
  <1>4. CASE AbortSucceeds
    BY <1>4, <1>p, <1>h DEF AbortSucceeds, ObligationInv
  <1>5. CASE AbortFails \/ ReleaseFails
    BY <1>5, <1>p, <1>h, <1>k DEF AbortFails, ReleaseFails, ObligationInv
  <1>6. CASE AbortPassEnds
    BY <1>6, <1>p, <1>e, WholePlan DEF AbortPassEnds, ObligationInv
  <1>7. CASE ReleaseSkips
    BY <1>7, <1>p, <1>h DEF ReleaseSkips, ObligationInv
  <1>8. CASE ReleaseSucceeds
    BY <1>8, <1>p, <1>h DEF ReleaseSucceeds, Discharged, ObligationInv
  <1>9. CASE PrepareCleanupReturns
    BY <1>9 DEF PrepareCleanupReturns, ObligationInv
  <1>10. QED
    BY <1>1, <1>2, <1>3, <1>4, <1>5, <1>6, <1>7, <1>8, <1>9 DEF PrepareRuntimeStep

(* The recovery and release loops of a transaction.                        *)
LEMMA TransactionStepObligation ==
    ASSUME IInv, TransactionRuntimeStep
    PROVE  ObligationInv'
  <1> USE DEF Pending, planVars, tokenVars, Owe, Advance, Unwind, Return, Recover, Visiting
  <1>p. /\ ObligationInv /\ owed \in [Resource -> Action]
        /\ todo \in Seq(Resource) /\ retained \in Seq(Resource)
    BY IInvParts DEF CallTypeOK, TokenTypeOK
  <1>h. todo # <<>> => /\ Head(todo) \in Resource
                       /\ ToSet(todo) = {Head(todo)} \cup ToSet(Tail(todo))
    BY <1>p, HeadTail
  <1>k. todo # <<>> /\ Keep(Head(todo)) =>
           /\ Pending' = Pending
           /\ UNCHANGED <<pc, owed>>
    BY <1>p, <1>h, AppendElements DEF Keep
  <1>1. CASE CancellationObserved \/ ActuateFails \/ VerifyFails \/ CommitFails
    <2>1. pc' = "recover" /\ todo' = Reverse(Order)
      BY <1>1 DEF CancellationObserved, ActuateFails, VerifyFails, CommitFails
    <2>2. QED
      BY <2>1, WholePlan DEF ObligationInv
  <1>2. CASE ActuateSucceeds \/ VerifyPasses \/ CommitSucceeds
    BY <1>2
    DEF ActuateSucceeds, Actuating, VerifyPasses, CommitSucceeds, ObligationInv
  <1>3. CASE GlobalCommit
    BY <1>3, WholePlan DEF GlobalCommit, ObligationInv
  <1>4. CASE RecoverUnreachable \/ RecoverAbortFails \/ RecoverRestoreFails
               \/ RecoverReleaseFails
    BY <1>4, <1>p, <1>k
    DEF RecoverUnreachable, RecoverAbortFails, RecoverRestoreFails, RecoverReleaseFails,
        ObligationInv
  <1>5. CASE RecoverAborts \/ RecoverRestores
    BY <1>5, <1>p, <1>h
    DEF RecoverAborts, RecoverRestores, UndoneNext, callVars, ObligationInv
  <1>6. CASE RecoverReleases
    BY <1>6, <1>p, <1>h DEF RecoverReleases, Discharged, ObligationInv
  <1>7. CASE RecoveryReturns \/ FinalizeReturns
    BY <1>7 DEF RecoveryReturns, FinalizeReturns, ObligationInv
  <1>8. QED
    BY <1>1, <1>2, <1>3, <1>4, <1>5, <1>6, <1>7 DEF TransactionRuntimeStep

(* A loop the caller starts gets every entry of the token.                 *)
LEMMA CallerStepObligation ==
    ASSUME IInv, CallerStep \/ Cancel \/ UNCHANGED vars
    PROVE  ObligationInv'
  <1> USE DEF Pending
  <1>p. ObligationInv /\ TokenInv
    BY IInvParts
  <1>1. ASSUME NEW s \in Slice, BeginPrepare(s) \/ Execute(s)
        PROVE  ObligationInv'
    BY <1>1 DEF BeginPrepare, Execute, Consume, ObligationInv
  <1>2. ASSUME NEW s \in Slice, BeginPrepareRefused(s) \/ AbortCompositeRefused(s)
        PROVE  ObligationInv'
    BY <1>2 DEF BeginPrepareRefused, AbortCompositeRefused, callVars, ObligationInv
  <1>3. ASSUME NEW s \in Slice, AbortComposite(s) \/ ExecuteRefused(s)
        PROVE  ObligationInv'
    BY <1>3, <1>p, WholePlan
    DEF AbortComposite, ExecuteRefused, Consume, ObligationInv, TokenInv
  <1>4. ASSUME NEW s \in Slice,
               RetryPrepareCleanup(s) \/ RetryRecovery(s)
        PROVE  ObligationInv'
    BY <1>4, <1>p
    DEF RetryPrepareCleanup, RetryRecovery, Consume, ObligationInv, TokenInv
  <1>5. ASSUME NEW s \in Slice, RetryCommitCleanup(s)
        PROVE  ObligationInv'
    <2>1. \A r \in Resource : owed[r] \in {"none", "Release"}
      <3>1. outcome = "Committed"
        BY <1>5, <1>p DEF RetryCommitCleanup, TokenInv
      <3>2. PlanBound
        BY <1>5, IInvParts DEF RetryCommitCleanup, BindingInv
      <3>3. \A r \in Resource : EntryInv(bound[r], owed[r])
        BY <3>2, IInvParts DEF PlanBound, BackendInv
      <3>4. QED
        BY <3>1, <3>3, IInvParts DEF EntryInv, Action
    <2>2. QED
      BY <1>5, <1>p, <2>1 DEF RetryCommitCleanup, Consume, ObligationInv, TokenInv
  <1>6. CASE Cancel \/ UNCHANGED vars
    BY <1>6, <1>p DEF Cancel, vars, prepareVars, callVars, tokenVars, ObligationInv
  <1>7. QED
    BY <1>1, <1>2, <1>3, <1>4, <1>5, <1>6
    DEF CallerStep, PrepareCallerStep, TransactionCallerStep

-----------------------------------------------------------------------------
(* The token and the outcome say what is owed.                             *)

(* Returning from the prepare boundary.                                    *)
LEMMA PrepareStepToken ==
    ASSUME IInv, PrepareRuntimeStep
    PROVE  TokenInv'
  <1> USE DEF planVars, tokenVars, Owe, Advance, Unwind, Return
  <1>p. /\ TokenInv /\ ObligationInv /\ ForwardInv /\ owed \in [Resource -> Action]
        /\ pos \in 1 .. Len(Order) /\ Len(Order) \in Nat
    BY IInvParts, OrderAssumption DEF CallTypeOK
  <1>e. /\ todo = <<>> => ToSet(todo) = {}
        /\ retained = <<>> => ToSet(retained) = {}
    BY EmptyList
  <1>1. CASE ValidateRefuses
    BY <1>1, <1>p DEF ValidateRefuses, TokenInv, ForwardInv
  <1>2. CASE PrepareSucceeds
    <2>1. CASE AtLast
      <3>1. \A i \in 1 .. Len(Order) : owed'[Order[i]] = "Abort"
        <4>1. \A i \in 1 .. Len(Order) :
                 owed[Order[i]] = IF i < pos THEN "Abort" ELSE "Release"
          BY <1>2, <1>p DEF PrepareSucceeds, ForwardInv
        <4>2. owed' = [owed EXCEPT ![Order[pos]] = "Abort"]
          BY <1>2 DEF PrepareSucceeds, Current
        <4>3. \A i \in 1 .. Len(Order) : i < pos \/ i = pos
          BY <1>p, <2>1 DEF AtLast
        <4>4. SUFFICES ASSUME NEW i \in 1 .. Len(Order) PROVE owed'[Order[i]] = "Abort"
          OBVIOUS
        <4>5. CASE i = pos
          BY <1>p, <4>2, <4>5, OrderAssumption
        <4>6. CASE i < pos
          <5>1. Order[i] # Order[pos]
            BY <1>p, <4>6, OrderAssumption
          <5>2. owed[Order[i]] = "Abort"
            BY <4>1, <4>6
          <5>3. QED
            BY <1>p, <4>2, <5>1, <5>2, OrderAssumption
        <4>7. QED
          BY <4>3, <4>5, <4>6
      <3>2. \A r \in Resource : owed'[r] = "Abort"
        BY <3>1, OrderAssumption
      <3>3. pc' = "idle" /\ holding' = "prepared" /\ outcome' = "Prepared"
        BY <1>2, <2>1 DEF PrepareSucceeds
      <3>4. QED
        BY <3>2, <3>3 DEF TokenInv
    <2>2. CASE ~AtLast
      BY <1>2, <1>p, <2>2 DEF PrepareSucceeds, TokenInv
    <2>3. QED
      BY <2>1, <2>2
  <1>3. CASE PrepareCleanupReturns
    <2>1. /\ pc \in {"release", "retry"} /\ todo = <<>> /\ pc' = "idle"
          /\ owed' = owed /\ retained' = retained
          /\ \/ retained = <<>> /\ holding' = "none" /\ outcome' = "RolledBack"
             \/ holding' = "prepareRecovery" /\ outcome' = "RecoveryRequired"
      BY <1>3 DEF PrepareCleanupReturns
    <2>2. \A r \in Resource :
             /\ owed[r] # "Restore"
             /\ owed[r] # "none" => r \in ToSet(retained)
      BY <1>p, <1>e, <2>1 DEF ObligationInv, Pending, Action
    <2>3. QED
      BY <1>e, <2>1, <2>2 DEF TokenInv
  <1>4. ASSUME pc # "idle", pc' \notin {"idle", "finalize"}, pc # "finalize",
               holding' = holding, outcome' = outcome
        PROVE  TokenInv'
    BY <1>4, <1>p DEF TokenInv
  <1>5. QED
    BY <1>1, <1>2, <1>3, <1>4
    DEF PrepareRuntimeStep, Keep, Discharged,
        ValidatePasses, CaptureSucceeds, CaptureFails, CaptureMisbound, PrepareFails,
        PrepareMisbound, AbortSucceeds, AbortFails, AbortPassEnds, ReleaseSkips,
        ReleaseSucceeds, ReleaseFails

(* Returning from a transaction.                                           *)
LEMMA TransactionStepToken ==
    ASSUME IInv, TransactionRuntimeStep
    PROVE  TokenInv'
  <1> USE DEF planVars, tokenVars, Owe, Advance, Unwind, Return, Recover, Visiting
  <1>p. /\ TokenInv /\ ObligationInv /\ owed \in [Resource -> Action]
    BY IInvParts
  <1>e. /\ todo = <<>> => ToSet(todo) = {}
        /\ retained = <<>> => ToSet(retained) = {}
    BY EmptyList
  <1>1. CASE GlobalCommit
    BY <1>1, <1>p DEF GlobalCommit, TokenInv
  <1>2. CASE RecoveryReturns
    <2>1. \A r \in Resource : owed[r] # "none" => r \in ToSet(retained)
      BY <1>2, <1>p, <1>e DEF RecoveryReturns, ObligationInv, Pending
    <2>2. QED
      BY <1>2, <1>e, <2>1 DEF RecoveryReturns, TokenInv
  <1>3. CASE FinalizeReturns
    <2>1. \A r \in Resource : owed[r] # "none" => r \in ToSet(retained)
      BY <1>3, <1>p, <1>e DEF FinalizeReturns, ObligationInv, Pending
    <2>2. QED
      BY <1>3, <1>e, <2>1 DEF FinalizeReturns, TokenInv
  <1>4. ASSUME pc # "idle", pc' # "idle", pc' = "finalize" <=> pc = "finalize",
               holding' = holding, outcome' = outcome
        PROVE  TokenInv'
    BY <1>4, <1>p DEF TokenInv
  <1>5. CASE \/ CancellationObserved \/ ActuateSucceeds \/ ActuateFails \/ VerifyPasses
             \/ VerifyFails \/ CommitSucceeds \/ CommitFails
    BY <1>4, <1>5
    DEF CancellationObserved, ActuateSucceeds, ActuateFails, Actuating, VerifyPasses,
        VerifyFails, CommitSucceeds, CommitFails
  <1>6. CASE \/ RecoverUnreachable \/ RecoverAborts \/ RecoverAbortFails
             \/ RecoverRestores \/ RecoverRestoreFails \/ RecoverReleases
             \/ RecoverReleaseFails
    BY <1>4, <1>6
    DEF RecoverUnreachable, RecoverAborts, RecoverAbortFails, RecoverRestores,
        RecoverRestoreFails, RecoverReleases, RecoverReleaseFails, UndoneNext, Keep,
        Discharged, callVars
  <1>7. QED
    BY <1>1, <1>2, <1>3, <1>5, <1>6 DEF TransactionRuntimeStep

(* Handing a token to a call.                                              *)
LEMMA CallerStepToken ==
    ASSUME IInv, CallerStep \/ Cancel \/ UNCHANGED vars
    PROVE  TokenInv'
  <1>p. TokenInv
    BY IInvParts
  <1>1. ASSUME NEW s \in Slice, BeginPrepare(s) \/ BeginPrepareRefused(s)
        PROVE  TokenInv'
    BY <1>1, <1>p DEF BeginPrepare, BeginPrepareRefused, callVars, TokenInv
  <1>2. ASSUME NEW s \in Slice, AbortCompositeRefused(s)
        PROVE  TokenInv'
    BY <1>2, <1>p, WholePlan DEF AbortCompositeRefused, callVars, TokenInv
  <1>3. ASSUME NEW s \in Slice,
               AbortComposite(s) \/ RetryPrepareCleanup(s) \/ Execute(s)
                 \/ ExecuteRefused(s) \/ RetryRecovery(s) \/ RetryCommitCleanup(s)
        PROVE  TokenInv'
    BY <1>3, <1>p
    DEF AbortComposite, RetryPrepareCleanup, Execute, ExecuteRefused, RetryRecovery,
        RetryCommitCleanup, Consume, TokenInv
  <1>4. CASE Cancel \/ UNCHANGED vars
    BY <1>4, <1>p DEF Cancel, vars, prepareVars, callVars, tokenVars, TokenInv
  <1>5. QED
    BY <1>1, <1>2, <1>3, <1>4
    DEF CallerStep, PrepareCallerStep, TransactionCallerStep

-----------------------------------------------------------------------------
(* The theorems.                                                           *)

(* The initial state: no plan, no token, clean backends.                   *)
LEMMA InitInvariant == Init => IInv
  <1> SUFFICES ASSUME Init PROVE IInv
    OBVIOUS
  <1> USE DEF Init, PrepareInit, BackendInit, NoLookup
  <1>1. BackendTypeOK /\ PlanTypeOK
    BY BackendAssumption DEF BackendTypeOK, PlanTypeOK, Version
  <1>2. CallTypeOK /\ TokenTypeOK /\ owed \in [Resource -> Action] /\ cancelled \in BOOLEAN
    <2>1. Len(Order) \in Nat /\ 1 \in 1 .. Len(Order)
      BY OrderAssumption
    <2>2. CallTypeOK /\ TokenTypeOK
      BY <2>1, EmptyList DEF CallTypeOK, TokenTypeOK, Phase, Token, Outcome
    <2>3. QED
      BY <2>2 DEF Action
  <1>3. BindingInv /\ ForwardInv /\ ObligationInv /\ TokenInv
    BY DEF BindingInv, ForwardInv, ObligationInv, TokenInv
  <1>4. BackendInv
    <2>1. \A b \in Backend : bound[Serves[b]] # b
      BY BackendAssumption
    <2>2. QED
      BY <2>1 DEF BackendInv
  <1>5. QED
    BY <1>1, <1>2, <1>3, <1>4 DEF IInv, TypeOK

(* Every step of the system preserves the invariant.                       *)
LEMMA StepInvariant == IInv /\ [Next]_vars => IInv'
  <1> SUFFICES ASSUME IInv, [Next]_vars PROVE IInv'
    OBVIOUS
  <1>1. CASE RuntimeStep
    <2>1. TypeOK'
      BY <1>1, PrepareStepTyped, TransactionStepTyped DEF RuntimeStep
    <2>2. BindingInv' /\ ForwardInv'
      BY <1>1, RuntimeStepBinding, StepForward
    <2>3. BackendInv' /\ ObligationInv' /\ TokenInv'
      BY <1>1, PrepareStepBackend, TransactionStepBackend, PrepareStepObligation,
         TransactionStepObligation, PrepareStepToken, TransactionStepToken
      DEF RuntimeStep
    <2>4. QED
      BY <2>1, <2>2, <2>3 DEF IInv
  <1>2. CASE CallerStep \/ Cancel \/ UNCHANGED vars
    BY <1>2, CallerStepTyped, CallerStepBinding, CallerStepBackend, CallerForward,
       CallerStepObligation, CallerStepToken
    DEF IInv
  <1>3. QED
    BY <1>1, <1>2 DEF Next, Finished

(* The inductive invariant holds in every reachable state.                 *)
THEOREM Invariance == Spec => []IInv
  BY InitInvariant, StepInvariant, PTL DEF Spec

(* The state keeps its types: backend calls always find a backend, a       *)
(* restore always finds a checkpoint.                                      *)
THEOREM TypeCorrect == Spec => []TypeOK
  <1>1. IInv => TypeOK
    BY DEF IInv
  <1>2. QED
    BY <1>1, Invariance, PTL

(* Before the global commit, whatever an attempt did to a backend, the     *)
(* next recovery action of its entry undoes it, and the checkpoint this    *)
(* needs is still there.                                                   *)
THEOREM RecoveryAlwaysSuffices == Spec => []RecoverySuffices
  <1>1. IInv => RecoverySuffices
    <2> SUFFICES ASSUME IInv, NEW r \in Resource, bound[r] # None, outcome # "Committed"
                 PROVE  /\ visible[bound[r]] # baseline[bound[r]] => owed[r] = "Restore"
                        /\ reserved[bound[r]] => owed[r] \in {"Abort", "Restore"}
                        /\ owed[r] \in {"Abort", "Restore"} =>
                              checkpoint[bound[r]] = baseline[bound[r]]
      BY DEF RecoverySuffices
    <2>1. bound[r] \in Backend /\ Serves[bound[r]] = r
      BY IInvParts DEF BindingInv, PlanBound
    <2>2. EntryInv(bound[r], owed[r]) /\ owed[r] \in Action
      BY <2>1, IInvParts DEF BackendInv
    <2>3. QED
      BY <2>2 DEF EntryInv, Action
  <1>2. QED
    BY <1>1, Invariance, PTL

(* What a returned call reports about the group is true of every member.   *)
THEOREM OutcomeIsAtomic == Spec => []AtomicOutcome
  <1>1. IInv => AtomicOutcome
    <2> SUFFICES ASSUME IInv, pc = "idle"
                 PROVE  /\ outcome = "Committed" =>
                              \A r \in Resource : visible[bound[r]] = attempt
                        /\ outcome = "RolledBack" =>
                              /\ visible = baseline
                              /\ \A b \in Backend : checkpoint[b] = None /\ ~reserved[b]
      BY DEF AtomicOutcome
    <2>1. ASSUME outcome = "Committed", NEW r \in Resource
          PROVE  visible[bound[r]] = attempt
      <3>1. bound[r] \in Backend /\ Serves[bound[r]] = r
        BY <2>1, IInvParts DEF BindingInv, PlanBound
      <3>2. EntryInv(bound[r], owed[r])
        BY <3>1, IInvParts DEF BackendInv
      <3>3. QED
        BY <2>1, <3>2 DEF EntryInv
    <2>2. ASSUME outcome = "RolledBack", NEW b \in Backend
          PROVE  visible[b] = baseline[b] /\ checkpoint[b] = None /\ ~reserved[b]
      <3>1. owed[Serves[b]] = "none"
        BY <2>2, IInvParts, BackendAssumption DEF TokenInv
      <3>2. IF bound[Serves[b]] = b
            THEN EntryInv(b, "none")
            ELSE visible[b] = baseline[b] /\ checkpoint[b] = None /\ ~reserved[b]
        BY <3>1, IInvParts DEF BackendInv
      <3>3. QED
        BY <2>2, <3>2 DEF EntryInv
    <2>3. visible \in [Backend -> Version] /\ baseline \in [Backend -> Version]
      BY IInvParts DEF BackendTypeOK, PlanTypeOK
    <2>4. QED
      BY <2>1, <2>2, <2>3
  <1>2. QED
    BY <1>1, Invariance, PTL

(* No local commit before every member is actuated and verified.           *)
THEOREM CommitsAreVerified == Spec => []CommitWindowVerified
  <1>1. IInv => CommitWindowVerified
    BY IInvParts, OrderAssumption DEF CommitWindowVerified, ForwardInv
  <1>2. QED
    BY <1>1, Invariance, PTL

-----------------------------------------------------------------------------
(* Refinement: what the caller sees is what AtomicGroup does.              *)

(* Backend calls of a step that is not the global commit are invisible to  *)
(* the abstract group while the attempt is open.                           *)
LEMMA OpenStutter ==
    ASSUME Open, Open', UNCHANGED planVars
    PROVE  UNCHANGED Group!groupVars
  BY DEF Group!groupVars, planVars

(* So is the release of checkpoints once the attempt is settled.           *)
LEMMA SettledStutter ==
    ASSUME ~Open, ~Open', UNCHANGED <<visible, bound, attempt, outcome>>
    PROVE  UNCHANGED Group!groupVars
  BY DEF Group!groupVars

(* The last local commit is the abstract Commit: all members at once.      *)
LEMMA GlobalCommitRefines ==
    ASSUME IInv, GlobalCommit
    PROVE  Group!Commit
  <1> DEFINE members == {bound[r] : r \in Resource} \ {None}
  <1>1. Open /\ ~Open' /\ outcome # "Committed" /\ outcome' = "Committed"
    BY IInvParts DEF GlobalCommit, Open, TokenInv
  <1>2. UNCHANGED <<bound, attempt, visible>>
    BY DEF GlobalCommit, planVars, CommitCall
  <1>3. PlanBound
    BY IInvParts DEF BindingInv, GlobalCommit
  <1>4. \A r \in Resource : visible[bound[r]] = attempt
    BY IInvParts, OrderAssumption DEF ForwardInv, GlobalCommit
  <1>5. \A m \in Backend : visible[m] = IF m \in members THEN attempt ELSE baseline[m]
    <2> TAKE m \in Backend
    <2>1. CASE m \in members
      BY <2>1, <1>4
    <2>2. CASE m \notin members
      <3>1. bound[Serves[m]] # m
        BY <2>2, BackendAssumption
      <3>2. QED
        BY <2>2, <3>1, IInvParts DEF BackendInv
    <2>3. QED
      BY <2>1, <2>2
  <1>6. visible \in [Backend -> Version]
    BY IInvParts DEF BackendTypeOK
  <1>7. visible = [m \in Backend |-> IF m \in members THEN attempt ELSE baseline[m]]
    BY <1>5, <1>6
  <1>8. QED
    BY <1>1, <1>2, <1>7 DEF Group!Commit

(* A call that reports RolledBack is the abstract RollBack.                *)
LEMMA RollBackRefines ==
    ASSUME IInv, IInv', Open, outcome' = "RolledBack", UNCHANGED planVars
    PROVE  Group!RollBack
  <1>1. ~Open'
    BY DEF Open
  <1>2. visible' = baseline
    <2>1. \A b \in Backend : visible'[b] = baseline'[b]
      <3> TAKE b \in Backend
      <3>1. /\ BackendInv' /\ outcome' # "Committed" /\ owed'[Serves[b]] = "none"
        BY IInvParts, BackendAssumption DEF IInv, TokenInv
      <3>2. QED
        BY <3>1 DEF BackendInv, EntryInv
    <2>2. visible' \in [Backend -> Version] /\ baseline' \in [Backend -> Version]
      BY DEF IInv, TypeOK, BackendTypeOK, PlanTypeOK
    <2>3. QED
      BY <2>1, <2>2 DEF planVars
  <1>3. QED
    BY <1>1, <1>2 DEF Group!RollBack, planVars

(* Every step inside a call refines a step of the group, or a stutter.     *)
LEMMA RuntimeStepRefines ==
    ASSUME IInv, IInv', RuntimeStep
    PROVE  [Group!Next]_(Group!groupVars)
  <1> USE DEF Open
  <1>f. pc # "idle" /\ UNCHANGED planVars
    BY RuntimeStepFrame
  <1>1. CASE GlobalCommit
    BY <1>1, GlobalCommitRefines DEF Group!Next
  <1>2. CASE pc # "finalize" /\ ~GlobalCommit
    <2>1. Open
      BY <1>f, <1>2, IInvParts DEF TokenInv
    <2>2. outcome' = outcome \/ outcome' # "Committed"
      BY <1>2
      DEF RuntimeStep, PrepareRuntimeStep, TransactionRuntimeStep, tokenVars, Visiting,
          Advance, Return, Unwind, Keep, Discharged, UndoneNext, Recover, Actuating,
          ValidatePasses, ValidateRefuses, CaptureSucceeds, CaptureFails, CaptureMisbound,
          PrepareSucceeds, PrepareFails, PrepareMisbound, AbortSucceeds, AbortFails,
          AbortPassEnds, ReleaseSkips, ReleaseSucceeds, ReleaseFails,
          PrepareCleanupReturns, CancellationObserved, ActuateSucceeds, ActuateFails,
          VerifyPasses, VerifyFails, CommitSucceeds, CommitFails, RecoverUnreachable,
          RecoverAborts, RecoverAbortFails, RecoverRestores, RecoverRestoreFails,
          RecoverReleases, RecoverReleaseFails, RecoveryReturns, FinalizeReturns
    <2>3. CASE outcome' = "RolledBack"
      BY <1>f, <2>1, <2>3, RollBackRefines DEF Group!Next
    <2>4. CASE outcome' # "RolledBack"
      BY <1>f, <2>1, <2>2, <2>4, OpenStutter
    <2>5. QED
      BY <2>3, <2>4
  <1>3. CASE pc = "finalize"
    <2>1. outcome = "Committed"
      BY <1>3, IInvParts DEF TokenInv
    <2>2. outcome' = "Committed" /\ visible' = visible
      <3>1. \/ RecoverUnreachable \/ RecoverReleases \/ RecoverReleaseFails
            \/ FinalizeReturns
        BY <1>3
        DEF RuntimeStep, PrepareRuntimeStep, TransactionRuntimeStep, Visiting, Actuating,
            ValidatePasses, ValidateRefuses, CaptureSucceeds, CaptureFails,
            CaptureMisbound, PrepareSucceeds, PrepareFails, PrepareMisbound,
            AbortSucceeds, AbortFails, AbortPassEnds, ReleaseSkips, ReleaseSucceeds,
            ReleaseFails, PrepareCleanupReturns, CancellationObserved, ActuateSucceeds,
            ActuateFails, VerifyPasses, VerifyFails, CommitSucceeds, GlobalCommit,
            CommitFails, RecoverAborts, RecoverAbortFails, RecoverRestores,
            RecoverRestoreFails, RecoveryReturns
      <3>2. QED
        BY <2>1, <3>1
        DEF RecoverUnreachable, RecoverReleases, RecoverReleaseFails, FinalizeReturns,
            Keep, Discharged, Return, Untouched, ReleaseCall, backendVars, tokenVars
    <2>3. QED
      BY <1>f, <2>1, <2>2, SettledStutter DEF planVars
  <1>4. QED
    BY <1>1, <1>2, <1>3

(* So does everything the caller and the cancelling thread do.             *)
LEMMA CallerStepRefines ==
    ASSUME IInv, IInv', CallerStep \/ Cancel \/ UNCHANGED vars
    PROVE  [Group!Next]_(Group!groupVars)
  <1> USE DEF Open
  <1>p. TokenInv /\ PlanTypeOK /\ bound \in [Resource -> Backend \cup {None}]
    BY IInvParts DEF PlanTypeOK
  <1>1. ASSUME NEW s \in Slice, BeginPrepare(s)
        PROVE  Group!Begin
    <2>1. ~Open /\ Open' /\ attempt' = attempt + 1 /\ attempt < MaxAttempt
      BY <1>1, <1>p DEF BeginPrepare, TokenInv
    <2>2. baseline' = visible
      BY <1>1 DEF BeginPrepare
    <2>3. {bound'[r] : r \in Resource} \ {None} \in SUBSET Backend
      BY DEF IInv, TypeOK, PlanTypeOK
    <2>4. QED
      BY <2>1, <2>2, <2>3 DEF Group!Begin
  <1>2. ASSUME NEW s \in Slice, BeginPrepareRefused(s)
        PROVE  Group!Refuse
    <2>1. /\ ~Open /\ ~Open' /\ outcome # "open" /\ outcome' = "RolledBack"
          /\ attempt' = attempt + 1 /\ attempt < MaxAttempt
      BY <1>2, <1>p DEF BeginPrepareRefused, TokenInv
    <2>2. UNCHANGED <<visible, bound>>
      BY <1>2 DEF BeginPrepareRefused, backendVars
    <2>3. QED
      BY <2>1, <2>2 DEF Group!Refuse
  <1>3. ASSUME NEW s \in Slice,
               AbortComposite(s) \/ AbortCompositeRefused(s) \/ RetryPrepareCleanup(s)
                 \/ Execute(s) \/ ExecuteRefused(s) \/ RetryRecovery(s)
        PROVE  UNCHANGED Group!groupVars
    <2>1. Open
      BY <1>3, <1>p
      DEF AbortComposite, AbortCompositeRefused, RetryPrepareCleanup, Execute,
          ExecuteRefused, RetryRecovery, TokenInv
    <2>2. Open' /\ UNCHANGED planVars
      BY <1>3
      DEF AbortComposite, AbortCompositeRefused, RetryPrepareCleanup, Execute,
          ExecuteRefused, RetryRecovery, Consume
    <2>3. QED
      BY <2>1, <2>2, OpenStutter
  <1>4. ASSUME NEW s \in Slice, RetryCommitCleanup(s)
        PROVE  UNCHANGED Group!groupVars
    BY <1>4, <1>p
    DEF RetryCommitCleanup, Consume, planVars, backendVars, TokenInv, Group!groupVars
  <1>5. CASE Cancel \/ UNCHANGED vars
    BY <1>5
    DEF Cancel, vars, prepareVars, planVars, backendVars, tokenVars, Group!groupVars
  <1>6. QED
    BY <1>1, <1>2, <1>3, <1>4, <1>5
    DEF CallerStep, PrepareCallerStep, TransactionCallerStep, Group!Next

(* The composite transaction implements the abstract atomic group.         *)
THEOREM TransactionRefinesGroup == Spec => ImplementsAtomicGroup
  <1>1. Init => Group!Init
    <2> SUFFICES ASSUME Init PROVE Group!Init
      OBVIOUS
    <2>1. \A r \in Resource : bound[r] = None
      BY DEF Init, PrepareInit, NoLookup
    <2>2. QED
      BY <2>1 DEF Init, PrepareInit, BackendInit, Open, Group!Init
  <1>2. IInv /\ IInv' /\ [Next]_vars => [Group!Next]_(Group!groupVars)
    BY RuntimeStepRefines, CallerStepRefines DEF Next, Finished
  <1>3. QED
    BY <1>1, <1>2, Invariance, PTL DEF Spec, Group!Spec, ImplementsAtomicGroup

-----------------------------------------------------------------------------
(* Which backend a step touches.                                           *)

(* A call of the transaction only ever reaches instances of the plan: the  *)
(* forward phases and the prepare cleanup were given them, the recovery    *)
(* loops check each one.                                                   *)
LEMMA StepTouchesBound ==
    ASSUME IInv, RuntimeStep, NEW b \in Backend, \A r \in Resource : bound[r] # b
    PROVE  visible'[b] = visible[b] /\ checkpoint'[b] = checkpoint[b]
              /\ reserved'[b] = reserved[b]
  <1>t. BackendTypeOK
    BY IInvParts
  <1> USE <1>t DEF BackendTypeOK
  <1>1. ASSUME NEW c \in Backend, c # b, NEW t,
               \/ CaptureCall(c) \/ PrepareCall(c) \/ ActuateCall(c, t) \/ CommitCall(c)
               \/ AbortCall(c) \/ ReservationCallFails(c) \/ RestoreCall(c)
               \/ RestoreCallFails(c) \/ ReleaseCall(c)
        PROVE  visible'[b] = visible[b] /\ checkpoint'[b] = checkpoint[b]
                  /\ reserved'[b] = reserved[b]
    BY <1>1
    DEF CaptureCall, PrepareCall, ActuateCall, CommitCall, AbortCall,
        ReservationCallFails, RestoreCall, RestoreCallFails, ReleaseCall
  <1>2. CASE UNCHANGED backendVars
    BY <1>2 DEF backendVars
  <1>3. CASE PrepareRuntimeStep /\ ~UNCHANGED backendVars
    BY <1>1, <1>3, AtCurrent, AtHead
    DEF PrepareRuntimeStep, Untouched, ValidatePasses, ValidateRefuses, CaptureSucceeds,
        CaptureFails, CaptureMisbound, PrepareSucceeds, PrepareFails, PrepareMisbound,
        AbortSucceeds, AbortFails, AbortPassEnds, ReleaseSkips, ReleaseSucceeds,
        ReleaseFails, PrepareCleanupReturns
  <1>4. CASE TransactionRuntimeStep /\ ~UNCHANGED backendVars
    BY <1>1, <1>4, AtCurrent, AtHead
    DEF TransactionRuntimeStep, Untouched, CancellationObserved, Actuating,
        ActuateSucceeds, ActuateFails, VerifyPasses, VerifyFails, CommitSucceeds,
        GlobalCommit, CommitFails, Visiting, RecoverUnreachable, RecoverAborts,
        RecoverAbortFails, RecoverRestores, RecoverRestoreFails, RecoverReleases,
        RecoverReleaseFails, RecoveryReturns, FinalizeReturns
  <1>5. QED
    BY <1>2, <1>3, <1>4 DEF RuntimeStep

(* Whatever slice of backends a later call is given, an instance the plan  *)
(* was not prepared on is left alone.                                      *)
THEOREM ReplacedBackendsAreLeftAlone == Spec => OnlyBoundInstances
  <1>1. IInv /\ [Next]_vars =>
           [\A b \in Backend :
               \/ \E r \in Resource : bound[r] = b
               \/ /\ visible'[b] = visible[b]
                  /\ checkpoint'[b] = checkpoint[b]
                  /\ reserved'[b] = reserved[b]]_vars
    <2> SUFFICES ASSUME IInv, [Next]_vars, NEW b \in Backend, \A r \in Resource : bound[r] # b
                 PROVE  visible'[b] = visible[b] /\ checkpoint'[b] = checkpoint[b]
                           /\ reserved'[b] = reserved[b]
      OBVIOUS
    <2>1. CASE RuntimeStep
      BY <2>1, StepTouchesBound
    <2>2. CASE CallerStep \/ Cancel \/ UNCHANGED vars
      <3>1. UNCHANGED backendVars
        BY <2>2
        DEF CallerStep, PrepareCallerStep, TransactionCallerStep, Cancel, vars, prepareVars,
            BeginPrepare, BeginPrepareRefused, AbortComposite, AbortCompositeRefused,
            RetryPrepareCleanup, Execute, ExecuteRefused, RetryRecovery,
            RetryCommitCleanup, Consume
      <3>2. QED
        BY <3>1 DEF backendVars
    <2>3. QED
      BY <2>1, <2>2 DEF Next, Finished
  <1>2. QED
    BY <1>1, Invariance, PTL DEF Spec, OnlyBoundInstances

-----------------------------------------------------------------------------
(* Lists that name every entry once.                                       *)

(* The head of such a list is not in its tail.                             *)
LEMMA TailOnce ==
    ASSUME NEW S, NEW s \in Seq(S), s # <<>>, IsInjective(s)
    PROVE  IsInjective(Tail(s)) /\ Head(s) \notin ToSet(Tail(s))
  <1>1. /\ Len(s) \in Nat \ {0}
        /\ DOMAIN s = 1 .. Len(s)
        /\ DOMAIN Tail(s) = 1 .. (Len(s) - 1)
        /\ \A i \in 1 .. (Len(s) - 1) : Tail(s)[i] = s[i + 1]
        /\ Head(s) = s[1]
    OBVIOUS
  <1>2. \A i, j \in 1 .. Len(s) : s[i] = s[j] => i = j
    BY <1>1 DEF IsInjective
  <1>3. ASSUME NEW i \in 1 .. (Len(s) - 1), NEW j \in 1 .. (Len(s) - 1),
               Tail(s)[i] = Tail(s)[j]
        PROVE  i = j
    <2>1. i + 1 \in 1 .. Len(s) /\ j + 1 \in 1 .. Len(s) /\ s[i + 1] = s[j + 1]
      BY <1>1, <1>3
    <2>2. QED
      BY <1>2, <2>1
  <1>4. ASSUME NEW i \in 1 .. (Len(s) - 1), Tail(s)[i] = Head(s)
        PROVE  FALSE
    <2>1. i + 1 \in 1 .. Len(s) /\ 1 \in 1 .. Len(s) /\ s[i + 1] = s[1]
      BY <1>1, <1>4
    <2>2. QED
      BY <1>2, <2>1
  <1>5. QED
    BY <1>1, <1>3, <1>4 DEF IsInjective, ToSet

(* What appending an entry makes of a list.                                *)
LEMMA AppendAt ==
    ASSUME NEW S, NEW s \in Seq(S), NEW e \in S
    PROVE  /\ Len(s) \in Nat
           /\ DOMAIN s = 1 .. Len(s)
           /\ DOMAIN Append(s, e) = 1 .. (Len(s) + 1)
           /\ \A i \in 1 .. Len(s) : Append(s, e)[i] = s[i]
           /\ Append(s, e)[Len(s) + 1] = e
  OBVIOUS

(* A new entry may be appended to it.                                      *)
LEMMA AppendOnce ==
    ASSUME NEW S, NEW s \in Seq(S), NEW e \in S, IsInjective(s), e \notin ToSet(s)
    PROVE  IsInjective(Append(s, e))
  <1> SUFFICES ASSUME NEW i \in DOMAIN Append(s, e), NEW j \in DOMAIN Append(s, e),
                      Append(s, e)[i] = Append(s, e)[j]
               PROVE  i = j
    BY DEF IsInjective
  <1>1. /\ \A k, l \in 1 .. Len(s) : s[k] = s[l] => k = l
        /\ \A k \in 1 .. Len(s) : s[k] # e
    BY AppendAt DEF IsInjective, ToSet
  <1>2. \A k \in 1 .. (Len(s) + 1) : k \in 1 .. Len(s) \/ k = Len(s) + 1
    BY AppendAt
  <1>3. QED
    BY <1>1, <1>2, AppendAt

(* Unwinding a part of the plan names each of its entries once, and goes   *)
(* against the order of the plan.                                          *)
LEMMA UnwoundPlan ==
    ASSUME NEW n \in 0 .. Len(Order)
    PROVE  /\ IsInjective(UpTo(n)) /\ AgainstOrder(UpTo(n))
           /\ IsInjective(Reverse(Order)) /\ AgainstOrder(Reverse(Order))
  <1>1. ASSUME NEW m \in 0 .. Len(Order), NEW s \in Seq(Resource), Len(s) = m,
               \A i \in 1 .. m : s[i] = Order[i]
        PROVE  IsInjective(Reverse(s)) /\ AgainstOrder(Reverse(s))
    <2>1. /\ DOMAIN Reverse(s) = 1 .. m
          /\ \A i \in 1 .. m : Reverse(s)[i] = Order[(m - i) + 1]
          /\ \A i \in 1 .. m : (m - i) + 1 \in 1 .. Len(Order)
      <3>1. Len(Order) \in Nat /\ m \in Nat
        BY OrderAssumption
      <3>2. \A i \in 1 .. m : (m - i) + 1 \in 1 .. m /\ (m - i) + 1 \in 1 .. Len(Order)
        BY <3>1
      <3>3. \A i \in 1 .. m : s[(m - i) + 1] = Order[(m - i) + 1]
        BY <1>1, <3>2
      <3>4. Reverse(s) = [i \in 1 .. m |-> s[(m - i) + 1]]
        BY <1>1 DEF Reverse
      <3>5. QED
        BY <3>2, <3>3, <3>4
    <2>2. \A i, j \in 1 .. m : Reverse(s)[i] = Reverse(s)[j] => i = j
      <3> SUFFICES ASSUME NEW i \in 1 .. m, NEW j \in 1 .. m, Reverse(s)[i] = Reverse(s)[j]
                   PROVE  i = j
        OBVIOUS
      <3>1. \A k, l \in 1 .. Len(Order) : Order[k] = Order[l] => k = l
        BY OrderAssumption
      <3>2. (m - i) + 1 = (m - j) + 1
        BY <2>1, <3>1
      <3>3. m \in Nat /\ i \in Nat /\ j \in Nat
        BY OrderAssumption
      <3>4. QED
        BY <3>2, <3>3
    <2>3. ASSUME NEW j \in 1 .. m, NEW i \in 1 .. j - 1
          PROVE  Precedes(Reverse(s)[j], Reverse(s)[i])
      <3>1. i \in 1 .. m /\ (m - i) + 1 \in ((m - j) + 1) + 1 .. Len(Order)
        BY <1>1, OrderAssumption
      <3>2. QED
        BY <2>1, <3>1 DEF Precedes
    <2>4. QED
      BY <2>1, <2>2, <2>3 DEF IsInjective, AgainstOrder
  <1>2. IsInjective(UpTo(n)) /\ AgainstOrder(UpTo(n))
    <2>1. /\ SubSeq(Order, 1, n) \in Seq(Resource) /\ Len(SubSeq(Order, 1, n)) = n
          /\ \A i \in 1 .. n : SubSeq(Order, 1, n)[i] = Order[i]
      BY PlanHead
    <2>2. QED
      BY <1>1, <2>1 DEF UpTo
  <1>3. IsInjective(Reverse(Order)) /\ AgainstOrder(Reverse(Order))
    BY <1>1, OrderAssumption
  <1>4. QED
    BY <1>2, <1>3

(* The empty list does all of this.                                        *)
LEMMA EmptyListOrdered == IsInjective(<<>>) /\ AgainstOrder(<<>>)
  BY DEF IsInjective, AgainstOrder

(* A list against the order: its head comes last in the plan, and an entry *)
(* that precedes all of it may be appended.                                *)
LEMMA TailAgainstOrder ==
    ASSUME NEW S, NEW s \in Seq(S), s # <<>>, AgainstOrder(s)
    PROVE  AgainstOrder(Tail(s)) /\ \A r \in ToSet(Tail(s)) : Precedes(r, Head(s))
  <1>1. /\ Len(s) \in Nat \ {0}
        /\ DOMAIN s = 1 .. Len(s)
        /\ DOMAIN Tail(s) = 1 .. (Len(s) - 1)
        /\ \A i \in 1 .. (Len(s) - 1) : Tail(s)[i] = s[i + 1]
        /\ Head(s) = s[1]
    OBVIOUS
  <1>2. ASSUME NEW j \in 1 .. (Len(s) - 1), NEW i \in 1 .. j - 1
        PROVE  Precedes(Tail(s)[j], Tail(s)[i])
    <2>1. /\ j + 1 \in 1 .. Len(s) /\ i + 1 \in 1 .. (j + 1) - 1 /\ i \in 1 .. (Len(s) - 1)
          /\ Tail(s)[j] = s[j + 1] /\ Tail(s)[i] = s[i + 1]
      BY <1>1
    <2>2. QED
      BY <1>1, <2>1 DEF AgainstOrder
  <1>3. ASSUME NEW j \in 1 .. (Len(s) - 1)
        PROVE  Precedes(Tail(s)[j], Head(s))
    <2>1. j + 1 \in 1 .. Len(s) /\ 1 \in 1 .. (j + 1) - 1 /\ Tail(s)[j] = s[j + 1]
      BY <1>1
    <2>2. QED
      BY <1>1, <2>1 DEF AgainstOrder
  <1>4. QED
    BY <1>1, <1>2, <1>3 DEF AgainstOrder, ToSet

LEMMA AppendAgainstOrder ==
    ASSUME NEW S, NEW s \in Seq(S), NEW e \in S, AgainstOrder(s),
           \A r \in ToSet(s) : Precedes(e, r)
    PROVE  AgainstOrder(Append(s, e))
  <1>1. /\ Len(s) \in Nat
        /\ DOMAIN s = 1 .. Len(s)
        /\ DOMAIN Append(s, e) = 1 .. (Len(s) + 1)
        /\ \A i \in 1 .. Len(s) : Append(s, e)[i] = s[i]
        /\ Append(s, e)[Len(s) + 1] = e
    BY AppendAt
  <1>2. ASSUME NEW j \in 1 .. (Len(s) + 1), NEW i \in 1 .. j - 1
        PROVE  Precedes(Append(s, e)[j], Append(s, e)[i])
    <2>1. i \in 1 .. Len(s) /\ Append(s, e)[i] = s[i] /\ s[i] \in ToSet(s)
      BY <1>1 DEF ToSet
    <2>2. CASE j = Len(s) + 1
      BY <1>1, <2>1, <2>2
    <2>3. CASE j # Len(s) + 1
      <3>1. j \in 1 .. Len(s) /\ Append(s, e)[j] = s[j]
        BY <1>1, <2>3
      <3>2. QED
        BY <1>1, <2>1, <3>1 DEF AgainstOrder
    <2>4. QED
      BY <2>2, <2>3
  <1>3. QED
    BY <1>1, <1>2 DEF AgainstOrder

-----------------------------------------------------------------------------
(* The lists of the cleanup loops.                                         *)

(* Outside the cleanup loops nothing is listed but what the caller holds.  *)
LEMMA NothingListed ==
    ASSUME ListInv, TokenInv, ~Cleaning, pc # "idle" \/ holding \in {"none", "prepared"}
    PROVE  todo = <<>> /\ retained = <<>>
  BY DEF ListInv, TokenInv

(* Going on with the head of the list: discharged, or kept once.           *)
LEMMA LoopStepLists ==
    ASSUME TypeOK, ListInv, Cleaning, todo # <<>>, NEW r, r = Head(todo), pc' = pc,
           \/ /\ todo' = Tail(todo) /\ UNCHANGED retained
              /\ \A q \in Resource \ {r} : owed'[q] = owed[q]
              /\ r \notin ToSet(retained) \/ owed'[r] = owed[r]
              /\ pc = "abort" => owed'[r] # "none"
           \/ /\ todo' = Tail(todo) /\ retained' = Append(retained, r)
              /\ UNCHANGED owed
              /\ r \notin ToSet(retained)
              /\ pc = "abort" => owed[r] = "Abort"
              /\ pc = "release" => owed[r] = "Abort" \/ r \notin ToSet(Tail(todo))
           \/ /\ UNCHANGED <<todo, retained>>
              /\ \A q \in Resource \ {r} : owed'[q] = owed[q]
              /\ owed'[r] # "none" /\ pc # "release"
    PROVE  ListInv'
  <1>1. todo \in Seq(Resource) /\ retained \in Seq(Resource)
    BY DEF TypeOK, CallTypeOK, TokenTypeOK
  <1>2. /\ r \in Resource /\ Tail(todo) \in Seq(Resource)
        /\ ToSet(todo) = {r} \cup ToSet(Tail(todo))
    BY <1>1, HeadTail
  <1>3. IsInjective(Tail(todo)) /\ r \notin ToSet(Tail(todo)) /\ IsInjective(retained)
    BY <1>1, TailOnce DEF ListInv
  <1>4. /\ ToSet(Append(retained, r)) = ToSet(retained) \cup {r}
        /\ r \notin ToSet(retained) => IsInjective(Append(retained, r))
    BY <1>1, <1>2, <1>3, AppendElements, AppendOnce
  <1>5. ToSet(todo) \subseteq Resource /\ ToSet(retained) \subseteq Resource
    BY <1>1 DEF ToSet
  <1>6. Cleaning' /\ pc' = pc
    BY DEF Cleaning
  <1>7. CASE todo' = Tail(todo) /\ UNCHANGED retained
               /\ \A q \in Resource \ {r} : owed'[q] = owed[q]
               /\ (r \notin ToSet(retained) \/ owed'[r] = owed[r])
               /\ (pc = "abort" => owed'[r] # "none")
    BY <1>7, <1>1, <1>2, <1>3, <1>5, <1>6 DEF ListInv, Pending
  <1>8. CASE todo' = Tail(todo) /\ retained' = Append(retained, r) /\ UNCHANGED owed
               /\ r \notin ToSet(retained) /\ (pc = "abort" => owed[r] = "Abort")
    BY <1>8, <1>1, <1>2, <1>3, <1>4, <1>5, <1>6 DEF ListInv, Pending
  <1>9. CASE UNCHANGED <<todo, retained>> /\ (\A q \in Resource \ {r} : owed'[q] = owed[q])
               /\ owed'[r] # "none" /\ pc # "release"
    BY <1>9, <1>1, <1>2, <1>3, <1>5, <1>6 DEF ListInv, Pending
  <1>10. QED
    BY <1>7, <1>8, <1>9

(* A loop that starts over a list of owed entries, with nothing kept yet.  *)
LEMMA LoopStartLists ==
    ASSUME Cleaning', retained' = <<>>, IsInjective(todo'),
           \A r \in ToSet(todo') : owed'[r] # "none",
           pc' = "abort" => \A r \in Resource : owed'[r] # "none"
    PROVE  ListInv'
  BY EmptyList, EmptyListOrdered DEF ListInv, Pending

(* No list, and none kept.                                                 *)
LEMMA NoLists ==
    ASSUME todo' = <<>>, retained' = <<>>, pc' # "abort"
    PROVE  ListInv'
  BY EmptyList, EmptyListOrdered DEF ListInv, Pending

(* What a part of the plan unwound consists of.                            *)
LEMMA UnwoundOnly ==
    ASSUME CallTypeOK
    PROVE  /\ \A r \in ToSet(UpTo(pos - 1)) :
                 r \in Resource /\ \E i \in 1 .. Len(Order) : i < pos /\ Order[i] = r
           /\ \A r \in ToSet(UpTo(pos)) :
                 r \in Resource /\ \E i \in 1 .. Len(Order) : (i < pos \/ i = pos) /\ Order[i] = r
           /\ IsInjective(UpTo(pos - 1)) /\ IsInjective(UpTo(pos))
  <1>1. pos - 1 \in 0 .. Len(Order) /\ pos \in 0 .. Len(Order) /\ Len(Order) \in Nat
    BY OrderAssumption DEF CallTypeOK
  <1>2. ASSUME NEW n \in 0 .. Len(Order), NEW r \in ToSet(UpTo(n))
        PROVE  r \in Resource /\ \E i \in 1 .. Len(Order) : (i < n \/ i = n) /\ Order[i] = r
    <2>1. /\ SubSeq(Order, 1, n) \in Seq(Resource)
          /\ DOMAIN SubSeq(Order, 1, n) = 1 .. n
          /\ \A i \in 1 .. n : SubSeq(Order, 1, n)[i] = Order[i]
          /\ \A i \in 1 .. n : i \in 1 .. Len(Order) /\ (i < n \/ i = n) /\ Order[i] \in Resource
      BY PlanHead
    <2>2. r \in ToSet(SubSeq(Order, 1, n))
      BY <2>1, ReverseElements DEF UpTo
    <2>3. QED
      BY <2>1, <2>2 DEF ToSet
  <1>3. \A i \in 1 .. Len(Order) : i < pos - 1 \/ i = pos - 1 => i < pos
    BY <1>1
  <1>4. QED
    BY <1>1, <1>2, <1>3, UnwoundPlan

(* The prepare half keeps the lists in order.                              *)
LEMMA PrepareStepLists ==
    ASSUME IInv, ListInv, PrepareRuntimeStep
    PROVE  ListInv'
  <1> USE DEF Owe, tokenVars
  <1>p. /\ TypeOK /\ TokenInv /\ owed \in [Resource -> Action]
        /\ todo \in Seq(Resource) /\ retained \in Seq(Resource)
    BY IInvParts DEF CallTypeOK, TokenTypeOK
  <1>h. todo # <<>> => Head(todo) \in Resource /\ Head(todo) \in ToSet(todo)
    BY <1>p, HeadTail
  <1>m. Head(todo) \in ToSet(todo) /\ Head(todo) \in ToSet(retained) =>
           pc = "release" /\ owed[Head(todo)] = "Abort"
    BY DEF ListInv
  <1>t. todo # <<>> => Head(todo) \notin ToSet(Tail(todo))
    BY <1>p, TailOnce DEF ListInv
  <1>1. CASE ValidatePasses \/ ValidateRefuses \/ CaptureSucceeds \/ PrepareSucceeds
    <2>1. todo = <<>> /\ retained = <<>>
      BY <1>1, <1>p, NothingListed
      DEF Cleaning, ValidatePasses, ValidateRefuses, CaptureSucceeds, PrepareSucceeds
    <2>2. QED
      BY <1>1, <2>1, NoLists
      DEF ValidatePasses, ValidateRefuses, CaptureSucceeds, PrepareSucceeds, Advance, Return
  <1>2. CASE CaptureFails \/ CaptureMisbound
    <2>1. pos \in 1 .. Len(Order) /\ pc = "capture" /\ CallTypeOK
      BY <1>2, IInvParts DEF CallTypeOK, CaptureFails, CaptureMisbound
    <2>2. \A i \in 1 .. Len(Order) :
             owed[Order[i]] = IF i < pos THEN "Release" ELSE "none"
      BY <2>1, IInvParts DEF ForwardInv
    <2>3. CASE CaptureFails
      BY <2>1, <2>2, <2>3, UnwoundOnly, LoopStartLists DEF CaptureFails, Unwind, Cleaning
    <2>4. CASE CaptureMisbound
      <3>1. /\ pc' = "release" /\ todo' = UpTo(pos) /\ retained' = <<>>
            /\ owed' = [owed EXCEPT ![Order[pos]] = "Release"]
        BY <2>4 DEF CaptureMisbound, Unwind, Current
      <3>2. \A r \in ToSet(UpTo(pos)) : owed'[r] # "none"
        BY <1>p, <2>1, <2>2, <3>1, UnwoundOnly
      <3>3. QED
        BY <2>1, <3>1, <3>2, UnwoundOnly, LoopStartLists DEF Cleaning
    <2>5. QED
      BY <1>2, <2>3, <2>4
  <1>3. CASE PrepareFails \/ PrepareMisbound
    <2>1. pos \in 1 .. Len(Order) /\ pc = "prepare" /\ CallTypeOK
      BY <1>3, IInvParts DEF CallTypeOK, PrepareFails, PrepareMisbound
    <2>2. \A r \in Resource : owed[r] # "none"
      BY <2>1, IInvParts, OrderAssumption DEF ForwardInv
    <2>3. /\ pc' = "abort" /\ retained' = <<>> /\ todo' \in {UpTo(pos - 1), UpTo(pos)}
          /\ \A r \in Resource : owed'[r] # "none"
      BY <1>3, <1>p, <2>2 DEF PrepareFails, PrepareMisbound, Unwind
    <2>4. QED
      BY <2>1, <2>3, UnwoundOnly, LoopStartLists DEF Cleaning
  <1>4. CASE AbortSucceeds
    <2>1. CASE pc = "abort"
      BY <1>4, <1>p, <1>h, <1>m, <2>1, LoopStepLists DEF AbortSucceeds, Cleaning
    <2>2. CASE pc = "retry"
      BY <1>4, <1>p, <1>h, <1>m, <2>2, LoopStepLists DEF AbortSucceeds, Cleaning
    <2>3. QED
      BY <1>4, <2>1, <2>2 DEF AbortSucceeds
  <1>5. CASE AbortFails \/ ReleaseFails
    BY <1>5, <1>p, <1>h, <1>m, <1>t, LoopStepLists
    DEF AbortFails, ReleaseFails, Keep, Cleaning
  <1>6. CASE AbortPassEnds
    <2>1. /\ pc = "abort" /\ pc' = "release" /\ todo' = Reverse(Order)
          /\ UNCHANGED <<retained, owed>>
      BY <1>6 DEF AbortPassEnds
    <2>2. IsInjective(Reverse(Order)) /\ ToSet(Reverse(Order)) = Resource
      BY UnwoundPlan, WholePlan, OrderAssumption
    <2>3. \A r \in ToSet(retained) : r \in Resource /\ owed[r] = "Abort"
      BY <2>1, <1>p DEF ListInv, ToSet
    <2>4. QED
      BY <2>1, <2>2, <2>3 DEF ListInv, Pending, Cleaning
  <1>7. CASE ReleaseSkips \/ ReleaseSucceeds
    BY <1>7, <1>p, <1>h, <1>m, LoopStepLists DEF ReleaseSkips, ReleaseSucceeds, Discharged, Cleaning
  <1>8. CASE PrepareCleanupReturns
    BY <1>8, EmptyList, EmptyListOrdered
    DEF PrepareCleanupReturns, Return, ListInv, Pending, Cleaning
  <1>9. QED
    BY <1>1, <1>2, <1>3, <1>4, <1>5, <1>6, <1>7, <1>8 DEF PrepareRuntimeStep

(* So does the transaction half.                                           *)
LEMMA TransactionStepLists ==
    ASSUME IInv, ListInv, TransactionRuntimeStep
    PROVE  ListInv'
  <1> USE DEF Owe, tokenVars, callVars
  <1>p. /\ TypeOK /\ TokenInv /\ owed \in [Resource -> Action]
        /\ todo \in Seq(Resource) /\ retained \in Seq(Resource)
    BY IInvParts DEF CallTypeOK, TokenTypeOK
  <1>h. todo # <<>> => Head(todo) \in Resource /\ Head(todo) \in ToSet(todo)
    BY <1>p, HeadTail
  <1>m. Head(todo) \in ToSet(todo) /\ Head(todo) \in ToSet(retained) =>
           pc = "release" /\ owed[Head(todo)] = "Abort"
    BY DEF ListInv
  <1>w. IsInjective(Reverse(Order)) /\ ToSet(Reverse(Order)) = Resource
    BY UnwoundPlan, WholePlan, OrderAssumption
  <1>1. CASE ActuateSucceeds \/ VerifyPasses \/ CommitSucceeds
    <2>1. todo = <<>> /\ retained = <<>> /\ pc \in {"act", "verify", "commit"}
      BY <1>1, <1>p, NothingListed
      DEF Cleaning, ActuateSucceeds, Actuating, VerifyPasses, CommitSucceeds
    <2>2. QED
      BY <1>1, <2>1, NoLists DEF ActuateSucceeds, VerifyPasses, CommitSucceeds, Advance
  <1>2. CASE CancellationObserved \/ ActuateFails \/ VerifyFails \/ CommitFails
    <2>1. pc' = "recover" /\ todo' = Reverse(Order) /\ retained' = <<>>
      BY <1>2 DEF CancellationObserved, ActuateFails, VerifyFails, CommitFails, Recover, Unwind
    <2>2. pc \in {"act", "verify", "commit"} /\ \A r \in Resource : owed[r] # "none"
      BY <1>2, IInvParts, OrderAssumption
      DEF CancellationObserved, ActuateFails, Actuating, VerifyFails, CommitFails, ForwardInv
    <2>3. \A r \in Resource : owed'[r] # "none"
      BY <1>2, <1>p, <2>2
      DEF CancellationObserved, ActuateFails, Actuating, VerifyFails, CommitFails
    <2>4. QED
      BY <1>w, <2>1, <2>3, LoopStartLists DEF Cleaning
  <1>3. CASE GlobalCommit
    <2>1. retained = <<>>
      BY <1>3, <1>p, NothingListed DEF Cleaning, GlobalCommit
    <2>2. QED
      BY <1>3, <1>w, <2>1, LoopStartLists DEF GlobalCommit, Cleaning
  <1>4. CASE RecoverUnreachable \/ RecoverAbortFails \/ RecoverRestoreFails
               \/ RecoverReleaseFails
    BY <1>4, <1>p, <1>h, <1>m, LoopStepLists
    DEF RecoverUnreachable, RecoverAbortFails, RecoverRestoreFails, RecoverReleaseFails,
        Visiting, Keep, Cleaning
  <1>5. CASE RecoverAborts \/ RecoverRestores
    BY <1>5, <1>p, <1>h, <1>m, LoopStepLists
    DEF RecoverAborts, RecoverRestores, UndoneNext, Visiting, Cleaning
  <1>6. CASE RecoverReleases
    BY <1>6, <1>p, <1>h, <1>m, LoopStepLists DEF RecoverReleases, Visiting, Discharged, Cleaning
  <1>7. CASE RecoveryReturns \/ FinalizeReturns
    BY <1>7, EmptyList, EmptyListOrdered
    DEF RecoveryReturns, FinalizeReturns, Return, ListInv, Pending, Cleaning
  <1>8. QED
    BY <1>1, <1>2, <1>3, <1>4, <1>5, <1>6, <1>7 DEF TransactionRuntimeStep

(* A call takes the caller's list over and starts with nothing kept.       *)
LEMMA CallerStepLists ==
    ASSUME IInv, ListInv, CallerStep \/ Cancel \/ UNCHANGED vars
    PROVE  ListInv'
  <1>p. /\ TokenInv /\ owed \in [Resource -> Action] /\ retained \in Seq(Resource)
    BY IInvParts DEF TokenTypeOK
  <1>w. IsInjective(Reverse(Order)) /\ ToSet(Reverse(Order)) = Resource
    BY UnwoundPlan, WholePlan, OrderAssumption
  <1>1. ASSUME NEW s \in Slice, BeginPrepare(s) \/ BeginPrepareRefused(s)
        PROVE  ListInv'
    <2>1. todo = <<>> /\ retained = <<>>
      BY <1>1, <1>p, NothingListed DEF BeginPrepare, BeginPrepareRefused, Cleaning
    <2>2. QED
      BY <1>1, <2>1, NoLists DEF BeginPrepare, BeginPrepareRefused, callVars
  <1>2. ASSUME NEW s \in Slice, AbortComposite(s) \/ ExecuteRefused(s)
        PROVE  ListInv'
    BY <1>2, <1>p, <1>w, LoopStartLists
    DEF AbortComposite, ExecuteRefused, Consume, Cleaning, TokenInv
  <1>3. ASSUME NEW s \in Slice, AbortCompositeRefused(s)
        PROVE  ListInv'
    <2>1. todo = <<>> /\ \A r \in Resource : owed[r] = "Abort"
      BY <1>3, <1>p, NothingListed DEF AbortCompositeRefused, Cleaning, TokenInv
    <2>2. QED
      BY <1>3, <1>w, <2>1, EmptyList DEF AbortCompositeRefused, callVars, ListInv, Pending, Cleaning
  <1>4. ASSUME NEW s \in Slice, Execute(s)
        PROVE  ListInv'
    BY <1>4, NoLists DEF Execute, Consume
  <1>5. ASSUME NEW s \in Slice,
               RetryPrepareCleanup(s) \/ RetryRecovery(s) \/ RetryCommitCleanup(s)
        PROVE  ListInv'
    BY <1>5, LoopStartLists
    DEF RetryPrepareCleanup, RetryRecovery, RetryCommitCleanup, Consume, Cleaning, ListInv, Pending
  <1>6. CASE Cancel \/ UNCHANGED vars
    BY <1>6
    DEF Cancel, vars, prepareVars, callVars, tokenVars, ListInv, Pending, Cleaning
  <1>7. QED
    BY <1>1, <1>2, <1>3, <1>4, <1>5, <1>6
    DEF CallerStep, PrepareCallerStep, TransactionCallerStep

(* The lists stay in order for ever.                                       *)
THEOREM ListsStayInOrder == Spec => []ListInv
  <1>1. Init => ListInv
    BY EmptyList, EmptyListOrdered DEF Init, PrepareInit, ListInv, Pending, Cleaning
  <1>2. IInv /\ ListInv /\ [Next]_vars => ListInv'
    BY PrepareStepLists, TransactionStepLists, CallerStepLists DEF Next, RuntimeStep, Finished
  <1>3. QED
    BY <1>1, <1>2, Invariance, PTL DEF Spec

(* A failed cleanup never loses an obligation: between calls every         *)
(* checkpoint and reservation still held is the business of exactly one    *)
(* entry of the caller's token, whose next action gets rid of it.          *)
THEOREM NoObligationIsLost == Spec => []NothingLeaks
  <1>1. IInv /\ ListInv => NothingLeaks
    <2> SUFFICES ASSUME IInv, ListInv, pc = "idle"
                 PROVE  LET entries == IF holding = "prepared" THEN Reverse(Order)
                                       ELSE retained
                        IN  /\ \A i, j \in DOMAIN entries : entries[i] = entries[j] => i = j
                            /\ ToSet(entries) = {r \in Resource : owed[r] # "none"}
                            /\ \A b \in Backend :
                                  checkpoint[b] # None \/ reserved[b] =>
                                      \E r \in ToSet(entries) :
                                          bound[r] = b /\ (reserved[b] => owed[r] # "Release")
      BY DEF NothingLeaks
    <2> DEFINE entries == IF holding = "prepared" THEN Reverse(Order) ELSE retained
    <2>p. /\ TokenInv /\ owed \in [Resource -> Action] /\ retained \in Seq(Resource)
          /\ holding \in Token
      BY IInvParts DEF TokenTypeOK
    <2>1. IsInjective(entries)
      BY UnwoundPlan, OrderAssumption DEF ListInv
    <2>2. ToSet(entries) = {r \in Resource : owed[r] # "none"}
      <3>1. CASE holding = "prepared"
        BY <2>p, <3>1, WholePlan DEF TokenInv
      <3>2. CASE holding = "none"
        BY <2>p, <3>2, NothingListed, EmptyList DEF TokenInv, Cleaning
      <3>3. CASE holding \notin {"prepared", "none"}
        <4>1. \A r \in Resource : owed[r] # "none" => r \in ToSet(retained)
          BY <2>p, <3>3 DEF TokenInv, Token
        <4>2. \A r \in ToSet(retained) : r \in Resource /\ owed[r] # "none"
          BY <2>p DEF ListInv, Pending, ToSet
        <4>3. QED
          BY <3>3, <4>1, <4>2
      <3>4. QED
        BY <3>1, <3>2, <3>3
    <2>3. ASSUME NEW b \in Backend, checkpoint[b] # None \/ reserved[b]
          PROVE  \E r \in ToSet(entries) :
                    bound[r] = b /\ (reserved[b] => owed[r] # "Release")
      <3>1. /\ Serves[b] \in Resource /\ bound[Serves[b]] = b
            /\ EntryInv(b, owed[Serves[b]])
        BY <2>3, IInvParts, BackendAssumption DEF BackendInv
      <3>2. owed[Serves[b]] # "none" /\ (reserved[b] => owed[Serves[b]] # "Release")
        BY <2>3, <3>1 DEF EntryInv
      <3>3. QED
        BY <2>2, <3>1, <3>2
    <2> HIDE DEF entries
    <2>4. QED
      BY <2>1, <2>2, <2>3 DEF IsInjective, entries
  <1>2. QED
    BY <1>1, Invariance, ListsStayInOrder, PTL

-----------------------------------------------------------------------------
(* Dependents first.                                                       *)

(* Going on with the head of a recovery list keeps it against the order.   *)
LEMMA LoopStepOrder ==
    ASSUME TypeOK, OrderInv, TokenInv, pc = "recover", pc' = "recover", holding' = holding,
           todo # <<>>,
           \/ UNCHANGED <<todo, retained>>
           \/ todo' = Tail(todo) /\ UNCHANGED retained
           \/ todo' = Tail(todo) /\ retained' = Append(retained, Head(todo))
    PROVE  OrderInv'
  <1>1. /\ todo \in Seq(Resource) /\ retained \in Seq(Resource)
        /\ holding' # "transactionRecovery"
    BY DEF TypeOK, CallTypeOK, TokenTypeOK, TokenInv
  <1>2. /\ Head(todo) \in Resource /\ Tail(todo) \in Seq(Resource)
        /\ ToSet(todo) = {Head(todo)} \cup ToSet(Tail(todo))
    BY <1>1, HeadTail
  <1>3. /\ AgainstOrder(todo) /\ AgainstOrder(retained)
        /\ \A r \in ToSet(todo), t \in ToSet(retained) : Precedes(r, t)
    BY DEF OrderInv
  <1>4. AgainstOrder(Tail(todo)) /\ \A r \in ToSet(Tail(todo)) : Precedes(r, Head(todo))
    BY <1>1, <1>3, TailAgainstOrder
  <1>5. /\ ToSet(Append(retained, Head(todo))) = ToSet(retained) \cup {Head(todo)}
        /\ AgainstOrder(Append(retained, Head(todo)))
    <2>1. \A t \in ToSet(retained) : Precedes(Head(todo), t)
      BY <1>2, <1>3
    <2>2. AgainstOrder(Append(retained, Head(todo)))
      BY <1>1, <1>2, <1>3, <2>1, AppendAgainstOrder
    <2>3. QED
      BY <1>1, <1>2, <2>2, AppendElements
  <1>6. CASE UNCHANGED <<todo, retained>>
    BY <1>1, <1>3, <1>6 DEF OrderInv
  <1>7. CASE todo' = Tail(todo) /\ UNCHANGED retained
    BY <1>1, <1>2, <1>3, <1>4, <1>7 DEF OrderInv
  <1>8. CASE todo' = Tail(todo) /\ retained' = Append(retained, Head(todo))
    BY <1>1, <1>2, <1>3, <1>4, <1>5, <1>8 DEF OrderInv
  <1>9. QED
    BY <1>6, <1>7, <1>8

(* A recovery starts with nothing kept, on a list against the order.       *)
LEMMA LoopStartOrder ==
    ASSUME retained' = <<>>, holding' # "transactionRecovery",
           AgainstOrder(todo')
    PROVE  OrderInv'
  BY EmptyList, EmptyListOrdered DEF OrderInv

(* Every step keeps recovery lists against the order of the plan.          *)
LEMMA StepOrder ==
    ASSUME IInv, OrderInv, [Next]_vars
    PROVE  OrderInv'
  <1> USE DEF tokenVars, callVars
  <1>p. /\ TypeOK /\ TokenInv
        /\ todo \in Seq(Resource) /\ retained \in Seq(Resource)
    BY IInvParts DEF CallTypeOK, TokenTypeOK
  <1>w. AgainstOrder(Reverse(Order))
    BY UnwoundPlan, OrderAssumption
  <1>1. CASE PrepareRuntimeStep
    <2>1. pc' # "recover" /\ holding' # "transactionRecovery"
      BY <1>1, <1>p
      DEF PrepareRuntimeStep, TokenInv, Advance, Return, Unwind, Keep, Discharged,
          ValidatePasses, ValidateRefuses, CaptureSucceeds, CaptureFails, CaptureMisbound,
          PrepareSucceeds, PrepareFails, PrepareMisbound, AbortSucceeds, AbortFails,
          AbortPassEnds, ReleaseSkips, ReleaseSucceeds, ReleaseFails, PrepareCleanupReturns
    <2>2. QED
      BY <2>1 DEF OrderInv
  <1>2. CASE TransactionRuntimeStep
    <2>1. CASE CancellationObserved \/ ActuateFails \/ VerifyFails \/ CommitFails
      <3>1. todo' = Reverse(Order) /\ retained' = <<>> /\ holding' = holding /\ pc # "idle"
        BY <2>1
        DEF CancellationObserved, ActuateFails, Actuating, VerifyFails, CommitFails,
            Recover, Unwind
      <3>2. QED
        BY <1>p, <1>w, <3>1, LoopStartOrder DEF TokenInv
    <2>2. CASE pc = "recover" /\ pc' = "recover"
      <3>1. /\ holding' = holding /\ todo # <<>>
            /\ \/ UNCHANGED <<todo, retained>>
               \/ todo' = Tail(todo) /\ UNCHANGED retained
               \/ todo' = Tail(todo) /\ retained' = Append(retained, Head(todo))
        BY <1>2, <2>2
        DEF TransactionRuntimeStep, Visiting, Keep, Discharged, UndoneNext, Actuating, Return,
            CancellationObserved, ActuateSucceeds, ActuateFails, VerifyPasses, VerifyFails,
            CommitSucceeds, GlobalCommit, CommitFails, RecoverUnreachable, RecoverAborts,
            RecoverAbortFails, RecoverRestores, RecoverRestoreFails, RecoverReleases,
            RecoverReleaseFails, RecoveryReturns, FinalizeReturns
      <3>2. QED
        BY <1>p, <2>2, <3>1, LoopStepOrder
    <2>3. CASE RecoveryReturns
      BY <2>3 DEF RecoveryReturns, Return, OrderInv
    <2>4. CASE pc' # "recover" /\ ~RecoveryReturns
      <3>1. holding' # "transactionRecovery"
        BY <1>2, <1>p, <2>4
        DEF TransactionRuntimeStep, TokenInv, Visiting, Keep, Discharged, UndoneNext,
            Actuating, Advance, Recover, Unwind, Return,
            CancellationObserved, ActuateSucceeds, ActuateFails, VerifyPasses, VerifyFails,
            CommitSucceeds, GlobalCommit, CommitFails, RecoverUnreachable, RecoverAborts,
            RecoverAbortFails, RecoverRestores, RecoverRestoreFails, RecoverReleases,
            RecoverReleaseFails, FinalizeReturns
      <3>2. QED
        BY <2>4, <3>1 DEF OrderInv
    <2>5. QED
      <3>1. ASSUME pc' = "recover", pc # "recover"
            PROVE  CancellationObserved \/ ActuateFails \/ VerifyFails \/ CommitFails
        BY <1>2, <3>1
        DEF TransactionRuntimeStep, Visiting, Keep, Discharged, UndoneNext, Actuating,
            Advance, Return, ActuateSucceeds, VerifyPasses, CommitSucceeds, GlobalCommit,
            RecoverUnreachable, RecoverAborts, RecoverAbortFails, RecoverRestores,
            RecoverRestoreFails, RecoverReleases, RecoverReleaseFails, RecoveryReturns,
            FinalizeReturns
      <3>2. QED
        BY <2>1, <2>2, <2>3, <2>4, <3>1
  <1>3. ASSUME NEW s \in Slice, ExecuteRefused(s)
        PROVE  OrderInv'
    BY <1>3, <1>w, LoopStartOrder DEF ExecuteRefused, Consume
  <1>4. ASSUME NEW s \in Slice, RetryRecovery(s)
        PROVE  OrderInv'
    <2>1. AgainstOrder(retained) /\ todo' = retained
      BY <1>4 DEF RetryRecovery, Consume, OrderInv
    <2>2. QED
      BY <1>4, <2>1, LoopStartOrder DEF RetryRecovery, Consume, AgainstOrder
  <1>5. ASSUME NEW s \in Slice,
               BeginPrepare(s) \/ BeginPrepareRefused(s) \/ AbortComposite(s)
                 \/ AbortCompositeRefused(s) \/ RetryPrepareCleanup(s) \/ Execute(s)
                 \/ RetryCommitCleanup(s)
        PROVE  OrderInv'
    BY <1>5
    DEF BeginPrepare, BeginPrepareRefused, AbortComposite, AbortCompositeRefused,
        RetryPrepareCleanup, Execute, RetryCommitCleanup, Consume, OrderInv
  <1>6. CASE Cancel \/ UNCHANGED vars
    BY <1>6 DEF Cancel, vars, prepareVars, OrderInv
  <1>7. QED
    BY <1>1, <1>2, <1>3, <1>4, <1>5, <1>6
    DEF Next, Finished, RuntimeStep, CallerStep, PrepareCallerStep, TransactionCallerStep

(* The lists of a recovery go against the order of the plan, over all of   *)
(* its retries.                                                            *)
THEOREM RecoveryGoesBackwards == Spec => []OrderInv
  <1>1. Init => OrderInv
    BY DEF Init, PrepareInit, OrderInv
  <1>2. QED
    BY <1>1, StepOrder, Invariance, PTL DEF Spec

(* A resource is restored only after whatever was actuated after it was    *)
(* restored, or was tried in this call and kept for the next.              *)
THEOREM DependentsAreRestoredFirst == Spec => DependentsFirst
  <1>1. IInv /\ OrderInv /\ [Next]_vars =>
           [\A i \in 1 .. Len(Order) : \A j \in i + 1 .. Len(Order) :
               owed[Order[i]] = "Restore" /\ owed'[Order[i]] = "Release" =>
                   owed[Order[j]] # "Restore" \/ Order[j] \in ToSet(retained)
                     \/ outcome' = "Committed"]_vars
    <2> SUFFICES ASSUME IInv, OrderInv, Next,
                        NEW i \in 1 .. Len(Order), NEW j \in i + 1 .. Len(Order),
                        owed[Order[i]] = "Restore", owed'[Order[i]] = "Release",
                        owed[Order[j]] = "Restore", outcome' # "Committed"
                 PROVE  Order[j] \in ToSet(retained)
      OBVIOUS
    <2>i. /\ Len(Order) \in Nat /\ j \in 1 .. Len(Order) /\ i # j /\ ~(j < i)
          /\ Order[i] \in Resource /\ Order[j] \in Resource
      <3>1. Len(Order) \in Nat /\ \A k \in 1 .. Len(Order) : Order[k] \in Resource
        BY PlanEntries
      <3>2. j \in 1 .. Len(Order) /\ i # j /\ ~(j < i)
        BY <3>1
      <3>3. QED
        BY <3>1, <3>2
    <2>1. RecoverRestores /\ Head(todo) = Order[i]
      BY <2>i, IInvParts
      DEF Next, Finished, Cancel, CallerStep, PrepareCallerStep, TransactionCallerStep,
          RuntimeStep, PrepareRuntimeStep, TransactionRuntimeStep, BeginPrepare,
          BeginPrepareRefused, AbortComposite, AbortCompositeRefused, RetryPrepareCleanup,
          Execute, ExecuteRefused, RetryRecovery, RetryCommitCleanup, Consume, vars,
          prepareVars, Owe, Current, ForwardInv, CallTypeOK, Keep, Discharged, UndoneNext,
          ValidatePasses, ValidateRefuses, CaptureSucceeds, CaptureFails, CaptureMisbound,
          PrepareSucceeds, PrepareFails, PrepareMisbound, AbortSucceeds, AbortFails,
          AbortPassEnds, ReleaseSkips, ReleaseSucceeds, ReleaseFails, PrepareCleanupReturns,
          CancellationObserved, ActuateSucceeds, ActuateFails, Actuating, VerifyPasses,
          VerifyFails, CommitSucceeds, GlobalCommit, CommitFails, RecoverUnreachable,
          RecoverAborts, RecoverAbortFails, RecoverRestores, RecoverRestoreFails,
          RecoverReleases, RecoverReleaseFails, RecoveryReturns, FinalizeReturns, Visiting
    <2>2. pc = "recover" /\ todo # <<>>
      BY <2>1 DEF RecoverRestores, Visiting
    <2>3. Order[j] \in ToSet(todo) \cup ToSet(retained)
      BY <2>i, <2>2, IInvParts DEF ObligationInv, Pending
    <2>4. Order[j] \notin ToSet(todo)
      <3>1. todo \in Seq(Resource) /\ AgainstOrder(todo)
        BY <2>2, IInvParts DEF CallTypeOK, OrderInv
      <3>2. ToSet(todo) = {Order[i]} \cup ToSet(Tail(todo))
        BY <2>1, <2>2, <3>1, HeadTail
      <3>3. \A r \in ToSet(Tail(todo)) : Precedes(r, Order[i])
        BY <2>1, <2>2, <3>1, TailAgainstOrder
      <3>4. ~Precedes(Order[j], Order[i])
        <4>1. ASSUME NEW k \in 1 .. Len(Order), NEW l \in k + 1 .. Len(Order),
                     Order[k] = Order[j], Order[l] = Order[i]
              PROVE  FALSE
          <5>1. k = j /\ l = i
            BY <2>i, <4>1, OrderAssumption
          <5>2. QED
            BY <2>i, <5>1
        <4>2. QED
          BY <4>1 DEF Precedes
      <3>5. Order[j] # Order[i]
        BY <2>i, OrderAssumption
      <3>6. QED
        BY <3>2, <3>3, <3>4, <3>5
    <2>5. QED
      BY <2>3, <2>4
  <1>2. QED
    BY <1>1, Invariance, RecoveryGoesBackwards, PTL DEF Spec, DependentsFirst
=============================================================================

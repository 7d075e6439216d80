--------------------------- MODULE AdmissionProofs ----------------------------
(***************************************************************************)
(* The safety properties of a reference adapter, for any number of clones, *)
(* any configurations and any bounds of the resource; and those of         *)
(* Admission, for any number of controllers and loops over one pool and    *)
(* any requests.                                                           *)
(*                                                                         *)
(* HoldersFit is almost inductive: every resize is validated under the     *)
(* lock.  That a rollback is always admitted is not, because it depends on *)
(* what the prepared slot remembers: IInv adds that the slot is held by    *)
(* exactly one transaction, that its `previous` is the agreed size, and    *)
(* which of its two sizes the resource has at each step.                   *)
(*                                                                         *)
(* A report is made of what the call remembers and of the width it reads   *)
(* after its cycle, when any other clone may have resized.  AInv adds to   *)
(* IInv what makes such a report true: the running                         *)
(* call is one that may be admitted and its cycle is about its width; what *)
(* it has written is told by where its cycle is; and once it has           *)
(* committed, the width is its own until somebody else sets another.       *)
(***************************************************************************)
EXTENDS Admission, TLAPS

Planned(c) == pc[c] \in {"validate", "prepare"} \/ InFlight(c)
Authorized(c) == pc[c] = "prepare" \/ InFlight(c)

(* Which controllers get how far.                                          *)
ControlInv == \A c \in Controller :
    /\ Planned(c) =>
          target[c] \in Candidate /\ config[c].mode \notin {"ObserveOnly", "PlanOnly"}
    /\ Authorized(c) => ~DryRun(c)

(* Who holds the slot.                                                     *)
SlotInv ==
    /\ prepared # None => \E c \in Controller : InFlight(c)
    /\ \A c, d \in Controller : InFlight(c) /\ InFlight(d) => c = d
    /\ \A c \in Controller : InFlight(c) => Bound(c)

Lowest == IF kind = "ram" THEN MinSize ELSE 1

(* The size of the resource, outside a transaction and in it.              *)
SizeInv ==
    /\ held <= size /\ size \in Lowest .. MaxSize
    /\ agreed = IF prepared = None THEN size ELSE prepared.previous
    /\ \A c \in Controller :
          /\ pc[c] \in {"actuate", "rollback"} => size = prepared.previous
          /\ pc[c] \in {"verify", "commit"} => size = target[c]

IInv == TypeOK /\ ControlInv /\ SlotInv /\ SizeInv

-----------------------------------------------------------------------------
(* Every other controller stays where it is.                               *)
LEMMA OthersStay ==
    ASSUME ControlTypeOK, NEW c \in Controller, Moves(c)
    PROVE  /\ \A d \in Controller \ {c} :
                 /\ pc'[d] = pc[d] /\ target'[d] = target[d]
                 /\ InFlight(d)' <=> InFlight(d)
                 /\ Planned(d)' <=> Planned(d)
                 /\ Authorized(d)' <=> Authorized(d)
           /\ \A d \in Controller : DryRun(d)' <=> DryRun(d)
BY DEF Moves, ControlTypeOK, InFlight, Planned, Authorized, DryRun

(* A step of one controller keeps ControlInv if it does for that one.      *)
LEMMA ControlStep ==
    ASSUME ControlTypeOK, ControlInv, NEW c \in Controller, Moves(c),
           Planned(c)' => /\ target'[c] \in Candidate
                          /\ config[c].mode \notin {"ObserveOnly", "PlanOnly"},
           Authorized(c)' => ~DryRun(c)
    PROVE  ControlInv'
<1>1. UNCHANGED config BY DEF Moves
<1>2. SUFFICES ASSUME NEW d \in Controller
               PROVE  /\ Planned(d)' => /\ target'[d] \in Candidate
                                        /\ config'[d].mode \notin {"ObserveOnly", "PlanOnly"}
                      /\ Authorized(d)' => ~DryRun(d)'
      BY DEF ControlInv
<1>3. CASE d = c BY <1>1, <1>3, OthersStay
<1>4. CASE d # c BY <1>1, <1>4, OthersStay DEF ControlInv
<1> QED BY <1>3, <1>4

(* A step outside a transaction, which leaves the adapter alone.           *)
LEMMA QuietStep ==
    ASSUME IInv, NEW c \in Controller, Moves(c), UNCHANGED adapterVars,
           ~InFlight(c), ~InFlight(c)',
           Planned(c)' => /\ target'[c] \in Candidate
                          /\ config[c].mode \notin {"ObserveOnly", "PlanOnly"},
           Authorized(c)' => ~DryRun(c)
    PROVE  IInv'
<1>1. ControlTypeOK /\ ControlInv BY DEF IInv, TypeOK
<1>2. TypeOK' BY DEF IInv, TypeOK, adapterVars, Moves
<1>3. ControlInv' BY <1>1, ControlStep
<1>4. \A d \in Controller :
         /\ InFlight(d)' <=> InFlight(d)
         /\ InFlight(d) => pc'[d] = pc[d] /\ target'[d] = target[d]
      BY <1>1, OthersStay
<1>5. SlotInv' BY <1>4 DEF IInv, SlotInv, Bound, adapterVars
<1>6. SizeInv'
  <2>1. UNCHANGED <<kind, size, held, prepared, agreed>> BY DEF adapterVars
  <2>2. \A d \in Controller : InFlight(d)' => pc'[d] = pc[d] /\ target'[d] = target[d]
        BY <1>4
  <2> QED BY <2>1, <2>2 DEF IInv, SizeInv, Lowest, InFlight
<1> QED BY <1>2, <1>3, <1>5, <1>6 DEF IInv

(* A step inside a transaction, which keeps the slot.                      *)
LEMMA InsideStep ==
    ASSUME IInv, NEW c \in Controller, Moves(c), InFlight(c), InFlight(c)',
           target' = target, UNCHANGED <<kind, held, prepared, agreed>>,
           size' \in Lowest .. MaxSize, held <= size', size' \in Nat,
           pc'[c] \in {"actuate", "rollback"} => size' = prepared.previous,
           pc'[c] \in {"verify", "commit"} => size' = target[c]
    PROVE  IInv'
<1>1. ControlTypeOK /\ ControlInv BY DEF IInv, TypeOK
<1>2. TypeOK' BY DEF IInv, TypeOK, Moves
<1>3. /\ Planned(c)' => /\ target'[c] \in Candidate
                        /\ config[c].mode \notin {"ObserveOnly", "PlanOnly"}
      /\ Authorized(c)' => ~DryRun(c)
      BY <1>1 DEF ControlInv, Planned, Authorized
<1>4. ControlInv' BY <1>1, <1>3, ControlStep
<1>5. \A d \in Controller : InFlight(d)' <=> InFlight(d) BY <1>1, OthersStay
<1>6. SlotInv' BY <1>5 DEF IInv, SlotInv, Bound
<1>7. prepared # None /\ (\A d \in Controller : InFlight(d) => d = c)
      BY DEF IInv, SlotInv, Bound
<1>8. SizeInv'
  <2>1. held' <= size' /\ size' \in Lowest' .. MaxSize BY DEF Lowest
  <2>2. agreed' = IF prepared' = None THEN size' ELSE prepared'.previous
        BY <1>7 DEF IInv, SizeInv
  <2>3. ASSUME NEW d \in Controller
        PROVE  /\ pc'[d] \in {"actuate", "rollback"} => size' = prepared'.previous
               /\ pc'[d] \in {"verify", "commit"} => size' = target'[d]
    <3>1. CASE d = c BY <3>1
    <3>2. CASE d # c
      <4>1. ~InFlight(d)' BY <1>5, <1>7, <3>2
      <4> QED BY <4>1 DEF InFlight
    <3> QED BY <3>1, <3>2
  <2> QED BY <2>1, <2>2, <2>3 DEF SizeInv
<1> QED BY <1>2, <1>4, <1>6, <1>8 DEF IInv

(* The end of a transaction, which frees the slot.                         *)
LEMMA EndStep ==
    ASSUME IInv, NEW c \in Controller, Moves(c), InFlight(c), ~InFlight(c)',
           ~Planned(c)', ~Authorized(c)',
           UNCHANGED <<kind, held>>, prepared' = None, agreed' = size',
           size' \in Lowest .. MaxSize, held <= size', size' \in Nat
    PROVE  IInv'
<1>1. ControlTypeOK /\ ControlInv BY DEF IInv, TypeOK
<1>2. TypeOK' BY DEF IInv, TypeOK, Moves
<1>3. ControlInv' BY <1>1, ControlStep
<1>4. \A d \in Controller : ~InFlight(d)'
  <2>1. SUFFICES ASSUME NEW d \in Controller PROVE ~InFlight(d)'
        OBVIOUS
  <2>2. CASE d = c BY <2>2
  <2>3. CASE d # c
    <3>1. InFlight(d)' <=> InFlight(d) BY <1>1, <2>3, OthersStay
    <3>2. ~InFlight(d) BY <2>3 DEF IInv, SlotInv
    <3> QED BY <3>1, <3>2
  <2> QED BY <2>2, <2>3
<1>5. SlotInv' BY <1>4 DEF SlotInv
<1>6. SizeInv'
  <2>1. \A d \in Controller : pc'[d] \notin {"actuate", "rollback", "verify", "commit"}
        BY <1>4 DEF InFlight
  <2> QED BY <2>1 DEF SizeInv, Lowest
<1> QED BY <1>2, <1>3, <1>5, <1>6 DEF IInv

-----------------------------------------------------------------------------
(* The adapter's arithmetic.                                               *)

(* What validate_resize admits fits the bounds and the holders.            *)
LEMMA AdmitsFits ==
    ASSUME SizeAssumption, TypeOK, NEW t \in Nat, Admits(t)
    PROVE  t \in Lowest .. MaxSize /\ held <= t
BY DEF SizeAssumption, TypeOK, Admits, RamAdmits, PermitsAdmit, Lowest

(* The present size is always admitted.                                    *)
LEMMA SizeAdmitted ==
    ASSUME SizeAssumption, IInv
    PROVE  Admits(size)
BY DEF SizeAssumption, IInv, TypeOK, SizeInv, Admits, RamAdmits, PermitsAdmit, Lowest

(* Once a rollback is due, the previous size is the present one: restoring *)
(* it is admitted.                                                         *)
LEMMA RollbackIsAdmitted ==
    ASSUME SizeAssumption, IInv
    PROVE  RollbackAdmitted
<1>1. SUFFICES ASSUME NEW c \in Controller, pc[c] = "rollback" PROVE Restores(c)
      BY DEF RollbackAdmitted
<1>2. Bound(c) BY <1>1 DEF IInv, SlotInv, InFlight
<1>3. size = prepared.previous BY <1>1 DEF IInv, SizeInv
<1> QED BY <1>2, <1>3, SizeAdmitted DEF Restores

-----------------------------------------------------------------------------
(* The invariant holds initially, and every step keeps it.                 *)

(* A fresh adapter under loops that have not started satisfies it.         *)
LEMMA InitIInv ==
    ASSUME ConfigAssumption, SizeAssumption, Init
    PROVE  IInv
<1>1. ControlTypeOK
      BY DEF Init, ControlInit, ControlTypeOK, Step, CycleResult, StopReason
<1>2. TypeOK BY <1>1 DEF Init, TypeOK, SizeAssumption
<1>3. \A c \in Controller : pc[c] = "start" BY DEF Init, ControlInit
<1>4. ControlInv BY <1>3 DEF ControlInv, Planned, Authorized, InFlight
<1>5. SlotInv BY <1>3 DEF SlotInv, InFlight, Init
<1>6. SizeInv BY <1>3 DEF SizeInv, Init, Lowest, SizeAssumption
<1> QED BY <1>2, <1>4, <1>5, <1>6 DEF IInv

(* The steps of the loop move its controller outside a transaction.        *)
LEMMA LoopStepInv ==
    ASSUME IInv, NEW c \in Controller, LoopStep(c), UNCHANGED adapterVars
    PROVE  IInv'
<1>1. ControlTypeOK BY DEF IInv, TypeOK
<1>2. {"observed", "planned", "noCandidate"} \subseteq CycleResult BY DEF CycleResult
<1>3. CASE Start(c) \/ BeginCycle(c) \/ BetweenCycles(c)
  <2>1. /\ Moves(c) /\ pc[c] \in {"start", "top", "between"}
        /\ pc'[c] \in {"stopped", "top", "observe"}
        BY <1>1, <1>3, StartMoves, BeginMoves, BetweenMoves
  <2> QED BY <2>1, QuietStep DEF InFlight, Planned, Authorized
<1>4. CASE ObserveAndPlan(c)
  <2>1. ~InFlight(c) BY <1>4 DEF ObserveAndPlan, InFlight
  <2>2. CASE \E how \in {"observed", "planned", "noCandidate"} : CompleteCycle(c, how)
    <3>1. Moves(c) /\ pc'[c] = "between" BY <1>1, <1>2, <2>2, CompleteMoves
    <3> QED BY <2>1, <3>1, QuietStep DEF InFlight, Planned, Authorized
  <2>3. ASSUME NEW t \in Candidate,
               config[c].mode \notin {"ObserveOnly", "PlanOnly"},
               pc' = [pc EXCEPT ![c] = "validate"],
               target' = [target EXCEPT ![c] = t],
               UNCHANGED <<config, cycles, result, stop, cancelled>>
        PROVE  IInv'
    <3>1. Moves(c) /\ pc'[c] = "validate" /\ target'[c] = t
          BY <1>1, <2>3, PlanGoes DEF Goes
    <3> QED BY <2>1, <2>3, <3>1, QuietStep DEF InFlight, Planned, Authorized
  <2> QED BY <1>4, <2>2, <2>3 DEF ObserveAndPlan
<1> QED BY <1>3, <1>4 DEF LoopStep

(* Preparation: validation outside the transaction, then the slot.         *)
LEMMA ValidateInv ==
    ASSUME IInv, NEW c \in Controller, Validate(c)
    PROVE  IInv'
<1>1. ControlTypeOK BY DEF IInv, TypeOK
<1>2. ~InFlight(c) /\ UNCHANGED adapterVars BY DEF Validate, InFlight
<1>3. target[c] \in Candidate /\ config[c].mode \notin {"ObserveOnly", "PlanOnly"}
      BY DEF IInv, ControlInv, Planned, Validate
<1>4. /\ Moves(c) /\ pc'[c] \in {"stopped", "between", "prepare"}
      /\ pc'[c] = "prepare" => ~DryRun(c) /\ target' = target
      BY <1>1, ValidateMoves DEF Validate
<1> QED BY <1>2, <1>3, <1>4, QuietStep DEF InFlight, Planned, Authorized

(* prepare takes a free slot, and remembers the size of that moment.       *)
LEMMA PrepareInv ==
    ASSUME SizeAssumption, IInv, NEW c \in Controller, Prepare(c)
    PROVE  IInv'
<1>1. ControlTypeOK /\ ControlInv BY DEF IInv, TypeOK
<1>2. pc[c] = "prepare" /\ ~InFlight(c) /\ UNCHANGED <<kind, size, held, agreed>>
      BY DEF Prepare, InFlight
<1>3. CASE prepared = None /\ Admits(target[c])
  <2>1. prepared' = [previous |-> size, target |-> target[c]] /\ Goto(c, "actuate")
        BY <1>3 DEF Prepare, AfterPrepare
  <2>2. Moves(c) /\ pc'[c] = "actuate" /\ target' = target
        BY <1>1, <2>1, GotoMoves DEF Step
  <2>3. target[c] \in Candidate /\ ~DryRun(c)
        /\ config[c].mode \notin {"ObserveOnly", "PlanOnly"}
        BY <1>1, <1>2 DEF ControlInv, Planned, Authorized
  <2>4. ControlInv' BY <1>1, <2>2, <2>3, ControlStep
  <2>5. prepared' \in Prepared /\ prepared' # None
        /\ prepared'.previous = size /\ prepared'.target = target[c]
    <3>1. target[c] \in Nat /\ size \in Nat
          BY <2>3 DEF SizeAssumption, IInv, TypeOK
    <3>2. prepared' \in Prepared BY <2>1, <3>1 DEF Prepared
    <3> QED BY <2>1, <3>2 DEF SizeAssumption, Prepared
  <2>6. TypeOK' BY <1>2, <2>2, <2>5 DEF IInv, TypeOK, Moves
  <2>7. \A d \in Controller : InFlight(d)' <=> d = c
    <3>1. \A d \in Controller : ~InFlight(d) BY <1>3 DEF IInv, SlotInv, Bound
    <3> QED BY <1>1, <2>2, <3>1, OthersStay DEF InFlight
  <2>8. SlotInv' BY <2>2, <2>5, <2>7 DEF SlotInv, Bound
  <2>9. SizeInv'
    <3>1. \A d \in Controller :
             pc'[d] \in {"actuate", "rollback", "verify", "commit"} => d = c
          BY <2>7 DEF InFlight
    <3> QED BY <1>2, <1>3, <2>2, <2>5, <3>1 DEF IInv, SizeInv, Lowest
  <2> QED BY <2>4, <2>6, <2>8, <2>9 DEF IInv
<1>4. CASE ~(prepared = None /\ Admits(target[c]))
  <2>1. UNCHANGED adapterVars /\ CycleError(c)
        BY <1>2, <1>4 DEF Prepare, AfterPrepare, adapterVars
  <2>2. Moves(c) /\ pc'[c] = "stopped" BY <1>1, <2>1, ErrorMoves
  <2> QED BY <1>2, <2>1, <2>2, QuietStep DEF InFlight, Planned, Authorized
<1> QED BY <1>3, <1>4

-----------------------------------------------------------------------------
(* The transaction.                                                        *)

(* actuate resizes to an admitted target, or leaves the previous size.     *)
LEMMA ActuateInv ==
    ASSUME SizeAssumption, IInv, NEW c \in Controller, Actuate(c)
    PROVE  IInv'
<1>1. ControlTypeOK BY DEF IInv, TypeOK
<1>2. /\ InFlight(c) /\ UNCHANGED <<kind, held, prepared, agreed>>
      /\ size = prepared.previous
      BY DEF Actuate, InFlight, IInv, SizeInv
<1>3. CASE Bound(c) /\ Admits(target[c])
  <2>1. size' = target[c] /\ Goto(c, "verify") BY <1>3 DEF Actuate, AfterActuate
  <2>2. Moves(c) /\ pc'[c] = "verify" /\ target' = target
        BY <1>1, <2>1, GotoMoves DEF Step
  <2>3. target[c] \in Nat
        BY <1>2 DEF IInv, ControlInv, Planned, SizeAssumption
  <2>4. size' \in Lowest .. MaxSize /\ held <= size'
        BY <1>3, <2>1, <2>3, AdmitsFits DEF IInv
  <2> QED BY <1>2, <2>1, <2>2, <2>3, <2>4, InsideStep DEF InFlight
<1>4. CASE ~(Bound(c) /\ Admits(target[c]))
  <2>1. UNCHANGED size /\ Goto(c, "rollback") BY <1>4 DEF Actuate, AfterActuate
  <2>2. Moves(c) /\ pc'[c] = "rollback" /\ target' = target
        BY <1>1, <2>1, GotoMoves DEF Step
  <2>3. size' \in Lowest .. MaxSize /\ held <= size' /\ size' \in Nat
        BY <2>1 DEF IInv, TypeOK, SizeInv
  <2> QED BY <1>2, <2>1, <2>2, <2>3, InsideStep DEF InFlight
<1> QED BY <1>3, <1>4

(* A verification that runs, runs on its own target.                       *)
LEMMA VerifyInv ==
    ASSUME IInv, NEW c \in Controller, Verify(c)
    PROVE  IInv'
<1>1. ControlTypeOK BY DEF IInv, TypeOK
<1>2. InFlight(c) /\ UNCHANGED <<kind, size, held, prepared, agreed>>
      BY DEF Verify, InFlight, adapterVars
<1>3. Bound(c) /\ size = target[c] BY DEF Verify, InFlight, IInv, SlotInv, SizeInv
<1>4. Goto(c, "commit") BY <1>3 DEF Verify, AfterVerify
<1>5. Moves(c) /\ pc'[c] = "commit" /\ target' = target
      BY <1>1, <1>4, GotoMoves DEF Step
<1>6. size' \in Lowest .. MaxSize /\ held <= size' /\ size' \in Nat
      BY <1>2 DEF IInv, TypeOK, SizeInv
<1> QED BY <1>2, <1>3, <1>5, <1>6, InsideStep DEF InFlight

(* So does a commit, which therefore succeeds.                             *)
LEMMA CommitInv ==
    ASSUME IInv, NEW c \in Controller, Commit(c)
    PROVE  IInv'
<1>1. ControlTypeOK BY DEF IInv, TypeOK
<1>2. InFlight(c) /\ UNCHANGED <<kind, size, held>> BY DEF Commit, InFlight
<1>3. Bound(c) /\ size = target[c] BY DEF Commit, InFlight, IInv, SlotInv, SizeInv
<1>4. prepared' = None /\ agreed' = size /\ CompleteCycle(c, "committed")
      BY <1>3 DEF Commit, AfterCommit
<1>5. Moves(c) /\ pc'[c] = "between"
      BY <1>1, <1>4, CompleteMoves DEF CycleResult
<1>6. size' \in Lowest .. MaxSize /\ held <= size' /\ size' \in Nat
      BY <1>2 DEF IInv, TypeOK, SizeInv
<1> QED BY <1>2, <1>4, <1>5, <1>6, EndStep DEF InFlight, Planned, Authorized

(* rollback restores the size it finds, and frees the slot.                *)
LEMMA RollbackInv ==
    ASSUME SizeAssumption, IInv, NEW c \in Controller, Rollback(c)
    PROVE  IInv'
<1>1. ControlTypeOK BY DEF IInv, TypeOK
<1>2. InFlight(c) /\ pc[c] = "rollback" /\ UNCHANGED <<kind, held, agreed>>
      BY DEF Rollback, InFlight
<1>3. Restores(c) BY <1>2, RollbackIsAdmitted DEF RollbackAdmitted
<1>4. size = prepared.previous /\ prepared # None
      BY <1>2, <1>3 DEF IInv, SizeInv, Restores, Bound
<1>5. prepared' = None /\ size' = size /\ CompleteCycle(c, "rolledBack")
      BY <1>3, <1>4 DEF Rollback, AfterRollback
<1>6. Moves(c) /\ pc'[c] = "between"
      BY <1>1, <1>5, CompleteMoves DEF CycleResult
<1>7. agreed' = size' BY <1>2, <1>4, <1>5 DEF IInv, SizeInv
<1>8. size' \in Lowest .. MaxSize /\ held <= size' /\ size' \in Nat
      BY <1>5 DEF IInv, TypeOK, SizeInv
<1> QED BY <1>2, <1>5, <1>6, <1>7, <1>8, EndStep DEF InFlight, Planned, Authorized

(* The application moves only `held`, and only within the size.            *)
LEMMA HoldersInv ==
    ASSUME SizeAssumption, IInv, Acquire \/ Release
    PROVE  IInv'
<1>1. UNCHANGED <<controlVars, kind, size, prepared, agreed>> BY DEF Acquire, Release
<1>2. held' \in Nat /\ held' <= size
      BY DEF Acquire, Release, IInv, TypeOK, SizeInv, SizeAssumption
<1>3. TypeOK' BY <1>1, <1>2 DEF IInv, TypeOK, ControlTypeOK, controlVars
<1>4. ControlInv'
      BY <1>1 DEF IInv, ControlInv, Planned, Authorized, InFlight, DryRun, controlVars
<1>5. SlotInv' BY <1>1 DEF IInv, SlotInv, InFlight, Bound, controlVars
<1>6. SizeInv' BY <1>1, <1>2 DEF IInv, SizeInv, Lowest, controlVars
<1> QED BY <1>3, <1>4, <1>5, <1>6 DEF IInv

(* A step that touches no more than a token.                               *)
LEMMA TokenInv ==
    ASSUME IInv, UNCHANGED <<config, pc, target, cycles, result, stop, adapterVars>>,
           cancelled' \in [Controller -> BOOLEAN]
    PROVE  IInv'
<1>1. TypeOK' BY DEF IInv, TypeOK, ControlTypeOK, adapterVars
<1>2. ControlInv' BY DEF IInv, ControlInv, Planned, Authorized, InFlight, DryRun
<1>3. SlotInv' BY DEF IInv, SlotInv, InFlight, Bound, adapterVars
<1>4. SizeInv' BY DEF IInv, SizeInv, Lowest, adapterVars
<1> QED BY <1>1, <1>2, <1>3, <1>4 DEF IInv

(* Every step of the loops, the adapter and its application.               *)
LEMMA NextIInv ==
    ASSUME SizeAssumption, IInv, [Next]_vars
    PROVE  IInv'
<1>1. CASE UNCHANGED vars
  <2>1. cancelled' \in [Controller -> BOOLEAN]
        BY <1>1 DEF vars, controlVars, IInv, TypeOK, ControlTypeOK
  <2> QED BY <1>1, <2>1, TokenInv DEF vars, controlVars
<1>2. CASE Acquire \/ Release BY <1>2, HoldersInv
<1>3. ASSUME NEW c \in Controller, Cancel(c), UNCHANGED adapterVars PROVE IInv'
  <2>1. cancelled' \in [Controller -> BOOLEAN]
        BY <1>3 DEF Cancel, IInv, TypeOK, ControlTypeOK
  <2> QED BY <1>3, <2>1, TokenInv DEF Cancel
<1>4. ASSUME NEW c \in Controller, LoopStep(c), UNCHANGED adapterVars PROVE IInv'
      BY <1>4, LoopStepInv
<1>5. ASSUME NEW c \in Controller, AdapterStep(c) PROVE IInv'
      BY <1>5, ValidateInv, PrepareInv, ActuateInv, VerifyInv, CommitInv, RollbackInv
      DEF AdapterStep
<1> QED BY <1>1, <1>2, <1>3, <1>4, <1>5 DEF Next, Environment, ControllerStep

-----------------------------------------------------------------------------
(* The inductive invariant holds of every behaviour.                       *)
THEOREM Invariance == Spec => []IInv
<1>1. Init => IInv BY ConfigAssumption, SizeAssumption, InitIInv
<1>2. IInv /\ [Next]_vars => IInv' BY SizeAssumption, NextIInv
<1> QED BY <1>1, <1>2, PTL DEF Spec

(* Every variable keeps its type; the use of a resource never goes below   *)
(* zero.                                                                   *)
THEOREM TypeCorrect == Spec => []TypeOK
<1>1. IInv => TypeOK BY DEF IInv
<1> QED BY <1>1, Invariance, PTL

(* No interleaving of resizes with the application strands a holder.       *)
THEOREM NoHolderIsStranded == Spec => []HoldersFit
<1>1. IInv => HoldersFit
  <2>1. SUFFICES ASSUME IInv PROVE HoldersFit OBVIOUS
  <2>2. size \in Lowest .. MaxSize /\ held <= size BY <2>1 DEF IInv, SizeInv
  <2>3. Lowest \in Nat BY SizeAssumption DEF Lowest
  <2> QED BY <2>2, <2>3, SizeAssumption DEF HoldersFit
<1> QED BY <1>1, Invariance, PTL

(* The prepared slot is a lock held exactly while a transaction runs.      *)
THEOREM SlotIsALock == Spec => []SlotIsOwned
<1>1. IInv => SlotIsOwned BY DEF IInv, SlotInv, SlotIsOwned
<1> QED BY <1>1, Invariance, PTL

(* A rollback that the runtime has to make is never refused, so no cycle   *)
(* of these adapters ends with "rollback failed".                          *)
THEOREM RollbackNeverRefused == Spec => []RollbackAdmitted
<1>1. IInv => RollbackAdmitted BY SizeAssumption, RollbackIsAdmitted
<1> QED BY <1>1, Invariance, PTL

(* Outside a transaction the size is that of the last reported commit.     *)
THEOREM SizeIsReported == Spec => []ReportedSize
<1>1. IInv => ReportedSize BY DEF IInv, SizeInv, ReportedSize
<1> QED BY <1>1, Invariance, PTL

(* Only a transaction of a controller that may act resizes the resource.   *)
THEOREM OnlyAuthorizedResize == Spec => OnlyOwnerResizes
<1> DEFINE Resizes(c) == /\ InFlight(c) /\ pc'[c] # pc[c] /\ ~DryRun(c)
                         /\ config[c].mode \notin {"ObserveOnly", "PlanOnly"}
<1>1. ASSUME IInv, [Next]_vars, size' # size
      PROVE  \E c \in Controller : Resizes(c)
  <2>1. PICK c \in Controller : Actuate(c) \/ Rollback(c)
        BY <1>1 DEF Next, Environment, ControllerStep, AdapterStep, LoopStep, vars,
           adapterVars, Acquire, Release, Validate, Prepare, Verify, Commit
  <2>2. InFlight(c) BY <2>1 DEF Actuate, Rollback, InFlight
  <2>3. ~DryRun(c) /\ config[c].mode \notin {"ObserveOnly", "PlanOnly"}
        BY <1>1, <2>2 DEF IInv, ControlInv, Planned, Authorized
  <2>4. ControlTypeOK BY <1>1 DEF IInv, TypeOK
  <2>5. pc'[c] # pc[c]
    <3>1. CASE Actuate(c)
      <4>1. pc[c] = "actuate" /\ (pc'[c] = "verify" \/ pc'[c] = "rollback")
            BY <3>1, <2>4 DEF Actuate, AfterActuate, Goto, ControlTypeOK
      <4> QED BY <4>1
    <3>2. CASE Rollback(c)
      <4>1. pc[c] = "rollback" /\ (pc'[c] = "between" \/ pc'[c] = "stopped")
            BY <3>2, <2>4 DEF Rollback, AfterRollback, CompleteCycle, CycleError,
               Stop, ControlTypeOK
      <4> QED BY <4>1
    <3> QED BY <2>1, <3>1, <3>2
  <2> QED BY <2>2, <2>3, <2>5
<1>2. IInv /\ [Next]_vars => [size' # size => \E c \in Controller : Resizes(c)]_vars
      BY <1>1
<1> QED BY <1>2, Invariance, PTL DEF Spec, OnlyOwnerResizes

-----------------------------------------------------------------------------
(* Admission.                                                              *)

Asked == [request : WellFormed \cup [limit : Nat], target : Nat, previous : Nat]

Types ==
    /\ screen \in [Admitting -> Screen] /\ calls \in [Admitting -> Nat]
    /\ generation \in [Admitting -> Nat]
    /\ call \in [Admitting -> Asked \cup {None}]
    /\ report = [a \in Admitting |-> report[a]]
    /\ {found, left} \subseteq [Admitting -> Nat \cup {None}]
    /\ setter \in Admitting \cup {None}

(* A width that may be admitted for a request.                             *)
Fits(a, r, width) ==
    /\ width \in 1 .. r.limit /\ r.limit <= MaxSize
    /\ screen[a] # "headroom" =>
          /\ r.plan /\ r.environment /\ r.age <= r.maxAge
          /\ r.capacity = "available" /\ width <= r.cpu
          /\ width * r.perTrial + r.reserve <= r.bytes

(* The running call, and where its cycle is.                               *)
CallOf(a) ==
    /\ call[a] = None => pc[a] = "start"
    /\ call[a] # None => Fits(a, call[a].request, call[a].target)
    /\ call[a] # None /\ Planned(a) => target[a] = call[a].target
    /\ pc[a] = "observe" => screen[a] = "headroom"

(* What it has written.                                                    *)
WroteOf(a) == call[a] # None =>
    /\ pc[a] \notin {"verify", "commit", "between"} => found[a] = None /\ left[a] = None
    /\ pc[a] \in {"verify", "commit"} => left[a] \in {None, target[a]}
    /\ pc[a] = "between" =>
          IF result[a] = "committed"
          THEN /\ left[a] \in {None, call[a].target}
               /\ size = call[a].target \/ setter # a
          ELSE found[a] = None /\ left[a] = None
    /\ pc[a] = "stopped" => result[a] # "committed"

(* What the last call reported.                                            *)
Justified(a, r, reason) ==
    screen[a] = "ram" /\ reason \in {"boolean-ram-capacity-false",
                                     "boolean-ram-capacity-unknown"} =>
        Verdict(r) # "act" \/ r.bytes > MaxExact \/ Required(r) > MaxExact

ToldOf(a) == report[a] # None =>
    LET p == report[a]
    IN  /\ p.committed \in {"yes", "error"} => Fits(a, p.request, p.target)
        /\ Justified(a, p.request, p.reason)
        /\ p.committed = "yes" => p.final = p.target
        /\ call[a] = None =>
              /\ p.committed \in {"no", "unknown"} => left[a] = found[a]
              /\ p.committed \in {"yes", "error"} => left[a] \in {None, p.target}
              /\ p.committed = "error" => setter # a

AInv == \A a \in Admitting : CallOf(a) /\ WroteOf(a) /\ ToldOf(a)
Inv == IInv /\ Types /\ AInv

-----------------------------------------------------------------------------
(* The arithmetic of a request.                                            *)

(* The least of three numbers.                                             *)
LEMMA LeastOfThree ==
    ASSUME NEW i \in Nat, NEW j \in Nat, NEW k \in Nat
    PROVE  LET n == Least({i, j, k})
           IN  n \in {i, j, k} /\ n <= i /\ n <= j /\ n <= k
<1>1. \E n \in {i, j, k} : \A m \in {i, j, k} : n <= m
  <2>1. CASE i <= j /\ i <= k BY <2>1
  <2>2. CASE j <= i /\ j <= k BY <2>2
  <2>3. CASE k <= i /\ k <= j BY <2>3
  <2> QED BY <2>1, <2>2, <2>3
<1> QED BY <1>1 DEF Least

(* As many parts as fit.                                                   *)
LEMMA PartsFit ==
    ASSUME NEW d \in Nat, NEW p \in Nat \ {0}, NEW w \in Nat, w <= d \div p
    PROVE  w * p <= d
<1>1. d = p * (d \div p) + (d % p) /\ d % p >= 0 /\ d \div p \in Nat OBVIOUS
<1> DEFINE q == d \div p
<1>2. q - w \in Nat /\ q \in Nat BY <1>1
<1>3. p * q <= d BY <1>1
<1> HIDE DEF q
<1>4. p * q = p * w + p * (q - w) BY <1>2
<1>5. p * (q - w) >= 0 BY <1>2
<1>6. p * w \in Nat /\ p * (q - w) \in Nat /\ p * q \in Nat BY <1>2
<1>7. p * w <= p * q BY <1>4, <1>5, <1>6
<1> QED BY <1>3, <1>6, <1>7

LEMMA NoPartFits ==
    ASSUME NEW d \in Nat, NEW p \in Nat \ {0}, d < p
    PROVE  d \div p = 0
OBVIOUS

(* A request that is acted on fits what was observed.                      *)
LEMMA ActFits ==
    ASSUME NEW a, NEW r \in WellFormed, r.limit <= MaxSize, Verdict(r) = "act"
    PROVE  Fits(a, r, TargetOf(r)) /\ TargetOf(r) \in Nat
<1>1. /\ r.limit \in Nat /\ r.cpu \in Nat /\ r.bytes \in Nat /\ r.reserve \in Nat
      /\ r.perTrial \in Nat \ {0}
      BY DEF WellFormed
<1>2. /\ r.plan /\ r.environment /\ r.age <= r.maxAge /\ r.capacity = "available"
      /\ TargetOf(r) # 0
  <2>1. r.plan \in BOOLEAN /\ r.environment \in BOOLEAN /\ r.capacity \in Availability
        /\ r.age \in Nat /\ r.maxAge \in Nat
        BY DEF WellFormed
  <2> QED BY <2>1 DEF Verdict, Availability
<1>3. MemoryWidth(r) \in Nat BY <1>1 DEF MemoryWidth
<1> DEFINE w == TargetOf(r)
<1>4. w \in Nat /\ w <= r.limit /\ w <= r.cpu /\ w <= MemoryWidth(r) /\ w # 0
      BY <1>1, <1>2, <1>3, LeastOfThree DEF TargetOf
<1>5. w * r.perTrial + r.reserve <= r.bytes
  <2> HIDE DEF w
  <2>1. r.bytes > r.reserve BY <1>1, <1>4 DEF MemoryWidth
  <2>2. r.bytes - r.reserve \in Nat /\ w <= (r.bytes - r.reserve) \div r.perTrial
        BY <1>1, <1>4, <2>1 DEF MemoryWidth
  <2>3. w * r.perTrial <= r.bytes - r.reserve BY <1>1, <1>4, <2>2, PartsFit
  <2>4. w * r.perTrial \in Nat BY <1>1, <1>4
  <2> QED BY <1>1, <2>3, <2>4
<1> QED BY <1>1, <1>2, <1>4, <1>5 DEF Fits

(* A guard that does not let a request through has its reasons.            *)
LEMMA GuardIsRight ==
    ASSUME NEW r \in WellFormed, MaxExact \in Nat, RamTruth(r) # "T"
    PROVE  Verdict(r) # "act" \/ r.bytes > MaxExact \/ Required(r) > MaxExact
<1>1. /\ r.limit \in Nat /\ r.cpu \in Nat /\ r.bytes \in Nat /\ r.reserve \in Nat
      /\ r.perTrial \in Nat \ {0} /\ r.age \in Nat /\ r.maxAge \in Nat
      /\ r.capacity \in Availability
      BY DEF WellFormed
<1>2. CASE r.capacity # "available" \/ r.age > r.maxAge
      BY <1>1, <1>2 DEF Verdict, Availability
<1>3. CASE r.bytes < Required(r)
  <2>1. MemoryWidth(r) = 0
    <3>1. CASE r.bytes <= r.reserve BY <3>1 DEF MemoryWidth
    <3>2. CASE r.bytes > r.reserve
      <4>1. r.bytes - r.reserve \in Nat /\ r.bytes - r.reserve < r.perTrial
            BY <1>1, <1>3, <3>2 DEF Required
      <4> QED BY <1>1, <3>2, <4>1, NoPartFits DEF MemoryWidth
    <3> QED BY <1>1, <3>1, <3>2
  <2>2. TargetOf(r) \in Nat /\ TargetOf(r) <= 0
        BY <1>1, <2>1, LeastOfThree DEF TargetOf
  <2>3. TargetOf(r) = 0 BY <2>2
  <2> QED BY <2>3 DEF Verdict
<1>4. Required(r) \in Nat BY <1>1 DEF Required
<1> QED BY <1>1, <1>2, <1>3, <1>4 DEF RamTruth

-----------------------------------------------------------------------------
(* A cycle over the pool.                                                  *)

(* Where the steps of a cycle lead, and what they do to the width: only    *)
(* the actuation changes it, and then to the target.                       *)
Stepped(c) ==
    \/ /\ pc[c] = "validate" /\ UNCHANGED size
       /\ \/ pc'[c] = "prepare" /\ target' = target
          \/ pc'[c] = "between" /\ result'[c] # "committed"
          \/ pc'[c] = "stopped" /\ result'[c] # "committed"
    \/ /\ pc[c] = "prepare" /\ UNCHANGED size
       /\ \/ pc'[c] = "actuate" /\ target' = target
          \/ pc'[c] = "stopped" /\ result'[c] # "committed"
    \/ /\ pc[c] = "actuate" /\ target' = target
       /\ \/ pc'[c] = "verify" /\ size' = target[c]
          \/ pc'[c] = "rollback" /\ UNCHANGED size
    \/ /\ pc[c] = "verify" /\ UNCHANGED size /\ target' = target /\ pc'[c] = "commit"
    \/ /\ pc[c] = "commit" /\ UNCHANGED size /\ size = target[c]
       /\ pc'[c] = "between" /\ result'[c] = "committed"
    \/ /\ pc[c] = "rollback" /\ UNCHANGED size
       /\ pc'[c] = "between" /\ result'[c] # "committed"

(* A cycle that fails has not committed.                                   *)
LEMMA ErrorIsNoCommit ==
    ASSUME ControlTypeOK, NEW c \in Controller, CycleError(c)
    PROVE  Moves(c) /\ pc'[c] = "stopped" /\ result'[c] # "committed"
<1>1. result'[c] = "error" BY DEF CycleError, ControlTypeOK
<1> QED BY <1>1, ErrorMoves

LEMMA AdapterMoves ==
    ASSUME SizeAssumption, IInv, NEW c \in Controller, AdapterStep(c)
    PROVE  Moves(c) /\ Stepped(c) /\ IInv'
<1>1. ControlTypeOK BY DEF IInv, TypeOK
<1>2. IInv'
      BY ValidateInv, PrepareInv, ActuateInv, VerifyInv, CommitInv, RollbackInv
      DEF AdapterStep
<1>3. CASE Validate(c)
  <2>1. PICK answer : AfterValidate(c, answer) BY <1>3 DEF Validate
  <2>2. pc[c] = "validate" /\ UNCHANGED size BY <1>3 DEF Validate, adapterVars
  <2>3. CASE CycleError(c) BY <1>1, <1>2, <2>2, <2>3, ErrorIsNoCommit DEF Stepped
  <2>4. CASE CompleteCycle(c, "rejected") \/ CompleteCycle(c, "dryRun")
    <3>1. Moves(c) /\ pc'[c] = "between" /\ result'[c] \in {"rejected", "dryRun"}
          BY <1>1, <2>4, CompleteMoves DEF CycleResult, Completes
    <3> QED BY <1>2, <2>2, <3>1 DEF Stepped
  <2>5. CASE Goto(c, "prepare")
    <3>1. Moves(c) /\ pc'[c] = "prepare" /\ target' = target
          BY <1>1, <2>5, GotoMoves DEF Step
    <3> QED BY <1>2, <2>2, <3>1 DEF Stepped
  <2> QED BY <2>1, <2>3, <2>4, <2>5 DEF AfterValidate
<1>4. CASE Prepare(c)
  <2>1. pc[c] = "prepare" /\ UNCHANGED size BY <1>4 DEF Prepare
  <2>2. CASE CycleError(c) BY <1>1, <1>2, <2>1, <2>2, ErrorIsNoCommit DEF Stepped
  <2>3. CASE Goto(c, "actuate")
    <3>1. Moves(c) /\ pc'[c] = "actuate" /\ target' = target
          BY <1>1, <2>3, GotoMoves DEF Step
    <3> QED BY <1>2, <2>1, <3>1 DEF Stepped
  <2> QED BY <1>4, <2>2, <2>3 DEF Prepare, AfterPrepare
<1>5. CASE Actuate(c)
  <2>1. pc[c] = "actuate" BY <1>5 DEF Actuate
  <2>2. CASE size' = target[c] /\ Goto(c, "verify")
    <3>1. Moves(c) /\ pc'[c] = "verify" /\ target' = target
          BY <1>1, <2>2, GotoMoves DEF Step
    <3> QED BY <1>2, <2>1, <2>2, <3>1 DEF Stepped
  <2>3. CASE UNCHANGED size /\ Goto(c, "rollback")
    <3>1. Moves(c) /\ pc'[c] = "rollback" /\ target' = target
          BY <1>1, <2>3, GotoMoves DEF Step
    <3> QED BY <1>2, <2>1, <2>3, <3>1 DEF Stepped
  <2> QED BY <1>5, <2>2, <2>3 DEF Actuate, AfterActuate
<1>6. CASE Verify(c)
  <2>1. pc[c] = "verify" /\ UNCHANGED size BY <1>6 DEF Verify, adapterVars
  <2>2. Bound(c) /\ size = target[c] BY <2>1 DEF InFlight, IInv, SlotInv, SizeInv
  <2>3. Goto(c, "commit") BY <1>6, <2>2 DEF Verify, AfterVerify
  <2>4. Moves(c) /\ pc'[c] = "commit" /\ target' = target
        BY <1>1, <2>3, GotoMoves DEF Step
  <2> QED BY <1>2, <2>1, <2>4 DEF Stepped
<1>7. CASE Commit(c)
  <2>1. pc[c] = "commit" /\ UNCHANGED size BY <1>7 DEF Commit
  <2>2. Bound(c) /\ size = target[c] BY <2>1 DEF InFlight, IInv, SlotInv, SizeInv
  <2>3. CompleteCycle(c, "committed") BY <1>7, <2>2 DEF Commit, AfterCommit
  <2>4. Moves(c) /\ pc'[c] = "between" /\ result'[c] = "committed"
        BY <1>1, <2>3, CompleteMoves DEF CycleResult, Completes
  <2> QED BY <1>2, <2>1, <2>2, <2>4 DEF Stepped
<1>8. CASE Rollback(c)
  <2>1. pc[c] = "rollback" BY <1>8 DEF Rollback
  <2>2. Restores(c) BY <2>1, RollbackIsAdmitted DEF RollbackAdmitted
  <2>3. size' = size /\ CompleteCycle(c, "rolledBack")
        BY <1>8, <2>1, <2>2 DEF Rollback, AfterRollback, IInv, SizeInv
  <2>4. Moves(c) /\ pc'[c] = "between" /\ result'[c] = "rolledBack"
        BY <1>1, <2>3, CompleteMoves DEF CycleResult, Completes
  <2> QED BY <1>2, <2>1, <2>3, <2>4 DEF Stepped
<1> QED BY <1>3, <1>4, <1>5, <1>6, <1>7, <1>8 DEF AdapterStep

-----------------------------------------------------------------------------
(* The calls.                                                              *)

(* What the other callers know stays true: the width may change, but then  *)
(* somebody else has set it.                                               *)
LEMMA OthersKnow ==
    ASSUME Types, AInv, NEW c \in Controller, Moves(c), NEW a \in Admitting,
           a \in Controller, a # c, screen' = screen, call'[a] = call[a],
           report'[a] = report[a], found'[a] = found[a], left'[a] = left[a],
           (setter' = setter /\ UNCHANGED size) \/ setter' # a
    PROVE  CallOf(a)' /\ WroteOf(a)' /\ ToldOf(a)'
<1>1. pc'[a] = pc[a] /\ target'[a] = target[a] /\ result'[a] = result[a] BY DEF Moves
<1>2. CallOf(a) /\ WroteOf(a) /\ ToldOf(a) BY DEF AInv
<1>3. \A r, w : Fits(a, r, w)' <=> Fits(a, r, w) BY DEF Fits
<1>4. \A r, w : Justified(a, r, w)' <=> Justified(a, r, w) BY DEF Justified
<1>5. CallOf(a)' BY <1>1, <1>2, <1>3 DEF CallOf, Planned, InFlight
<1>6. WroteOf(a)' BY <1>1, <1>2 DEF WroteOf
<1>7. ToldOf(a)' BY <1>1, <1>2, <1>3, <1>4 DEF ToldOf
<1> QED BY <1>5, <1>6, <1>7

(* A step of a cycle, of a caller or of a loop.                            *)
LEMMA TransactInv ==
    ASSUME SizeAssumption, AdmissionAssumption, Inv, NEW c \in Controller, Transact(c)
    PROVE  Inv'
<1>1. IInv /\ Types /\ AInv /\ ControlTypeOK BY DEF Inv, IInv, TypeOK
<1>2. Moves(c) /\ Stepped(c) /\ IInv' BY <1>1, AdapterMoves DEF Transact
<1>3. UNCHANGED callVars BY DEF Transact
<1>4. size \in Nat /\ size' \in Nat BY <1>1, <1>2 DEF IInv, TypeOK
<1>5. CASE size' # size /\ c \in Admitting
  <2>1. /\ found' = [found EXCEPT ![c] = IF @ = None THEN size ELSE @]
        /\ left' = [left EXCEPT ![c] = size'] /\ setter' = c
        BY <1>5 DEF Transact
  <2>2. Types' BY <1>1, <1>3, <1>4, <1>5, <2>1 DEF Types, callVars
  <2>3. pc[c] = "actuate" /\ target' = target /\ pc'[c] = "verify" /\ size' = target[c]
        BY <1>2, <1>5 DEF Stepped
  <2>4. CallOf(c)' /\ WroteOf(c)' /\ ToldOf(c)'
    <3>1. CallOf(c) /\ WroteOf(c) /\ ToldOf(c) BY <1>1, <1>5 DEF AInv
    <3>2. call[c] # None BY <2>3, <3>1 DEF CallOf
    <3>3. \A r, w : (Fits(c, r, w)' <=> Fits(c, r, w))
                    /\ (Justified(c, r, w)' <=> Justified(c, r, w))
          BY <1>3 DEF Fits, Justified, callVars
    <3>4. CallOf(c)' BY <1>3, <2>3, <3>1, <3>3 DEF CallOf, callVars, Planned, InFlight
    <3>5. left'[c] = target'[c] BY <1>1, <1>5, <2>1, <2>3 DEF Types
    <3>6. WroteOf(c)' BY <2>3, <3>5 DEF WroteOf
    <3>7. ToldOf(c)' BY <1>3, <3>1, <3>2, <3>3 DEF ToldOf, callVars
    <3> QED BY <3>4, <3>6, <3>7
  <2>5. ASSUME NEW a \in Admitting, a # c PROVE CallOf(a)' /\ WroteOf(a)' /\ ToldOf(a)'
    <3>1. found'[a] = found[a] /\ left'[a] = left[a] /\ setter' # a
          BY <1>1, <1>5, <2>1, <2>5 DEF Types
    <3>2. a \in Controller BY DEF AdmissionAssumption
    <3> QED BY <1>1, <1>2, <1>3, <2>5, <3>1, <3>2, OthersKnow DEF callVars
  <2> QED BY <1>2, <2>2, <2>4, <2>5 DEF Inv, AInv
<1>6. CASE ~(size' # size /\ c \in Admitting)
  <2>1. UNCHANGED <<found, left>>
        /\ setter' = IF size' = size THEN setter ELSE None
        BY <1>6 DEF Transact
  <2>2. Types' BY <1>1, <1>3, <2>1 DEF Types, callVars
  <2>3. ASSUME NEW a \in Admitting, a # c PROVE CallOf(a)' /\ WroteOf(a)' /\ ToldOf(a)'
    <3>1. a \in Controller /\ a # None BY DEF AdmissionAssumption
    <3> QED BY <1>1, <1>2, <1>3, <2>1, <2>3, <3>1, OthersKnow DEF callVars
  <2>4. CASE c \notin Admitting BY <1>2, <2>2, <2>3, <2>4 DEF Inv, AInv
  <2>5. CASE c \in Admitting
    <3>1. CallOf(c) /\ WroteOf(c) /\ ToldOf(c) BY <1>1, <2>5 DEF AInv
    <3>2. call[c] # None /\ pc[c] # "observe" BY <1>2, <3>1 DEF CallOf, Stepped
    <3>3. \A r, w : (Fits(c, r, w)' <=> Fits(c, r, w))
                    /\ (Justified(c, r, w)' <=> Justified(c, r, w))
          BY <1>3 DEF Fits, Justified, callVars
    <3>4. UNCHANGED <<size, setter>> BY <1>6, <2>1, <2>5
    <3>5. CallOf(c)'
      <4>1. Planned(c) BY <1>2 DEF Stepped, Planned, InFlight
      <4>2. Planned(c)' => target' = target BY <1>2 DEF Stepped, Planned, InFlight
      <4>3. pc'[c] # "observe" /\ call'[c] = call[c]
            BY <1>2, <1>3 DEF Stepped, callVars
      <4> QED BY <3>1, <3>2, <3>3, <4>1, <4>2, <4>3 DEF CallOf
    <3>6. WroteOf(c)'
      <4>1. call'[c] = call[c] /\ found'[c] = found[c] /\ left'[c] = left[c]
            BY <1>3, <2>1 DEF callVars
      <4>2. CASE pc[c] \in {"validate", "prepare", "actuate", "rollback"}
        <5>1. found[c] = None /\ left[c] = None BY <3>1, <3>2, <4>2 DEF WroteOf
        <5> QED BY <1>2, <4>1, <4>2, <5>1 DEF WroteOf, Stepped
      <4>3. CASE pc[c] = "verify"
        <5>1. target' = target /\ pc'[c] = "commit" BY <1>2, <4>3 DEF Stepped
        <5> QED BY <3>1, <3>2, <4>1, <4>3, <5>1 DEF WroteOf
      <4>4. CASE pc[c] = "commit"
        <5>1. size = target[c] /\ pc'[c] = "between" /\ result'[c] = "committed"
              BY <1>2, <4>4 DEF Stepped
        <5>2. target[c] = call[c].target
              BY <3>1, <3>2, <4>4 DEF CallOf, Planned, InFlight
        <5> QED BY <3>1, <3>2, <3>4, <4>1, <4>4, <5>1, <5>2 DEF WroteOf
      <4> QED BY <1>2, <4>2, <4>3, <4>4 DEF Stepped
    <3>7. ToldOf(c)' BY <1>3, <3>1, <3>2, <3>3 DEF ToldOf, callVars
    <3> QED BY <1>2, <2>2, <2>3, <3>5, <3>6, <3>7 DEF Inv, AInv
  <2> QED BY <2>4, <2>5
<1> QED BY <1>5, <1>6

(* The callers go on knowing what they know when only a loop, a token or a *)
(* holder moves.                                                           *)
LEMMA AsideInv ==
    ASSUME AdmissionAssumption, Inv, IInv', NEW c \in Controller, c \notin Admitting,
           Moves(c), UNCHANGED <<size, callVars, ghosts>>
    PROVE  Inv'
<1>1. UNCHANGED <<screen, call, calls, generation, report, setter, found, left>>
      BY DEF callVars, ghosts
<1>2. Types' BY <1>1 DEF Inv, Types
<1>3. ASSUME NEW a \in Admitting PROVE CallOf(a)' /\ WroteOf(a)' /\ ToldOf(a)'
  <2>1. a \in Controller /\ a # c BY DEF AdmissionAssumption
  <2> QED BY <1>1, <2>1, OthersKnow DEF Inv
<1> QED BY <1>2, <1>3 DEF Inv, AInv

LEMMA StillInv ==
    ASSUME Inv, IInv', UNCHANGED <<pc, target, result, size, callVars, ghosts>>
    PROVE  Inv'
<1>1. UNCHANGED <<screen, call, calls, generation, report, setter, found, left>>
      BY DEF callVars, ghosts
<1>2. Types' BY <1>1 DEF Inv, Types
<1>3. ASSUME NEW a \in Admitting PROVE CallOf(a)' /\ WroteOf(a)' /\ ToldOf(a)'
  <2>1. CallOf(a) /\ WroteOf(a) /\ ToldOf(a) BY DEF Inv, AInv
  <2> QED BY <1>1, <2>1
      DEF CallOf, WroteOf, ToldOf, Fits, Justified, Planned, InFlight
<1> QED BY <1>2, <1>3 DEF Inv, AInv

(* A caller enters a cycle over the width it may admit.                    *)
LEMMA EnterMoves ==
    ASSUME AdmissionAssumption, Inv, NEW a \in Admitting, pc[a] \in {"start", "observe"},
           UNCHANGED adapterVars, NEW r \in WellFormed \cup [limit : Nat],
           NEW width \in 1 .. MaxSize, NEW before \in Nat, Enter(a, r, width, before)
    PROVE  /\ IInv' /\ Moves(a) /\ pc'[a] = "validate" /\ target'[a] = width
           /\ call' \in [Admitting -> Asked \cup {None}] /\ call'[a] # None
           /\ call'[a].request = r /\ call'[a].target = width
           /\ call'[a].previous = before
           /\ UNCHANGED report /\ \A b \in Admitting \ {a} : call'[b] = call[b]
<1>1. IInv /\ Types /\ AInv /\ ControlTypeOK BY DEF Inv, IInv, TypeOK
<1>2. a \in Controller /\ width \in Candidate BY DEF AdmissionAssumption
<1>3. Moves(a) /\ pc'[a] = "validate" /\ target'[a] = width
      BY <1>1, <1>2, PlanGoes DEF Enter, Goes
<1>4. config[a] \in Config[a] /\ config' = config BY <1>1, <1>2 DEF ControlTypeOK, Enter
<1>5. config[a].mode = "Apply" BY <1>4 DEF AdmissionAssumption
<1>6. IInv'
  <2>1. ~InFlight(a) /\ ~InFlight(a)' /\ ~Authorized(a)'
        BY <1>3 DEF InFlight, Authorized
  <2> QED BY <1>1, <1>2, <1>3, <1>5, <2>1, QuietStep
<1> DEFINE new == [request |-> r, target |-> width, previous |-> before]
<1>7. new \in Asked /\ new # None
  <2>1. new \in Asked /\ Asked \subseteq
           [request : WellFormed \cup [limit : Nat], target : Nat, previous : Nat]
        BY DEF Asked
  <2> QED BY <2>1 DEF AdmissionAssumption
<1>8. call \in [Admitting -> Asked \cup {None}] /\ call' = [call EXCEPT ![a] = new]
      BY <1>1 DEF Types, Enter
<1>9. call' \in [Admitting -> Asked \cup {None}] /\ call'[a] = new
      /\ \A b \in Admitting \ {a} : call'[b] = call[b]
      BY <1>7, <1>8
<1> QED BY <1>3, <1>6, <1>7, <1>9 DEF Enter

(* A report without a cycle leaves the pool and the loops as they are.     *)
LEMMA RefusedKeeps ==
    ASSUME Inv, NEW a \in Admitting, UNCHANGED <<controlVars, adapterVars>>
    PROVE  IInv'
<1>1. cancelled' \in [Controller -> BOOLEAN]
      BY DEF controlVars, Inv, IInv, TypeOK, ControlTypeOK
<1> QED BY <1>1, TokenInv DEF Inv, controlVars

(* A caller of the plain or of the ram screen.                             *)
LEMMA BeginAdmissionInv ==
    ASSUME SizeAssumption, AdmissionAssumption, Inv, NEW a \in Admitting,
           BeginAdmission(a)
    PROVE  Inv'
<1>1. IInv /\ Types /\ AInv /\ ControlTypeOK /\ a \in Controller
      BY DEF Inv, IInv, TypeOK, AdmissionAssumption
<1>2. /\ pc[a] = "start" /\ call[a] = None /\ screen[a] \in {"plain", "ram"}
      /\ calls' = [calls EXCEPT ![a] = @ + 1]
      /\ found' = [found EXCEPT ![a] = None] /\ left' = [left EXCEPT ![a] = None]
      /\ UNCHANGED <<adapterVars, screen, generation, setter>>
      BY DEF BeginAdmission, Idle, NextEpoch
<1>3. found'[a] = None /\ left'[a] = None
      /\ (\A b \in Admitting \ {a} : found'[b] = found[b] /\ left'[b] = left[b])
      /\ {found', left'} \subseteq [Admitting -> Nat \cup {None}]
      /\ calls' \in [Admitting -> Nat]
      BY <1>1, <1>2 DEF Types
<1>4. UNCHANGED size /\ size \in Nat BY <1>1, <1>2 DEF adapterVars, IInv, TypeOK
<1>5. \A q, w : (Fits(a, q, w)' <=> Fits(a, q, w))
                /\ (Justified(a, q, w)' <=> Justified(a, q, w))
      BY <1>2 DEF Fits, Justified
<1>6. CallOf(a) /\ ToldOf(a) BY <1>1 DEF AInv
<1>7. PICK r \in {q \in Request : q.limit <= MaxSize} :
         IF screen[a] = "plain" \/ ~r.plan \/ ~r.environment \/ RamTruth(r) = "T"
         THEN Admit(a, r)
         ELSE Refused(a, r, IF RamTruth(r) = "F" THEN "boolean-ram-capacity-false"
                                                 ELSE "boolean-ram-capacity-unknown")
      BY DEF BeginAdmission
<1>8. r \in WellFormed /\ r.limit <= MaxSize /\ MaxExact \in Nat
      BY DEF AdmissionAssumption
<1>9. CASE Verdict(r) = "act" /\ Enter(a, r, TargetOf(r), size)
  <2>1. Fits(a, r, TargetOf(r)) /\ TargetOf(r) \in Nat BY <1>8, <1>9, ActFits
  <2>2. TargetOf(r) \in 1 .. MaxSize
    <3>1. r.limit \in Nat /\ MaxSize \in Nat BY <1>8 DEF WellFormed, SizeAssumption
    <3> QED BY <2>1, <3>1 DEF Fits
  <2>3. /\ IInv' /\ Moves(a) /\ pc'[a] = "validate" /\ target'[a] = TargetOf(r)
        /\ call' \in [Admitting -> Asked \cup {None}] /\ call'[a] # None
        /\ call'[a].request = r /\ call'[a].target = TargetOf(r)
        /\ UNCHANGED report /\ \A b \in Admitting \ {a} : call'[b] = call[b]
        BY <1>2, <1>4, <1>8, <1>9, <2>2, EnterMoves
  <2>4. Types' BY <1>1, <1>2, <1>3, <2>3 DEF Types
  <2>5. CallOf(a)' BY <1>5, <2>1, <2>3 DEF CallOf
  <2>6. WroteOf(a)' BY <1>3, <2>3 DEF WroteOf
  <2>7. ToldOf(a)' BY <1>5, <1>6, <2>3 DEF ToldOf
  <2>8. ASSUME NEW b \in Admitting, b # a PROVE CallOf(b)' /\ WroteOf(b)' /\ ToldOf(b)'
    <3>1. b \in Controller BY DEF AdmissionAssumption
    <3> QED BY <1>1, <1>2, <1>3, <1>4, <2>3, <2>8, <3>1, OthersKnow
  <2> QED BY <2>3, <2>4, <2>5, <2>6, <2>7, <2>8 DEF Inv, AInv
<1>10. ASSUME NEW how, Refused(a, r, how), Justified(a, r, how)
       PROVE  Inv'
  <2> DEFINE new == [request |-> r, reason |-> how, committed |-> "no",
                     target |-> None, previous |-> size, final |-> size]
  <2>1. UNCHANGED <<controlVars, call>> /\ report' = [report EXCEPT ![a] = new]
        BY <1>10 DEF Refused
  <2>2. report' = [b \in Admitting |-> report'[b]] /\ report'[a] = new
        /\ \A b \in Admitting \ {a} : report'[b] = report[b]
        BY <1>1, <2>1 DEF Types
  <2>3. IInv' BY <1>2, <2>1, RefusedKeeps
  <2>4. Types' BY <1>1, <1>2, <1>3, <2>1, <2>2 DEF Types
  <2>5. UNCHANGED <<config, pc, target, cycles, result, stop>> BY <2>1 DEF controlVars
  <2>6. Moves(a) BY <2>3, <2>5 DEF Moves, IInv, TypeOK
  <2>7. CallOf(a)' BY <1>2, <2>1, <2>5 DEF CallOf
  <2>8. WroteOf(a)' BY <1>2, <2>1 DEF WroteOf
  <2>9. ToldOf(a)'
    <3>1. new.request = r /\ new.reason = how /\ new.committed = "no" OBVIOUS
    <3> HIDE DEF new
    <3> QED BY <1>3, <1>5, <1>10, <2>2, <3>1 DEF ToldOf
  <2>10. ASSUME NEW b \in Admitting, b # a PROVE CallOf(b)' /\ WroteOf(b)' /\ ToldOf(b)'
    <3>1. b \in Controller BY DEF AdmissionAssumption
    <3> QED BY <1>1, <1>2, <1>3, <1>4, <2>1, <2>2, <2>6, <2>10, <3>1, OthersKnow
  <2> QED BY <2>3, <2>4, <2>7, <2>8, <2>9, <2>10 DEF Inv, AInv
<1>11. CASE Verdict(r) # "act" /\ Refused(a, r, Verdict(r))
  <2>1. Justified(a, r, Verdict(r)) BY <1>11 DEF Justified
  <2> QED BY <1>10, <1>11, <2>1
<1>12. CASE RamTruth(r) # "T" /\ \E how : Refused(a, r, how)
  <2>1. \A how : Justified(a, r, how) BY <1>8, <1>12, GuardIsRight DEF Justified
  <2> QED BY <1>10, <1>12, <2>1
<1> QED BY <1>7, <1>9, <1>11, <1>12 DEF Admit

(* A caller of the headroom screen reads the width ...                     *)
LEMMA BeginResizeInv ==
    ASSUME SizeAssumption, AdmissionAssumption, Inv, NEW a \in Admitting, BeginResize(a)
    PROVE  Inv'
<1>1. IInv /\ Types /\ AInv /\ ControlTypeOK /\ a \in Controller
      BY DEF Inv, IInv, TypeOK, AdmissionAssumption
<1>2. /\ pc[a] = "start" /\ call[a] = None /\ screen[a] = "headroom"
      /\ pc' = [pc EXCEPT ![a] = "observe"]
      /\ calls' = [calls EXCEPT ![a] = @ + 1]
      /\ found' = [found EXCEPT ![a] = None] /\ left' = [left EXCEPT ![a] = None]
      /\ UNCHANGED <<config, target, cycles, result, stop, cancelled, adapterVars,
                     screen, generation, report, setter>>
      BY DEF BeginResize, Idle, NextEpoch
<1>3. found'[a] = None /\ left'[a] = None
      /\ (\A b \in Admitting \ {a} : found'[b] = found[b] /\ left'[b] = left[b])
      /\ {found', left'} \subseteq [Admitting -> Nat \cup {None}]
      /\ calls' \in [Admitting -> Nat]
      BY <1>1, <1>2 DEF Types
<1>4. UNCHANGED size /\ size \in Nat BY <1>1, <1>2 DEF adapterVars, IInv, TypeOK
<1>5. \A q, w : (Fits(a, q, w)' <=> Fits(a, q, w))
                /\ (Justified(a, q, w)' <=> Justified(a, q, w))
      BY <1>2 DEF Fits, Justified
<1>6. PICK w \in 1 .. MaxSize : call' = [call EXCEPT ![a] =
         [request |-> [limit |-> w], target |-> w, previous |-> size]]
      BY DEF BeginResize
<1> DEFINE new == [request |-> [limit |-> w], target |-> w, previous |-> size]
<1>7. w \in Nat /\ w >= 1 /\ w <= MaxSize BY DEF SizeAssumption
<1>8. new \in Asked BY <1>4, <1>7 DEF Asked
<1>9. call' \in [Admitting -> Asked \cup {None}] /\ call'[a] = new
      /\ \A b \in Admitting \ {a} : call'[b] = call[b]
      BY <1>1, <1>6, <1>8 DEF Types
<1>10. Fits(a, new.request, new.target) BY <1>2, <1>7 DEF Fits
<1>11. Moves(a) /\ pc'[a] = "observe"
  <2>1. ControlTypeOK' BY <1>1, <1>2 DEF ControlTypeOK, Step
  <2> QED BY <1>1, <1>2, <2>1 DEF Moves, ControlTypeOK
<1>12. IInv'
  <2>1. ~InFlight(a) /\ ~InFlight(a)' /\ ~Planned(a)' /\ ~Authorized(a)'
        BY <1>2, <1>11 DEF InFlight, Planned, Authorized
  <2> QED BY <1>1, <1>2, <1>11, <2>1, QuietStep
<1>13. Types' BY <1>1, <1>2, <1>3, <1>9 DEF Types
<1>14. CallOf(a)'
  <2>1. call'[a].request = new.request /\ call'[a].target = new.target BY <1>9
  <2>2. ~Planned(a)' BY <1>11 DEF Planned, InFlight
  <2>3. call[a] = None /\ pc'[a] # "start" BY <1>2, <1>11
  <2>4. call'[a] # None
    <3>1. new \in [request : WellFormed \cup [limit : Nat], target : Nat, previous : Nat]
          BY <1>8 DEF Asked
    <3> QED BY <1>9, <3>1 DEF AdmissionAssumption
  <2> QED BY <1>2, <1>5, <1>10, <1>11, <2>1, <2>2, <2>4 DEF CallOf
<1>15. WroteOf(a)' BY <1>3, <1>11 DEF WroteOf
<1>16. call'[a] # None
  <2>1. new \in [request : WellFormed \cup [limit : Nat], target : Nat, previous : Nat]
        BY <1>8 DEF Asked
  <2> QED BY <1>9, <2>1 DEF AdmissionAssumption
<1>17. ToldOf(a)' BY <1>1, <1>2, <1>5, <1>16 DEF ToldOf, AInv
<1>18. ASSUME NEW b \in Admitting, b # a PROVE CallOf(b)' /\ WroteOf(b)' /\ ToldOf(b)'
  <2>1. b \in Controller BY DEF AdmissionAssumption
  <2> QED BY <1>1, <1>2, <1>3, <1>4, <1>9, <1>11, <1>18, <2>1, OthersKnow
<1> QED BY <1>12, <1>13, <1>14, <1>15, <1>17, <1>18 DEF Inv, AInv

(* ... and then the permits in use.                                        *)
LEMMA ScreenResizeInv ==
    ASSUME SizeAssumption, AdmissionAssumption, Inv, NEW a \in Admitting, ScreenResize(a)
    PROVE  Inv'
<1>1. IInv /\ Types /\ AInv /\ ControlTypeOK /\ a \in Controller
      BY DEF Inv, IInv, TypeOK, AdmissionAssumption
<1>2. /\ pc[a] = "observe" /\ call[a] # None
      /\ UNCHANGED <<adapterVars, screen, calls, generation, setter, found, left>>
      BY DEF ScreenResize, ghosts
<1>3. screen[a] = "headroom" /\ found[a] = None /\ left[a] = None
      /\ Fits(a, call[a].request, call[a].target) /\ ToldOf(a)
      BY <1>1, <1>2 DEF AInv, CallOf, WroteOf
<1>4. UNCHANGED size BY <1>2 DEF adapterVars
<1>5. \A q, w : (Fits(a, q, w)' <=> Fits(a, q, w))
                /\ (Justified(a, q, w)' <=> Justified(a, q, w))
      BY <1>2 DEF Fits, Justified
<1> DEFINE r == call[a].request
           width == call[a].previous
<1>6. call[a] \in Asked BY <1>1, <1>2 DEF Types
<1>7. r \in WellFormed \cup [limit : Nat] /\ width \in Nat /\ r.limit \in Nat
      BY <1>6 DEF Asked, WellFormed
<1>8. r.limit \in 1 .. MaxSize
  <2>1. r.limit >= 1 /\ r.limit <= MaxSize BY <1>3, <1>7 DEF Fits
  <2> QED BY <1>7, <2>1 DEF SizeAssumption
<1>9. CASE Enter(a, r, r.limit, width)
  <2>1. /\ IInv' /\ Moves(a) /\ pc'[a] = "validate" /\ target'[a] = r.limit
        /\ call' \in [Admitting -> Asked \cup {None}] /\ call'[a] # None
        /\ call'[a].request = r /\ call'[a].target = r.limit
        /\ UNCHANGED report /\ \A b \in Admitting \ {a} : call'[b] = call[b]
    <3> HIDE DEF r, width
    <3> QED BY <1>2, <1>7, <1>8, <1>9, EnterMoves
  <2>2. Fits(a, r, r.limit) BY <1>3, <1>7, <1>8 DEF Fits
  <2> HIDE DEF r, width
  <2>3. Types' BY <1>1, <1>2, <2>1 DEF Types
  <2>4. CallOf(a)' BY <1>5, <2>1, <2>2 DEF CallOf
  <2>5. WroteOf(a)' BY <1>2, <1>3, <2>1 DEF WroteOf
  <2>6. ToldOf(a)' BY <1>3, <1>5, <2>1 DEF ToldOf
  <2>7. ASSUME NEW b \in Admitting, b # a PROVE CallOf(b)' /\ WroteOf(b)' /\ ToldOf(b)'
    <3>1. b \in Controller BY DEF AdmissionAssumption
    <3> QED BY <1>1, <1>2, <1>4, <2>1, <2>7, <3>1, OthersKnow
  <2> QED BY <2>1, <2>3, <2>4, <2>5, <2>6, <2>7 DEF Inv, AInv
<1>10. ASSUME NEW how,
              report' = [report EXCEPT ![a] =
                 [request |-> r, committed |-> "no", target |-> None, reason |-> how,
                  previous |-> width, final |-> width]],
              call' = [call EXCEPT ![a] = None], pc' = [pc EXCEPT ![a] = "start"],
              UNCHANGED <<config, target, cycles, result, stop, cancelled>>
       PROVE  Inv'
  <2> DEFINE new == [request |-> r, committed |-> "no", target |-> None, reason |-> how,
                     previous |-> width, final |-> width]
  <2>1. report' = [b \in Admitting |-> report'[b]] /\ report'[a] = new
        /\ \A b \in Admitting \ {a} : report'[b] = report[b]
        BY <1>1, <1>10 DEF Types
  <2>2. call'[a] = None /\ call' \in [Admitting -> Asked \cup {None}]
        /\ \A b \in Admitting \ {a} : call'[b] = call[b]
        BY <1>1, <1>10 DEF Types
  <2>3. new.committed = "no" OBVIOUS
  <2> HIDE DEF new
  <2>4. Moves(a) /\ pc'[a] = "start"
    <3>1. ControlTypeOK' BY <1>1, <1>10 DEF ControlTypeOK, Step
    <3> QED BY <1>1, <1>10, <3>1 DEF Moves, ControlTypeOK
  <2>5. IInv'
    <3>1. ~InFlight(a) /\ ~InFlight(a)' /\ ~Planned(a)' /\ ~Authorized(a)'
          BY <1>2, <2>4 DEF InFlight, Planned, Authorized
    <3> QED BY <1>1, <1>2, <2>4, <3>1, QuietStep
  <2>6. Types' BY <1>1, <1>2, <2>1, <2>2 DEF Types
  <2>7. CallOf(a)' BY <2>2, <2>4 DEF CallOf
  <2>8. WroteOf(a)' BY <2>2 DEF WroteOf
  <2>9. ToldOf(a)' BY <1>2, <1>3, <2>1, <2>3 DEF ToldOf, Justified
  <2>10. ASSUME NEW b \in Admitting, b # a PROVE CallOf(b)' /\ WroteOf(b)' /\ ToldOf(b)'
    <3>1. b \in Controller BY DEF AdmissionAssumption
    <3> QED BY <1>1, <1>2, <1>4, <2>1, <2>2, <2>4, <2>10, <3>1, OthersKnow
  <2> QED BY <2>5, <2>6, <2>7, <2>8, <2>9, <2>10 DEF Inv, AInv
<1> QED BY <1>9, <1>10 DEF ScreenResize

(* The answer is made of the width the caller finds now.                   *)
LEMMA ReturnInv ==
    ASSUME SizeAssumption, AdmissionAssumption, Inv, NEW a \in Admitting, Return(a)
    PROVE  Inv'
<1>1. IInv /\ Types /\ AInv /\ ControlTypeOK /\ a \in Controller
      BY DEF Inv, IInv, TypeOK, AdmissionAssumption
<1>2. CallOf(a) /\ WroteOf(a) BY <1>1 DEF AInv
<1>3. /\ call[a] # None /\ pc[a] \in {"between", "stopped"}
      /\ call' = [call EXCEPT ![a] = None] /\ pc' = [pc EXCEPT ![a] = "start"]
      /\ cycles' = [cycles EXCEPT ![a] = 0] /\ result' = [result EXCEPT ![a] = "none"]
      /\ stop' = [stop EXCEPT ![a] = "running"]
      /\ UNCHANGED <<config, target, cancelled, adapterVars, screen, calls, setter,
                     found, left>>
      BY DEF Return, Ended, ghosts
<1>4. UNCHANGED size BY <1>3 DEF adapterVars
<1> DEFINE lost == Committed(a) = "yes" /\ size # call[a].target
           new == [request |-> call[a].request, target |-> call[a].target,
                   reason |-> IF lost THEN "disagrees" ELSE result[a],
                   committed |-> IF lost THEN "error" ELSE Committed(a),
                   previous |-> call[a].previous, final |-> size]
<1>5. report' = [report EXCEPT ![a] = new] BY DEF Return
<1>6. report' = [b \in Admitting |-> report'[b]] /\ report'[a] = new
      /\ \A b \in Admitting \ {a} : report'[b] = report[b]
      BY <1>1, <1>5 DEF Types
<1>7. generation' \in [Admitting -> Nat] BY <1>1 DEF Return, NextGeneration, Types
<1>8. call'[a] = None /\ call' \in [Admitting -> Asked \cup {None}]
      /\ \A b \in Admitting \ {a} : call'[b] = call[b]
      BY <1>1, <1>3 DEF Types
<1>9. Moves(a) /\ pc'[a] = "start"
  <2>1. ControlTypeOK' BY <1>1, <1>3 DEF ControlTypeOK, Step, CycleResult, StopReason
  <2> QED BY <1>1, <1>3, <2>1 DEF Moves, ControlTypeOK
<1>10. IInv'
  <2>1. ~InFlight(a) /\ ~InFlight(a)' /\ ~Planned(a)' /\ ~Authorized(a)'
        BY <1>3, <1>9 DEF InFlight, Planned, Authorized
  <2> QED BY <1>1, <1>3, <1>9, <2>1, QuietStep
<1>11. Types' BY <1>1, <1>3, <1>6, <1>7, <1>8 DEF Types
<1>12. CallOf(a)' BY <1>8, <1>9 DEF CallOf
<1>13. WroteOf(a)' BY <1>8 DEF WroteOf
<1>14. /\ Fits(a, new.request, new.target)
       /\ Justified(a, new.request, new.reason)
       /\ new.committed = "yes" => new.final = new.target
       /\ new.committed \in {"no", "unknown"} => left[a] = found[a]
       /\ new.committed \in {"yes", "error"} => left[a] \in {None, new.target}
       /\ new.committed = "error" => setter # a
  <2>1. Fits(a, call[a].request, call[a].target) BY <1>2, <1>3 DEF CallOf
  <2>2. result[a] \in CycleResult BY <1>1 DEF ControlTypeOK
  <2>3. new.reason \notin {"boolean-ram-capacity-false", "boolean-ram-capacity-unknown"}
        BY <2>2 DEF CycleResult
  <2>4. CASE result[a] = "committed"
    <3>1. pc[a] = "between" BY <1>2, <1>3, <2>4 DEF WroteOf
    <3>2. Committed(a) = "yes" BY <2>4 DEF Committed
    <3>3. left[a] \in {None, call[a].target} /\ (size = call[a].target \/ setter # a)
          BY <1>2, <1>3, <2>4, <3>1 DEF WroteOf
    <3> QED BY <2>1, <2>3, <3>2, <3>3 DEF Justified
  <2>5. CASE result[a] # "committed"
    <3>1. Committed(a) \in {"no", "unknown"} BY <2>5 DEF Committed
    <3>2. found[a] = None /\ left[a] = None BY <1>2, <1>3, <2>5 DEF WroteOf
    <3> QED BY <2>1, <2>3, <3>1, <3>2 DEF Justified
  <2> QED BY <2>4, <2>5
<1> HIDE DEF new
<1>15. ToldOf(a)' BY <1>3, <1>6, <1>14 DEF ToldOf, Fits, Justified
<1>16. ASSUME NEW b \in Admitting, b # a PROVE CallOf(b)' /\ WroteOf(b)' /\ ToldOf(b)'
  <2>1. b \in Controller BY DEF AdmissionAssumption
  <2> QED BY <1>1, <1>3, <1>4, <1>6, <1>8, <1>9, <1>16, <2>1, OthersKnow
<1> QED BY <1>10, <1>11, <1>12, <1>13, <1>15, <1>16 DEF Inv, AInv

-----------------------------------------------------------------------------
(* The loops beside the callers, their tokens and the holders.             *)

LEMMA LoopingInv ==
    ASSUME SizeAssumption, AdmissionAssumption, Inv, NEW c \in Controller \ Admitting,
           Looping(c)
    PROVE  Inv'
<1>1. ControlTypeOK /\ IInv BY DEF Inv, IInv, TypeOK
<1>2. CASE Transact(c) BY <1>2, TransactInv
<1>3. CASE LoopStep(c) /\ UNCHANGED <<adapterVars, callVars, ghosts>>
  <2>1. UNCHANGED adapterVars /\ UNCHANGED <<size, callVars, ghosts>>
        BY <1>3 DEF adapterVars
  <2>2. IInv' BY <1>1, <1>3, <2>1, LoopStepInv
  <2>3. Moves(c)
    <3>1. CASE Start(c) BY <1>1, <3>1, StartMoves
    <3>2. CASE BeginCycle(c) BY <1>1, <3>2, BeginMoves
    <3>3. CASE BetweenCycles(c) BY <1>1, <3>3, BetweenMoves
    <3>4. CASE ObserveAndPlan(c)
      <4>1. CASE \E how \in CycleResult : CompleteCycle(c, how)
            BY <1>1, <4>1, CompleteMoves
      <4>2. CASE \E t \in Candidate :
                   /\ pc' = [pc EXCEPT ![c] = "validate"]
                   /\ target' = [target EXCEPT ![c] = t]
                   /\ UNCHANGED <<config, cycles, result, stop, cancelled>>
            BY <1>1, <4>2, PlanGoes DEF Goes
      <4>3. {"observed", "planned", "noCandidate"} \subseteq CycleResult
            BY DEF CycleResult
      <4> QED BY <3>4, <4>1, <4>2, <4>3 DEF ObserveAndPlan
    <3> QED BY <1>3, <3>1, <3>2, <3>3, <3>4 DEF LoopStep
  <2> QED BY <2>1, <2>2, <2>3, AsideInv
<1> QED BY <1>2, <1>3 DEF Looping

LEMMA AroundInv ==
    ASSUME SizeAssumption, Inv, Around
    PROVE  Inv'
<1>1. IInv /\ UNCHANGED <<callVars, ghosts>> BY DEF Around, Inv
<1>2. CASE Acquire \/ Release
  <2>1. IInv' BY <1>1, <1>2, HoldersInv
  <2>2. UNCHANGED <<controlVars, size>> BY <1>2 DEF Acquire, Release
  <2> QED BY <1>1, <2>1, <2>2, StillInv DEF controlVars
<1>3. ASSUME NEW c \in Controller, Cancel(c), UNCHANGED adapterVars
      PROVE  Inv'
  <2>1. UNCHANGED <<config, pc, target, cycles, result, stop, adapterVars>>
        BY <1>3 DEF Cancel
  <2>2. cancelled' \in [Controller -> BOOLEAN]
        BY <1>1, <1>3 DEF Cancel, IInv, TypeOK, ControlTypeOK
  <2>3. IInv' BY <1>1, <2>1, <2>2, TokenInv
  <2> QED BY <1>1, <2>1, <2>3, StillInv DEF adapterVars
<1> QED BY <1>2, <1>3 DEF Around

-----------------------------------------------------------------------------
(* The invariant.                                                          *)

LEMMA InitInv ==
    ASSUME ConfigAssumption, SizeAssumption, AdmissionAssumption, AdmissionInit
    PROVE  Inv
<1>1. IInv BY InitIInv DEF AdmissionInit
<1>2. /\ call = [a \in Admitting |-> None] /\ report = [a \in Admitting |-> None]
      /\ found = [a \in Admitting |-> None] /\ left = found /\ setter = None
      /\ generation = [a \in Admitting |-> 1] /\ calls = [a \in Admitting |-> 0]
      /\ screen \in [Admitting -> Screen]
      BY DEF AdmissionInit, Unasked
<1>3. Types BY <1>2 DEF Types
<1>4. \A a \in Admitting : pc[a] = "start"
      BY DEF AdmissionInit, Init, ControlInit, AdmissionAssumption
<1>5. AInv BY <1>2, <1>4 DEF AInv, CallOf, WroteOf, ToldOf
<1> QED BY <1>1, <1>3, <1>5 DEF Inv

LEMMA NextInv ==
    ASSUME SizeAssumption, AdmissionAssumption, Inv, [AdmissionNext]_admissionVars
    PROVE  Inv'
<1>1. CASE UNCHANGED admissionVars
  <2>1. UNCHANGED <<controlVars, adapterVars, callVars, ghosts>>
        BY <1>1 DEF admissionVars, vars
  <2>2. cancelled' \in [Controller -> BOOLEAN]
        BY <2>1 DEF controlVars, Inv, IInv, TypeOK, ControlTypeOK
  <2>3. IInv' BY <2>1, <2>2, TokenInv DEF Inv, controlVars
  <2> QED BY <2>1, <2>3, StillInv DEF controlVars, adapterVars
<1>2. CASE Around BY <1>2, AroundInv
<1>3. ASSUME NEW a \in Admitting, Called(a) \/ Answering(a)
      PROVE  Inv'
  <2>1. a \in Controller BY DEF AdmissionAssumption
  <2> QED BY <1>3, <2>1, BeginAdmissionInv, BeginResizeInv, ScreenResizeInv,
             TransactInv, ReturnInv
          DEF Called, Answering
<1>4. ASSUME NEW c \in Controller \ Admitting, Looping(c)
      PROVE  Inv'
      BY <1>4, LoopingInv
<1> QED BY <1>1, <1>2, <1>3, <1>4 DEF AdmissionNext

(* A running call is one that may be admitted, what it wrote is told by    *)
(* where its cycle is, and every report told the truth when it was made.   *)
THEOREM AdmissionInvariance == AdmissionSpec => []Inv
<1>1. AdmissionInit => Inv
      BY ConfigAssumption, SizeAssumption, AdmissionAssumption, InitInv
<1>2. Inv /\ [AdmissionNext]_admissionVars => Inv'
      BY SizeAssumption, AdmissionAssumption, NextInv
<1> QED BY <1>1, <1>2, PTL DEF AdmissionSpec

(* Whatever is admitted fits what was observed, and the guard refuses      *)
(* nothing that the plain controller would have admitted.                  *)
THEOREM AdmissionExact == AdmissionSpec => []AdmissionIsExact
<1>1. Inv => AdmissionIsExact
  <2>1. SUFFICES ASSUME Inv PROVE AdmissionIsExact OBVIOUS
  <2>2. \A a \in Admitting : ToldOf(a) BY <2>1 DEF Inv, AInv
  <2>3. AdmittedFits BY <2>2 DEF AdmittedFits, Answered, ToldOf, Fits
  <2>4. RefusedRightly BY <2>2 DEF RefusedRightly, Answered, ToldOf, Justified
  <2> QED BY <2>3, <2>4 DEF AdmissionIsExact
<1> QED BY <1>1, AdmissionInvariance, PTL

(* A report tells what the call left behind, whatever the other clones of  *)
(* the handle did before, during and after its cycle.                      *)
THEOREM ReportsAreHonest == AdmissionSpec => []ReportIsHonest
<1>1. Inv => ReportIsHonest
  <2>1. SUFFICES ASSUME Inv PROVE ReportIsHonest OBVIOUS
  <2>2. \A a \in Admitting : ToldOf(a) BY <2>1 DEF Inv, AInv
  <2> QED BY <2>2 DEF ReportIsHonest, Answered, ToldOf
<1> QED BY <1>1, AdmissionInvariance, PTL

(* Callers and loops together strand no holder of a permit.                *)
THEOREM AdmittedHoldersFit == AdmissionSpec => []HoldersFit
<1>1. Inv => HoldersFit
  <2>1. SUFFICES ASSUME Inv PROVE HoldersFit OBVIOUS
  <2>2. size \in Lowest .. MaxSize /\ held <= size BY <2>1 DEF Inv, IInv, SizeInv
  <2>3. Lowest \in Nat BY SizeAssumption DEF Lowest
  <2> QED BY <2>2, <2>3, SizeAssumption DEF HoldersFit
<1> QED BY <1>1, AdmissionInvariance, PTL
=============================================================================

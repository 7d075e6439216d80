-------------------------- MODULE ReferenceAdapter --------------------------
(***************************************************************************)
(* The in-process reference adapters under the runtime: RamBudget and      *)
(* ConcurrencyPermits (elastic-adapters) behind their cloneable            *)
(* transactional handles (elastic-runtime, reference_adapters.rs).  Every  *)
(* controller owns a clone of the one handle, and so do the application    *)
(* threads that take and give back permits or bytes; each method is one    *)
(* critical section under the shared mutex.                                *)
(*                                                                         *)
(* `size` is the committed number of bytes, or the licensed width; `held`  *)
(* is what the application uses of it.                                     *)
(***************************************************************************)
EXTENDS RuntimeCycle

CONSTANTS
    MaxSize,    \* trusted upper bound of the resource
    MinSize,    \* lower bound of a RAM budget (permits: 1)
    MaxStep     \* largest step of a RAM budget

ASSUME SizeAssumption ==
    /\ MaxSize \in Nat /\ MinSize \in 1 .. MaxSize /\ MaxStep \in Nat
    /\ Candidate \subseteq Nat
    /\ None \notin [previous : Nat, target : Nat]

VARIABLES
    kind,      \* which adapter this is: "ram" or "permits"; fixed
    size,      \* RamBudget::committed, ConcurrencyPermits::width
    held,      \* RamBudget::in_use, ConcurrencyPermits::active
    prepared,  \* the slot of the prepared transaction, or None
    agreed     \* ghost: the size at the start, or that of the last commit

adapterVars == <<kind, size, held, prepared, agreed>>
vars == <<controlVars, adapterVars>>

Prepared == [previous : Nat, target : Nat]

(* validate_resize of the two adapters.                                    *)
PermitsAdmit(t) == t \in 1 .. MaxSize /\ t >= held

RamAdmits(t) ==
    /\ t \in MinSize .. MaxSize /\ t >= held
    /\ t <= size + MaxStep /\ size <= t + MaxStep

Admits(t) == IF kind = "ram" THEN RamAdmits(t) ELSE PermitsAdmit(t)

Init ==
    /\ ControlInit
    /\ kind \in {"ram", "permits"}
    /\ size \in (IF kind = "ram" THEN MinSize ELSE 1) .. MaxSize
    /\ held = 0
    /\ prepared = None
    /\ agreed = size

-----------------------------------------------------------------------------
(* The application: record_use and acquire, release_use and release.       *)

Acquire ==
    /\ \E n \in 1 .. (IF kind = "ram" THEN MaxSize ELSE 1) :
          /\ held + n <= size
          /\ held' = held + n
    /\ UNCHANGED <<controlVars, kind, size, prepared, agreed>>

Release ==
    /\ \E n \in 1 .. (IF kind = "ram" THEN MaxSize ELSE 1) :
          /\ n <= held
          /\ held' = held - n
    /\ UNCHANGED <<controlVars, kind, size, prepared, agreed>>

-----------------------------------------------------------------------------
(* TransactionalActuator of both handles, as the runtime calls it.         *)

(* The slot holds the transaction of this controller's actuation.          *)
Bound(c) == prepared # None /\ prepared.target = target[c]

(* The adapter checks the target; the runtime refuses what the resource    *)
(* does not declare.                                                       *)
Validate(c) ==
    /\ pc[c] = "validate"
    /\ \E answer \in (IF Admits(target[c]) THEN {"ok", "refused"} ELSE {"error"}) :
          AfterValidate(c, answer)
    /\ UNCHANGED adapterVars

Prepare(c) ==
    /\ pc[c] = "prepare"
    /\ IF prepared = None /\ Admits(target[c])
       THEN /\ prepared' = [previous |-> size, target |-> target[c]]
            /\ AfterPrepare(c, "ok")
       ELSE /\ UNCHANGED prepared
            /\ AfterPrepare(c, "error")
    /\ UNCHANGED <<kind, size, held, agreed>>

ActuateUnchecked(c) ==          \* mutant: the validation of prepare is trusted
    /\ pc[c] = "actuate"
    /\ IF Bound(c)
       THEN size' = target[c] /\ AfterActuate(c, "ok")
       ELSE UNCHANGED size /\ AfterActuate(c, "error")
    /\ UNCHANGED <<kind, held, prepared, agreed>>

ActuateReportsLate(c) ==        \* mutant: an error may follow the resize
    /\ pc[c] = "actuate"
    /\ IF Bound(c) /\ Admits(target[c])
       THEN /\ size' = target[c]
            /\ \E answer \in {"ok", "error"} : AfterActuate(c, answer)
       ELSE UNCHANGED size /\ AfterActuate(c, "error")
    /\ UNCHANGED <<kind, held, prepared, agreed>>

(* apply() validates again: the holders may have changed since.            *)
Actuate(c) ==
    /\ pc[c] = "actuate"
    /\ IF Bound(c) /\ Admits(target[c])
       THEN size' = target[c] /\ AfterActuate(c, "ok")
       ELSE UNCHANGED size /\ AfterActuate(c, "error")
    /\ UNCHANGED <<kind, held, prepared, agreed>>

Verify(c) ==
    /\ pc[c] = "verify"
    /\ AfterVerify(c, IF Bound(c) /\ size = target[c] THEN "ok" ELSE "error")
    /\ UNCHANGED adapterVars

Commit(c) ==
    /\ pc[c] = "commit"
    /\ IF Bound(c) /\ size = target[c]
       THEN prepared' = None /\ agreed' = size /\ AfterCommit(c, "ok")
       ELSE UNCHANGED <<prepared, agreed>> /\ AfterCommit(c, "error")
    /\ UNCHANGED <<kind, size, held>>

(* The slot is freed only when the previous size is restored.              *)
Restores(c) == Bound(c) /\ Admits(prepared.previous)

Rollback(c) ==
    /\ pc[c] = "rollback"
    /\ IF Restores(c)
       THEN /\ size' = prepared.previous /\ prepared' = None
            /\ AfterRollback(c, "ok")
       ELSE /\ UNCHANGED <<size, prepared>>
            /\ AfterRollback(c, "error")
    /\ UNCHANGED <<kind, held, agreed>>

-----------------------------------------------------------------------------
LoopStep(c) == Start(c) \/ BeginCycle(c) \/ BetweenCycles(c) \/ ObserveAndPlan(c)

AdapterStep(c) ==
    \/ Validate(c) \/ Prepare(c) \/ Actuate(c)
    \/ Verify(c) \/ Commit(c) \/ Rollback(c)

ControllerStep(c) ==
    \/ AdapterStep(c)
    \/ LoopStep(c) /\ UNCHANGED adapterVars

Environment ==
    \/ Acquire \/ Release
    \/ \E c \in Controller : Cancel(c) /\ UNCHANGED adapterVars

Next == Environment \/ \E c \in Controller : ControllerStep(c)

Spec == Init /\ [][Next]_vars

(* The thread of a loop goes on: calls return and sleeps end.              *)
FairSpec == Spec /\ \A c \in Controller : WF_vars(ControllerStep(c))

-----------------------------------------------------------------------------
(* Properties.                                                             *)

(* Every variable keeps its type.                                          *)
TypeOK ==
    /\ ControlTypeOK
    /\ kind \in {"ram", "permits"}
    /\ size \in Nat /\ held \in Nat /\ agreed \in Nat
    /\ prepared \in Prepared \cup {None}

(* No resize strands a holder or cuts off bytes in use, whatever the       *)
(* application does between the validation of a plan and its actuation.    *)
HoldersFit == held <= size /\ size <= MaxSize

(* The controllers whose cycle is between a prepare and its end.           *)
InFlight(c) == pc[c] \in {"actuate", "verify", "commit", "rollback"}

(* The shared slot is a lock: it is taken exactly while one controller's   *)
(* transaction runs, so no cycle that ended left its reservation behind.   *)
SlotIsOwned ==
    /\ prepared # None => \E c \in Controller : InFlight(c)
    /\ \A c, d \in Controller : InFlight(c) /\ InFlight(d) => c = d

(* Once the runtime has to roll back, the adapter admits the restoration:  *)
(* no holder that came in since can block it.                              *)
RollbackAdmitted == \A c \in Controller : pc[c] = "rollback" => Restores(c)

(* Outside a transaction the resource has the size the last committed      *)
(* cycle reported; cycles that were rolled back, rejected or only planned  *)
(* left no trace.                                                          *)
ReportedSize == prepared = None => size = agreed

(* A controller configured not to act never takes the slot, and only the   *)
(* owner of the slot changes the size.                                     *)
OnlyOwnerResizes ==
    [][size' # size => \E c \in Controller :
          /\ InFlight(c) /\ pc'[c] # pc[c] /\ ~DryRun(c)
          /\ config[c].mode \notin {"ObserveOnly", "PlanOnly"}]_vars
=============================================================================

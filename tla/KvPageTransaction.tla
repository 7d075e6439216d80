------------------------- MODULE KvPageTransaction -------------------------
(***************************************************************************)
(* One page of a key-value cache changed by control loops, each through a  *)
(* TransactionalKvPageV1 of its own (elastic-kv, transaction.rs) that is   *)
(* bound to the descriptor it read and to one admissible target, while the *)
(* cache goes on changing the page by itself.                              *)
(*                                                                         *)
(* The cache is a KvTransitionBackendV1: it compares the source and        *)
(* applies the target in one step, and its restore compares nothing.  A    *)
(* method of the adapter makes several calls to it; where a change of the  *)
(* page between two of them could matter, they are steps of their own.     *)
(***************************************************************************)
EXTENDS RuntimeCycle

CONSTANTS
    Contract,   \* representations of a page
    MaxEpoch    \* bound: epochs the cache hands out

ASSUME PageAssumption ==
    /\ MaxEpoch \in Nat /\ Contract # {} /\ None \notin Controller
    /\ None \notin [epoch : Nat, contract : Contract]
    /\ Candidate = {"plain", "sized", "foreign"}

Mechanism == {"reinterpret", "reencode", "recompute"}
Page == [epoch : 0 .. MaxEpoch, contract : Contract]
Binding == [source : Page, goal : Page]

VARIABLES
    page,      \* the authoritative descriptor
    author,    \* ghost: who wrote it, a controller or None for the cache
    binding,   \* the source and target of each adapter, or None
    prepared,  \* TransactionalKvPageV1::prepared
    actuated,  \* TransactionalKvPageV1::actuated
    restoring, \* rollback has called restore_page, and reads the page next
    disturbed  \* ghost: somebody else wrote since the adapter's prepare

pageVars == <<page, author, binding, prepared, actuated, restoring, disturbed>>
vars == <<controlVars, pageVars>>

Source(c) == binding[c].source
NextEpoch(c) == [Source(c) EXCEPT !.epoch = @ + 1]  \* mutant: the target is counted
Goal(c) == binding[c].goal

Init ==
    /\ ControlInit
    /\ page \in {p \in Page : p.epoch = 0}
    /\ author = None
    /\ binding = [c \in Controller |-> None]
    /\ prepared = [c \in Controller |-> FALSE]
    /\ actuated = [c \in Controller |-> FALSE]
    /\ restoring = [c \in Controller |-> FALSE]
    /\ disturbed = [c \in Controller |-> FALSE]

(* A step of `who` gives the page a descriptor.                            *)
WritePage(who, p) ==
    /\ page' = p
    /\ author' = who
    /\ disturbed' = [c \in Controller |-> disturbed[c] \/ (prepared[c] /\ c # who)]

-----------------------------------------------------------------------------
(* RepresentationTransition::validate: a new contract, or a new            *)
(* materialization of the old one, needs a new epoch.                      *)
Admissible(b, mechanism) ==
    /\ b.goal.epoch >= b.source.epoch
    /\ (b.goal.contract # b.source.contract \/ mechanism # "reinterpret")
          => b.goal.epoch > b.source.epoch

(* The adapter is built from a descriptor the caller has read.             *)
New(c) ==
    /\ pc[c] = "start" /\ binding[c] = None
    /\ \E goal \in Page, mechanism \in Mechanism :
          LET b == [source |-> page, goal |-> goal] IN
          /\ Admissible(b, mechanism)
          /\ binding' = [binding EXCEPT ![c] = b]
    /\ UNCHANGED <<controlVars, page, author, prepared, actuated, restoring, disturbed>>

(* The cache itself moves the page to a newer epoch.                       *)
CacheWrites ==
    /\ \E p \in Page : p.epoch = page.epoch + 1 /\ WritePage(None, p)
    /\ UNCHANGED <<controlVars, binding, prepared, actuated, restoring>>

-----------------------------------------------------------------------------
(* TransactionalActuator for TransactionalKvPageV1.  Every call to the     *)
(* backend may fail; a failure of one that changes nothing is "error".     *)

OkOrError == {"ok", "error"}

(* require_runtime_binding and require_source_state, then the backend.     *)
Validate(c) ==
    /\ pc[c] = "validate"
    /\ IF target[c] # "foreign" /\ page = Source(c)
       THEN \E answer \in {"ok", "refused", "error"} : AfterValidate(c, answer)
       ELSE AfterValidate(c, "error")
    /\ UNCHANGED pageVars

(* The actuation has no target: one whose candidate has a magnitude is not *)
(* accepted by the runtime, after the adapter has prepared.                *)
Prepare(c) ==
    /\ pc[c] = "prepare"
    /\ \/ AfterPrepare(c, "error") /\ UNCHANGED <<prepared, disturbed>>
       \/ /\ page = Source(c)
          /\ prepared' = [prepared EXCEPT ![c] = TRUE]
          /\ disturbed' = [disturbed EXCEPT ![c] = FALSE]
          /\ AfterPrepare(c, IF target[c] = "sized" THEN "error" ELSE "ok")
    /\ UNCHANGED <<page, author, binding, actuated, restoring>>

(* apply_transition_if_source compares and applies in one step.            *)
Applies(c) == page = Source(c)

Actuate(c) ==
    /\ pc[c] = "actuate"
    /\ \/ /\ prepared[c] /\ Applies(c)
          /\ WritePage(c, Goal(c))
          /\ actuated' = [actuated EXCEPT ![c] = TRUE]
          /\ AfterActuate(c, "ok")
       \/ AfterActuate(c, "error") /\ UNCHANGED <<page, author, actuated, disturbed>>
    /\ UNCHANGED <<binding, prepared, restoring>>

Verify(c) ==
    /\ pc[c] = "verify"
    /\ IF actuated[c] /\ page = Goal(c)
       THEN \E answer \in OkOrError : AfterVerify(c, answer)
       ELSE AfterVerify(c, "error")
    /\ UNCHANGED pageVars

(* A commit reads the page once more; nothing is published.                *)
Finish(c) ==
    /\ prepared' = [prepared EXCEPT ![c] = FALSE]
    /\ actuated' = [actuated EXCEPT ![c] = FALSE]

Commit(c) ==
    /\ pc[c] = "commit"
    /\ \/ actuated[c] /\ page = Goal(c) /\ Finish(c) /\ AfterCommit(c, "ok")
       \/ AfterCommit(c, "error") /\ UNCHANGED <<prepared, actuated>>
    /\ UNCHANGED <<page, author, binding, restoring, disturbed>>

RestoreNothing(c) ==               \* mutant: the page is said to be restored
    /\ pc[c] = "rollback" /\ ~restoring[c]
    /\ Finish(c) /\ AfterRollback(c, "ok")
    /\ UNCHANGED <<page, author, binding, restoring, disturbed>>

(* restore_page gives the page its source back, whatever it holds now.     *)
RestorePage(c) ==
    /\ pc[c] = "rollback" /\ ~restoring[c]
    /\ \/ /\ prepared[c]
          /\ WritePage(c, Source(c))
          /\ restoring' = [restoring EXCEPT ![c] = TRUE]
          /\ UNCHANGED controlVars
       \/ /\ AfterRollback(c, "error")
          /\ UNCHANGED <<page, author, restoring, disturbed>>
    /\ UNCHANGED <<binding, prepared, actuated>>

(* The page is read again; what is there decides the answer, and the       *)
(* transaction is over either way, unless the read itself fails.           *)
ReadRestored(c) ==
    /\ pc[c] = "rollback" /\ restoring[c]
    /\ restoring' = [restoring EXCEPT ![c] = FALSE]
    /\ \/ /\ Finish(c)
          /\ AfterRollback(c, IF page = Source(c) THEN "ok" ELSE "error")
       \/ AfterRollback(c, "error") /\ UNCHANGED <<prepared, actuated>>
    /\ UNCHANGED <<page, author, binding, disturbed>>

-----------------------------------------------------------------------------
LoopStep(c) ==
    /\ binding[c] # None
    /\ Start(c) \/ BeginCycle(c) \/ BetweenCycles(c) \/ ObserveAndPlan(c)
    /\ UNCHANGED pageVars

AdapterStep(c) ==
    \/ Validate(c) \/ Prepare(c) \/ Actuate(c) \/ Verify(c) \/ Commit(c)
    \/ RestorePage(c) \/ ReadRestored(c)

ControllerStep(c) == New(c) \/ LoopStep(c) \/ AdapterStep(c)

Next ==
    \/ CacheWrites
    \/ \E c \in Controller :
          \/ ControllerStep(c)
          \/ Cancel(c) /\ UNCHANGED pageVars

Spec == Init /\ [][Next]_vars
FairSpec == Spec /\ \A c \in Controller : WF_vars(ControllerStep(c))

-----------------------------------------------------------------------------
(* Properties.                                                             *)

(* Every variable keeps its type.                                          *)
TypeOK ==
    /\ ControlTypeOK
    /\ page \in Page /\ author \in Controller \cup {None}
    /\ binding \in [Controller -> Binding \cup {None}]
    /\ {prepared, actuated, restoring, disturbed} \subseteq [Controller -> BOOLEAN]

(* If nobody else wrote since it prepared, a cycle is all or nothing: a    *)
(* commit leaves the target, and an acknowledged or a due rollback the     *)
(* source.                                                                 *)
UndisturbedIsAtomic ==
    \A c \in Controller : binding[c] # None /\ ~disturbed[c] /\ author = c =>
        /\ result[c] = "committed" /\ pc[c] = "between" => page = Goal(c)
        /\ result[c] = "rolledBack" /\ pc[c] = "between" => page = Source(c)
        /\ pc[c] \in {"verify", "commit"} => page = Goal(c)
=============================================================================

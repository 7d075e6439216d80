------------------------- MODULE KvTransactionsProofs -------------------------
(***************************************************************************)
(* The surfaces of elastic-kv, each for any number of loops or executions, *)
(* any representations, identities and bounds: the page under its loops    *)
(* and its cache, the storage under its executions and its writers, and    *)
(* the planning of a view.  They are the surfaces MCKvTransactions puts    *)
(* side by side, in its variables; every theorem is about the whole        *)
(* behaviour of one of them.                                               *)
(***************************************************************************)
EXTENDS MCKvTransactions, Sequences, FiniteSetTheorems, TLAPS

-----------------------------------------------------------------------------
(* The page.  No adapter can keep the cache away from the page; what it    *)
(* has is that its prepare lasts until its cycle ends, so that whoever     *)
(* writes in between leaves it disturbed.                                  *)

(* What a controller knows of the page by where it is.                     *)
PageOf(c) ==
    /\ binding[c] = None => pc[c] = "start"
    /\ pc[c] \in {"actuate", "verify", "commit", "rollback"} => prepared[c]
    /\ pc[c] \in {"verify", "commit"} /\ ~disturbed[c] => page = Goal(c)
    /\ pc[c] = "between" /\ author = c =>
          /\ result[c] = "committed" => page = Goal(c)
          /\ result[c] = "rolledBack" => page = Source(c)

PageInv == TypeOK /\ \A c \in Controller : PageOf(c)

(* The other controllers know what they knew, if the page is left alone or *)
(* its new author is not one of them.                                      *)
LEMMA OthersKnowThePage ==
    ASSUME PageInv, NEW c \in Controller \cup {None}, NEW d \in Controller, d # c,
           pc'[d] = pc[d], result'[d] = result[d], binding'[d] = binding[d],
           prepared'[d] = prepared[d],
           \/ UNCHANGED <<page, author>> /\ disturbed'[d] = disturbed[d]
           \/ \E p : WritePage(c, p)
    PROVE  PageOf(d)'
<1>1. PageOf(d) BY DEF PageInv
<1>2. Goal(d)' = Goal(d) /\ Source(d)' = Source(d) BY DEF Goal, Source
<1>3. CASE UNCHANGED <<page, author>> /\ disturbed'[d] = disturbed[d]
      BY <1>1, <1>2, <1>3 DEF PageOf
<1>4. CASE \E p : WritePage(c, p)
  <2>1. author' = c /\ (disturbed'[d] <=> disturbed[d] \/ prepared[d])
        BY <1>4 DEF WritePage
  <2>2. pc'[d] \in {"verify", "commit"} => disturbed'[d] BY <1>1, <2>1 DEF PageOf
  <2> QED BY <1>1, <1>2, <2>1, <2>2 DEF PageOf
<1> QED BY <1>3, <1>4

(* A step of the control around the actuator leaves the page alone, and    *)
(* ends no transaction.                                                    *)
LEMMA LoopKeepsPage ==
    ASSUME PageInv, NEW c \in Controller, binding[c] # None, Moves(c),
           UNCHANGED pageVars,
           \/ pc'[c] \in {"top", "observe", "validate", "prepare", "stopped"}
           \/ pc'[c] = "between" /\ result'[c] \notin {"committed", "rolledBack"}
    PROVE  PageInv'
<1>1. TypeOK' BY DEF PageInv, TypeOK, Moves, pageVars
<1>2. PageOf(c)' BY DEF PageOf, pageVars
<1>3. ASSUME NEW d \in Controller, d # c PROVE PageOf(d)'
      BY <1>3, OthersKnowThePage DEF Moves, pageVars
<1> QED BY <1>1, <1>2, <1>3 DEF PageInv

LEMMA LoopStepKeepsPage ==
    ASSUME PageInv, NEW c \in Controller, LoopStep(c)
    PROVE  PageInv'
<1>1. ControlTypeOK /\ binding[c] # None /\ UNCHANGED pageVars
      BY DEF PageInv, TypeOK, LoopStep
<1>2. CASE Start(c) BY <1>1, <1>2, StartMoves, LoopKeepsPage
<1>3. CASE BeginCycle(c) BY <1>1, <1>3, BeginMoves, LoopKeepsPage
<1>4. CASE BetweenCycles(c) BY <1>1, <1>4, BetweenMoves, LoopKeepsPage
<1>5. CASE ObserveAndPlan(c)
  <2>1. ASSUME NEW how \in {"observed", "planned", "noCandidate"}, CompleteCycle(c, how)
        PROVE  PageInv'
    <3>1. Moves(c) /\ pc'[c] = "between" /\ result'[c] = how
          BY <1>1, <2>1, CompleteMoves DEF CycleResult, Completes
    <3> QED BY <1>1, <3>1, LoopKeepsPage
  <2>2. ASSUME NEW t \in Candidate, pc' = [pc EXCEPT ![c] = "validate"],
               target' = [target EXCEPT ![c] = t],
               UNCHANGED <<config, cycles, result, stop, cancelled>>
        PROVE  PageInv'
        BY <1>1, <2>2, PlanGoes, LoopKeepsPage DEF Goes
  <2> QED BY <1>5, <2>1, <2>2 DEF ObserveAndPlan
<1> QED BY <1>2, <1>3, <1>4, <1>5 DEF LoopStep

LEMMA ValidateKeepsPage ==
    ASSUME PageInv, NEW c \in Controller, Validate(c)
    PROVE  PageInv'
<1>1. ControlTypeOK /\ UNCHANGED pageVars /\ binding[c] # None
      BY DEF PageInv, TypeOK, Validate, PageOf
<1>2. PICK answer : AfterValidate(c, answer) BY DEF Validate
<1>3. CASE CycleError(c) BY <1>1, <1>3, ErrorMoves, LoopKeepsPage
<1>4. ASSUME NEW how \in {"rejected", "dryRun"}, CompleteCycle(c, how)
      PROVE  PageInv'
  <2>1. Moves(c) /\ pc'[c] = "between" /\ result'[c] = how
        BY <1>1, <1>4, CompleteMoves DEF CycleResult, Completes
  <2> QED BY <1>1, <2>1, LoopKeepsPage
<1>5. CASE Goto(c, "prepare")
  <2>1. Moves(c) /\ pc'[c] = "prepare" BY <1>1, <1>5, GotoMoves DEF Step
  <2> QED BY <1>1, <2>1, LoopKeepsPage
<1> QED BY <1>2, <1>3, <1>4, <1>5 DEF AfterValidate

(* A failed prepare may have taken the slot: nothing was written.          *)
LEMMA PrepareKeepsPage ==
    ASSUME PageInv, NEW c \in Controller, Prepare(c)
    PROVE  PageInv'
<1>1. ControlTypeOK /\ TypeOK /\ binding[c] # None
      BY DEF PageInv, TypeOK, Prepare, PageOf
<1>2. UNCHANGED <<page, author, binding, actuated, restoring>> BY DEF Prepare
<1>3. /\ {prepared', disturbed'} \subseteq [Controller -> BOOLEAN]
      /\ \A d \in Controller \ {c} :
            prepared'[d] = prepared[d] /\ disturbed'[d] = disturbed[d]
      BY <1>1 DEF Prepare, TypeOK
<1>4. Moves(c) /\ (pc'[c] = "stopped" \/ (pc'[c] = "actuate" /\ prepared'[c]))
  <2>1. CASE CycleError(c) BY <1>1, <2>1, ErrorMoves
  <2>2. CASE Goto(c, "actuate") /\ prepared'[c]
        BY <1>1, <2>2, GotoMoves DEF Step
  <2>3. CASE prepared' = [prepared EXCEPT ![c] = TRUE] /\ Goto(c, "actuate")
        BY <1>1, <2>2, <2>3 DEF TypeOK
  <2> QED BY <2>1, <2>3 DEF Prepare, AfterPrepare
<1>5. TypeOK' BY <1>1, <1>2, <1>3, <1>4 DEF TypeOK, Moves
<1>6. PageOf(c)' BY <1>1, <1>2, <1>4 DEF PageOf
<1>7. ASSUME NEW d \in Controller, d # c PROVE PageOf(d)'
      BY <1>2, <1>3, <1>4, <1>7, OthersKnowThePage DEF Moves
<1> QED BY <1>5, <1>6, <1>7 DEF PageInv

(* The target is written over the source, and over nothing else.           *)
LEMMA ActuateKeepsPage ==
    ASSUME PageInv, NEW c \in Controller, Actuate(c)
    PROVE  PageInv'
<1>1. ControlTypeOK /\ TypeOK /\ binding[c] # None /\ pc[c] = "actuate" /\ prepared[c]
      BY DEF PageInv, TypeOK, Actuate, PageOf
<1>2. UNCHANGED <<binding, prepared, restoring>> BY DEF Actuate
<1>3. binding[c] \in Binding /\ Goal(c) \in Page /\ Source(c) \in Page
      BY <1>1 DEF TypeOK, Binding, Goal, Source
<1>4. CASE /\ WritePage(c, Goal(c)) /\ actuated' = [actuated EXCEPT ![c] = TRUE]
           /\ Goto(c, "verify")
  <2>1. Moves(c) /\ pc'[c] = "verify" BY <1>1, <1>4, GotoMoves DEF Step
  <2>2. /\ page' = Goal(c) /\ author' = c
        /\ disturbed' \in [Controller -> BOOLEAN]
        BY <1>1, <1>4 DEF WritePage, TypeOK
  <2>3. actuated' \in [Controller -> BOOLEAN] BY <1>1, <1>4 DEF TypeOK
  <2>4. TypeOK' BY <1>1, <1>2, <1>3, <2>1, <2>2, <2>3 DEF TypeOK, Moves
  <2>5. PageOf(c)' BY <1>1, <1>2, <2>1, <2>2 DEF PageOf, Goal
  <2>6. ASSUME NEW d \in Controller, d # c PROVE PageOf(d)'
        BY <1>2, <1>4, <2>1, <2>6, OthersKnowThePage DEF Moves
  <2> QED BY <2>4, <2>5, <2>6 DEF PageInv
<1>5. CASE Goto(c, "rollback") /\ UNCHANGED <<page, author, actuated, disturbed>>
  <2>1. Moves(c) /\ pc'[c] = "rollback" BY <1>1, <1>5, GotoMoves DEF Step
  <2>2. TypeOK' BY <1>1, <1>2, <1>5, <2>1 DEF TypeOK, Moves
  <2>3. PageOf(c)' BY <1>1, <1>2, <2>1 DEF PageOf
  <2>4. ASSUME NEW d \in Controller, d # c PROVE PageOf(d)'
        BY <1>2, <1>5, <2>1, <2>4, OthersKnowThePage DEF Moves
  <2> QED BY <2>2, <2>3, <2>4 DEF PageInv
<1> QED BY <1>4, <1>5 DEF Actuate, AfterActuate

LEMMA VerifyKeepsPage ==
    ASSUME PageInv, NEW c \in Controller, Verify(c)
    PROVE  PageInv'
<1>1. /\ ControlTypeOK /\ TypeOK /\ PageOf(c) /\ pc[c] = "verify"
      /\ binding[c] # None /\ prepared[c] /\ UNCHANGED pageVars
      BY DEF PageInv, TypeOK, Verify, PageOf
<1>2. PICK s \in {"commit", "rollback"} : Goto(c, s) BY DEF Verify, AfterVerify, OkOrError
<1>3. Moves(c) /\ pc'[c] = s BY <1>1, <1>2, GotoMoves DEF Step
<1>4. TypeOK' BY <1>1, <1>3 DEF TypeOK, Moves, pageVars
<1>5. PageOf(c)' BY <1>1, <1>3 DEF PageOf, pageVars, Goal
<1>6. ASSUME NEW d \in Controller, d # c PROVE PageOf(d)'
      BY <1>1, <1>3, <1>6, OthersKnowThePage DEF Moves, pageVars
<1> QED BY <1>4, <1>5, <1>6 DEF PageInv

LEMMA CommitKeepsPage ==
    ASSUME PageInv, NEW c \in Controller, Commit(c)
    PROVE  PageInv'
<1>1. /\ ControlTypeOK /\ TypeOK /\ pc[c] = "commit" /\ binding[c] # None /\ prepared[c]
      /\ UNCHANGED <<page, author, binding, restoring, disturbed>>
      BY DEF PageInv, TypeOK, Commit, PageOf
<1>2. CASE page = Goal(c) /\ Finish(c) /\ CompleteCycle(c, "committed")
  <2>1. Moves(c) /\ pc'[c] = "between" /\ result'[c] = "committed"
        BY <1>1, <1>2, CompleteMoves DEF CycleResult, Completes
  <2>2. /\ {prepared', actuated'} \subseteq [Controller -> BOOLEAN]
        /\ \A d \in Controller \ {c} : prepared'[d] = prepared[d]
        BY <1>1, <1>2 DEF Finish, TypeOK
  <2>3. TypeOK' BY <1>1, <2>1, <2>2 DEF TypeOK, Moves
  <2>4. PageOf(c)' BY <1>1, <1>2, <2>1 DEF PageOf, Goal
  <2>5. ASSUME NEW d \in Controller, d # c PROVE PageOf(d)'
        BY <1>1, <2>1, <2>2, <2>5, OthersKnowThePage DEF Moves
  <2> QED BY <2>3, <2>4, <2>5 DEF PageInv
<1>3. CASE Goto(c, "rollback") /\ UNCHANGED <<prepared, actuated>>
  <2>1. Moves(c) /\ pc'[c] = "rollback" BY <1>1, <1>3, GotoMoves DEF Step
  <2>2. TypeOK' BY <1>1, <1>3, <2>1 DEF TypeOK, Moves
  <2>3. PageOf(c)' BY <1>1, <1>3, <2>1 DEF PageOf
  <2>4. ASSUME NEW d \in Controller, d # c PROVE PageOf(d)'
        BY <1>1, <1>3, <2>1, <2>4, OthersKnowThePage DEF Moves
  <2> QED BY <2>2, <2>3, <2>4 DEF PageInv
<1> QED BY <1>2, <1>3 DEF Commit, AfterCommit

(* A restoration writes the source over whatever is there.                 *)
LEMMA RestoreKeepsPage ==
    ASSUME PageInv, NEW c \in Controller, RestorePage(c)
    PROVE  PageInv'
<1>1. /\ ControlTypeOK /\ TypeOK /\ PageOf(c) /\ pc[c] = "rollback"
      /\ binding[c] # None /\ prepared[c]
      /\ UNCHANGED <<binding, prepared, actuated>>
      BY DEF PageInv, TypeOK, RestorePage, PageOf
<1>2. CASE /\ WritePage(c, Source(c)) /\ restoring' = [restoring EXCEPT ![c] = TRUE]
           /\ UNCHANGED controlVars
  <2>1. binding[c] \in Binding /\ Source(c) \in Page
        BY <1>1 DEF TypeOK, Binding, Source
  <2>2. /\ page' = Source(c) /\ author' = c
        /\ {disturbed', restoring'} \subseteq [Controller -> BOOLEAN]
        BY <1>1, <1>2 DEF WritePage, TypeOK
  <2>3. UNCHANGED <<config, pc, target, cycles, result, stop, cancelled>>
        BY <1>2 DEF controlVars
  <2>4. TypeOK' BY <1>1, <2>1, <2>2, <2>3 DEF TypeOK, ControlTypeOK
  <2>5. PageOf(c)' BY <1>1, <2>3 DEF PageOf
  <2>6. ASSUME NEW d \in Controller, d # c PROVE PageOf(d)'
        BY <1>1, <1>2, <2>3, <2>6, OthersKnowThePage
  <2> QED BY <2>4, <2>5, <2>6 DEF PageInv
<1>3. CASE CycleError(c) /\ UNCHANGED <<page, author, restoring, disturbed>>
  <2>1. Moves(c) /\ pc'[c] = "stopped" BY <1>1, <1>3, ErrorMoves
  <2> QED BY <1>1, <1>3, <2>1, LoopKeepsPage DEF pageVars
<1> QED BY <1>2, <1>3 DEF RestorePage, AfterRollback

LEMMA ReadKeepsPage ==
    ASSUME PageInv, NEW c \in Controller, ReadRestored(c)
    PROVE  PageInv'
<1>1. /\ ControlTypeOK /\ TypeOK /\ pc[c] = "rollback" /\ binding[c] # None
      /\ UNCHANGED <<page, author, binding, disturbed>>
      /\ restoring' = [restoring EXCEPT ![c] = FALSE]
      BY DEF PageInv, TypeOK, ReadRestored, PageOf
<1>2. /\ {prepared', actuated', restoring'} \subseteq [Controller -> BOOLEAN]
      /\ \A d \in Controller \ {c} : prepared'[d] = prepared[d]
  <2>1. CASE Finish(c) BY <1>1, <2>1 DEF Finish, TypeOK
  <2>2. CASE UNCHANGED <<prepared, actuated>> BY <1>1, <2>2 DEF TypeOK
  <2> QED BY <2>1, <2>2 DEF ReadRestored
<1>3. Moves(c) /\ (\/ pc'[c] = "stopped"
                   \/ /\ pc'[c] = "between" /\ result'[c] = "rolledBack"
                      /\ page = Source(c))
  <2>1. CASE CycleError(c) BY <1>1, <2>1, ErrorMoves
  <2>2. CASE page = Source(c) /\ CompleteCycle(c, "rolledBack")
        BY <1>1, <2>2, CompleteMoves DEF CycleResult, Completes
  <2> QED BY <2>1, <2>2 DEF ReadRestored, AfterRollback
<1>4. TypeOK' BY <1>1, <1>2, <1>3 DEF TypeOK, Moves
<1>5. PageOf(c)' BY <1>1, <1>3 DEF PageOf, Source
<1>6. ASSUME NEW d \in Controller, d # c PROVE PageOf(d)'
      BY <1>1, <1>2, <1>3, <1>6, OthersKnowThePage DEF Moves
<1> QED BY <1>4, <1>5, <1>6 DEF PageInv

LEMMA NewKeepsPage ==
    ASSUME PageInv, NEW c \in Controller, New(c)
    PROVE  PageInv'
<1>1. /\ TypeOK /\ pc[c] = "start"
      /\ UNCHANGED <<controlVars, page, author, prepared, actuated, restoring, disturbed>>
      BY DEF PageInv, New
<1>2. PICK goal \in Page :
         binding' = [binding EXCEPT ![c] = [source |-> page, goal |-> goal]]
      BY DEF New
<1>3. [source |-> page, goal |-> goal] \in Binding BY <1>1 DEF TypeOK, Binding
<1>4. binding' \in [Controller -> Binding \cup {None}]
      /\ \A d \in Controller \ {c} : binding'[d] = binding[d]
      BY <1>1, <1>2, <1>3 DEF TypeOK
<1>5. UNCHANGED <<config, pc, target, cycles, result, stop, cancelled>>
      BY <1>1 DEF controlVars
<1>6. TypeOK' BY <1>1, <1>4, <1>5 DEF TypeOK, ControlTypeOK
<1>7. PageOf(c)' BY <1>1, <1>5 DEF PageOf
<1>8. ASSUME NEW d \in Controller, d # c PROVE PageOf(d)'
      BY <1>1, <1>4, <1>5, <1>8, OthersKnowThePage
<1> QED BY <1>6, <1>7, <1>8 DEF PageInv

(* The cache's own writes, a token, and a step of somebody else.           *)
LEMMA CacheKeepsPage ==
    ASSUME PageInv, CacheWrites
    PROVE  PageInv'
<1>1. TypeOK /\ UNCHANGED <<controlVars, binding, prepared, actuated, restoring>>
      BY DEF PageInv, CacheWrites
<1>2. PICK p \in Page : WritePage(None, p) BY DEF CacheWrites
<1>3. /\ page' = p /\ author' = None /\ disturbed' \in [Controller -> BOOLEAN]
      BY <1>1, <1>2 DEF WritePage, TypeOK
<1>4. UNCHANGED <<config, pc, target, cycles, result, stop, cancelled>>
      BY <1>1 DEF controlVars
<1>5. TypeOK' BY <1>1, <1>3, <1>4 DEF TypeOK, ControlTypeOK
<1>6. ASSUME NEW d \in Controller PROVE PageOf(d)'
  <2>1. d # None BY PageAssumption
  <2> QED BY <1>1, <1>2, <1>4, <2>1, OthersKnowThePage
<1> QED BY <1>5, <1>6 DEF PageInv

LEMMA TokenKeepsPage ==
    ASSUME PageInv, UNCHANGED <<config, pc, target, cycles, result, stop, pageVars>>,
           cancelled' \in [Controller -> BOOLEAN]
    PROVE  PageInv'
<1>1. TypeOK' BY DEF PageInv, TypeOK, ControlTypeOK, pageVars
<1>2. \A c \in Controller : PageOf(c)'
      BY DEF PageInv, PageOf, Goal, Source, pageVars
<1> QED BY <1>1, <1>2 DEF PageInv

LEMMA InitPageInv ==
    ASSUME Init
    PROVE  PageInv
<1>1. ControlTypeOK
      BY DEF Init, ControlInit, ControlTypeOK, Step, CycleResult, StopReason
<1>2. TypeOK BY <1>1 DEF Init, TypeOK
<1>3. \A c \in Controller : PageOf(c) BY DEF Init, ControlInit, PageOf
<1> QED BY <1>2, <1>3 DEF PageInv

LEMMA NextPageInv ==
    ASSUME PageInv, [Next]_vars
    PROVE  PageInv'
<1>1. TypeOK /\ ControlTypeOK BY DEF PageInv, TypeOK
<1>2. CASE UNCHANGED vars
  <2>1. cancelled' \in [Controller -> BOOLEAN]
        BY <1>1, <1>2 DEF vars, controlVars, ControlTypeOK
  <2> QED BY <1>2, <2>1, TokenKeepsPage DEF vars, controlVars
<1>3. CASE CacheWrites BY <1>3, CacheKeepsPage
<1>4. ASSUME NEW c \in Controller, Cancel(c), UNCHANGED pageVars PROVE PageInv'
  <2>1. cancelled' \in [Controller -> BOOLEAN] BY <1>1, <1>4 DEF Cancel, ControlTypeOK
  <2> QED BY <1>4, <2>1, TokenKeepsPage DEF Cancel
<1>5. ASSUME NEW c \in Controller, ControllerStep(c) PROVE PageInv'
  <2>1. CASE New(c) BY <2>1, NewKeepsPage
  <2>2. CASE LoopStep(c) BY <2>2, LoopStepKeepsPage
  <2>3. CASE AdapterStep(c)
        BY <2>3, ValidateKeepsPage, PrepareKeepsPage, ActuateKeepsPage,
           VerifyKeepsPage, CommitKeepsPage, RestoreKeepsPage, ReadKeepsPage
        DEF AdapterStep
  <2> QED BY <1>5, <2>1, <2>2, <2>3 DEF ControllerStep
<1> QED BY <1>2, <1>3, <1>4, <1>5 DEF Next

(* A prepared adapter has a binding and lasts as long as its transaction;  *)
(* what a controller wrote and nobody wrote over is what it believes.      *)
THEOREM PageInvariance == Spec => []PageInv
<1>1. Init => PageInv BY InitPageInv
<1>2. PageInv /\ [Next]_vars => PageInv' BY NextPageInv
<1> QED BY <1>1, <1>2, PTL DEF Spec

(* Every variable of the page and of its loops keeps its type.             *)
THEOREM PageTypeCorrect == Spec => []TypeOK
<1>1. PageInv => TypeOK BY DEF PageInv
<1> QED BY <1>1, PageInvariance, PTL

(* A cycle that nobody wrote into is all or nothing: its commit left the   *)
(* target and its acknowledged rollback the source.                        *)
THEOREM UndisturbedCyclesAreAtomic == Spec => []UndisturbedIsAtomic
<1>1. PageInv => UndisturbedIsAtomic BY DEF PageInv, PageOf, UndisturbedIsAtomic
<1> QED BY <1>1, PageInvariance, PTL

-----------------------------------------------------------------------------
(* The storage.  Its backend compares and applies under a token that the   *)
(* owner gives up only with its commit or its restoration, and that a      *)
(* writer takes away: an execution that still owns it finds the state it   *)
(* left, and one that does not has been written over.                      *)

Unfenced == {"idle", "read", "validate", "reread", "acquire"}
Written == {"observe", "verify", "commit", "rollback"}
Whole == Storage!Whole

(* What is left of an execution's effect, by where it is.                  *)
EffectOf(e) ==
    /\ call[e] \in Unfenced => token[e] = None /\ effect[e] = "none"
    /\ call[e] = "apply" => effect[e] = "none"
    /\ call[e] \in Written => effect[e] = "applied"
    /\ call[e] = "confirm" => effect[e] = "undone"
    /\ call[e] # "returned" => report[e] = "none"
    /\ report[e] = "committed" => effect[e] = "applied"
    /\ report[e] = "notAttempted" => effect[e] = "none"
    /\ report[e] = "restored" => effect[e] = "undone"

(* What it is bound to, and that a target can be derived from it.          *)
BoundTo(e) ==
    /\ call[e] \notin {"idle", "returned"} =>
          chosen[e] \in Storage!StorageCandidate /\ read[e] \in Storage!State
    /\ call[e] \notin {"idle", "read", "returned"} =>
          Storage!Derivable(chosen[e], read[e])

(* What its token is good for.                                             *)
FenceOf(e) ==
    /\ token[e] # None => token[e][1] = e
    /\ Storage!Owns(e) =>
          /\ call[e] \in Written \cup {"apply"} \/ report[e] = "notRestored"
          /\ read[e] \in Whole /\ read[e].generation <= state.generation
          /\ call[e] = "apply" => state = read[e]
    /\ writer = e /\ effect[e] = "applied" =>
          report[e] = "committed" \/ Storage!Owns(e)

Knows(e) == EffectOf(e) /\ BoundTo(e) /\ FenceOf(e)

(* A token is somebody's; without one the state is not half done.          *)
FenceInv ==
    /\ activeToken # None =>
          activeToken[1] \in Execution /\ token[activeToken[1]] = activeToken
    /\ activeToken = None => state \in Whole

StorageInv == Storage!TypeOK /\ FenceInv /\ \A e \in Execution : Knows(e)

(* A step of one execution: it keeps the types, and what the others have.  *)
Calls(e) ==
    /\ Storage!TypeOK'
    /\ \A d \in Execution \ {e} :
          /\ call'[d] = call[d] /\ chosen'[d] = chosen[d] /\ read'[d] = read[d]
          /\ token'[d] = token[d] /\ report'[d] = report[d] /\ effect'[d] = effect[d]

(* The others know what they knew, unless they lose the token.             *)
LEMMA OthersKnowTheStorage ==
    ASSUME StorageInv, NEW e \in Execution \cup {None}, Calls(e),
           NEW d \in Execution, d # e,
           \/ UNCHANGED <<state, activeToken, writer>>
           \/ ~Storage!Owns(d) /\ ~Storage!Owns(d)' /\ writer' \in {writer, e}
    PROVE  Knows(d)'
<1>1. /\ call'[d] = call[d] /\ chosen'[d] = chosen[d] /\ read'[d] = read[d]
      /\ token'[d] = token[d] /\ report'[d] = report[d] /\ effect'[d] = effect[d]
      BY DEF Calls
<1>2. EffectOf(d) /\ BoundTo(d) /\ FenceOf(d) BY DEF StorageInv, Knows
<1>3. EffectOf(d)' BY <1>1, <1>2 DEF EffectOf
<1>4. BoundTo(d)' BY <1>1, <1>2 DEF BoundTo, Storage!Derivable
<1>5. FenceOf(d)'
  <2>1. CASE UNCHANGED <<state, activeToken, writer>>
        BY <1>1, <1>2, <2>1 DEF FenceOf, Storage!Owns, Whole, Storage!Whole, Storage!State
  <2>2. CASE ~Storage!Owns(d) /\ ~Storage!Owns(d)' /\ writer' \in {writer, e}
        BY <1>1, <1>2, <2>2 DEF FenceOf
  <2> QED BY <2>1, <2>2
<1> QED BY <1>3, <1>4, <1>5 DEF Knows

(* Only one execution owns the token.                                      *)
LEMMA OneOwner ==
    ASSUME StorageInv, NEW e \in Execution, NEW d \in Execution, d # e, Storage!Owns(e)
    PROVE  ~Storage!Owns(d) /\ activeToken # None
BY DEF StorageInv, Knows, FenceOf, Storage!Owns

(* A step that leaves the backend alone, and where it leads.               *)
LEMMA QuietCall ==
    ASSUME StorageInv, NEW e \in Execution, Calls(e),
           UNCHANGED <<state, activeToken, nextSequence, writer, effect, token>>,
           EffectOf(e)', BoundTo(e)', call'[e] # "apply", read'[e] = read[e],
           Storage!Owns(e) =>
              call'[e] \in Written \/ report'[e] = "notRestored",
           report[e] = "committed" => report'[e] = "committed"
    PROVE  StorageInv'
<1>1. FenceOf(e)'
  <2>1. FenceOf(e) BY DEF StorageInv, Knows
  <2> QED BY <2>1 DEF FenceOf, Storage!Owns, Whole, Storage!Whole, Storage!State
<1>2. FenceInv' BY DEF StorageInv, FenceInv, Whole, Storage!Whole, Storage!State
<1>3. ASSUME NEW d \in Execution, d # e PROVE Knows(d)'
      BY <1>3, OthersKnowTheStorage
<1> QED BY <1>1, <1>2, <1>3 DEF StorageInv, Knows, Calls

(* The four places a call that writes nothing leads to.                    *)
LEMMA ProceedQuietly ==
    ASSUME StorageInv, NEW e \in Execution,
           NEW s \in {"validate", "reread", "acquire", "verify", "commit"},
           Storage!Proceed(e, s), UNCHANGED <<Storage!Bindings, token>>,
           Storage!NoEffect,
           \/ call[e] \in {"read", "validate", "reread"}
                 /\ s \in {"validate", "reread", "acquire"}
           \/ call[e] \in {"observe", "verify"} /\ s \in {"verify", "commit"},
           Storage!Derivable(chosen[e], read[e])
    PROVE  StorageInv'
<1>1. Storage!TypeOK /\ Knows(e) BY DEF StorageInv
<1>2. UNCHANGED <<state, activeToken, nextSequence, writer, effect, token, chosen, read,
                  stage, report>>
      BY DEF Storage!Proceed, Storage!NoEffect, Storage!backendVars, Storage!Bindings
<1>3. call' = [call EXCEPT ![e] = s] BY DEF Storage!Proceed, Storage!Goto
<1>4. call'[e] = s /\ Calls(e) BY <1>1, <1>2, <1>3 DEF Storage!TypeOK, Calls, Storage!Call
<1>5. EffectOf(e)' BY <1>1, <1>2, <1>4 DEF Knows, EffectOf, Unfenced, Written
<1>6. BoundTo(e)' BY <1>1, <1>2, <1>4 DEF Knows, BoundTo, Storage!Derivable
<1>7. Storage!Owns(e) => call'[e] \in Written
      BY <1>1, <1>4 DEF Knows, EffectOf, Unfenced, Written, Storage!Owns
<1> QED BY <1>2, <1>4, <1>5, <1>6, <1>7, QuietCall

LEMMA FailQuietly ==
    ASSUME StorageInv, NEW e \in Execution, NEW w \in Storage!Stage, Storage!Fail(e, w),
           UNCHANGED <<Storage!Bindings, token>>, Storage!NoEffect,
           call[e] \in Unfenced \cup {"apply"}, ~Storage!Owns(e)
    PROVE  StorageInv'
<1>1. Storage!TypeOK /\ Knows(e) BY DEF StorageInv
<1>2. UNCHANGED <<state, activeToken, nextSequence, writer, effect, token, chosen, read>>
      BY DEF Storage!NoEffect, Storage!backendVars, Storage!Bindings
<1>3. /\ call' = [call EXCEPT ![e] = "returned"]
      /\ stage' = [stage EXCEPT ![e] = w]
      /\ report' = [report EXCEPT ![e] = "notAttempted"]
      BY DEF Storage!Fail, Storage!Goto
<1>4. /\ call'[e] = "returned" /\ report'[e] = "notAttempted" /\ Calls(e)
      BY <1>1, <1>2, <1>3 DEF Storage!TypeOK, Calls, Storage!Call, Storage!Report
<1>5. EffectOf(e)' BY <1>1, <1>2, <1>4 DEF Knows, EffectOf, Unfenced, Written
<1>6. BoundTo(e)' BY <1>4 DEF BoundTo
<1>7. report[e] # "committed" BY <1>1 DEF Knows, EffectOf, Unfenced
<1> QED BY <1>2, <1>4, <1>5, <1>6, <1>7, QuietCall

LEMMA RollBackQuietly ==
    ASSUME StorageInv, NEW e \in Execution, NEW w \in Storage!Stage, Storage!RollBack(e, w),
           UNCHANGED <<Storage!Bindings, token>>, Storage!NoEffect, call[e] \in Written
    PROVE  StorageInv'
<1>1. Storage!TypeOK /\ Knows(e) BY DEF StorageInv
<1>2. UNCHANGED <<state, activeToken, nextSequence, writer, effect, token, chosen, read,
                  report>>
      BY DEF Storage!NoEffect, Storage!backendVars, Storage!Bindings, Storage!RollBack
<1>3. call' = [call EXCEPT ![e] = "rollback"] /\ stage' = [stage EXCEPT ![e] = w]
      BY DEF Storage!RollBack, Storage!Goto
<1>4. call'[e] = "rollback" /\ Calls(e)
      BY <1>1, <1>2, <1>3 DEF Storage!TypeOK, Calls, Storage!Call
<1>5. EffectOf(e)' BY <1>1, <1>2, <1>4 DEF Knows, EffectOf, Unfenced, Written
<1>6. BoundTo(e)' BY <1>1, <1>2, <1>4 DEF Knows, BoundTo, Storage!Derivable, Written
<1> QED BY <1>2, <1>4, <1>5, <1>6, QuietCall DEF Written

LEMMA AnswerQuietly ==
    ASSUME StorageInv, NEW e \in Execution, NEW how \in {"restored", "notRestored"},
           Storage!Goto(e, "returned"), report' = [report EXCEPT ![e] = how],
           UNCHANGED <<stage, Storage!Bindings, token>>, Storage!NoEffect,
           call[e] \in {"rollback", "confirm"},
           how = "restored" => call[e] = "confirm"
    PROVE  StorageInv'
<1>1. Storage!TypeOK /\ Knows(e) BY DEF StorageInv
<1>2. UNCHANGED <<state, activeToken, nextSequence, writer, effect, token, chosen, read>>
      BY DEF Storage!NoEffect, Storage!backendVars, Storage!Bindings
<1>3. call' = [call EXCEPT ![e] = "returned"] BY DEF Storage!Goto
<1>4. /\ call'[e] = "returned" /\ report'[e] = how /\ Calls(e)
      BY <1>1, <1>2, <1>3 DEF Storage!TypeOK, Calls, Storage!Call, Storage!Report
<1>5. EffectOf(e)' BY <1>1, <1>2, <1>4 DEF Knows, EffectOf, Unfenced, Written
<1>6. BoundTo(e)' BY <1>4 DEF BoundTo
<1>7. report[e] = "none" BY <1>1 DEF Knows, EffectOf
<1>8. how = "restored" => ~Storage!Owns(e)
      BY <1>1, <1>7 DEF Knows, FenceOf, Written
<1> QED BY <1>2, <1>4, <1>5, <1>6, <1>7, <1>8, QuietCall

(* What can be derived from a whole state is whole, and not older.         *)
LEMMA DerivedIsWhole ==
    ASSUME NEW c \in Storage!StorageCandidate, NEW s \in Whole, Storage!Derivable(c, s)
    PROVE  /\ Storage!Derived(c, s) \in Whole
           /\ s.generation <= Storage!Derived(c, s).generation
           /\ \/ Storage!Derived(c, s) = s
              \/ s.generation < Storage!Derived(c, s).generation
<1>1. /\ s.generation \in 0 .. MaxGeneration /\ MaxGeneration \in Nat
      /\ c.id \in StateId /\ Partial \notin StateId /\ c.keep \in BOOLEAN
      BY SurfaceAssumption
      DEF Storage!StorageCandidate, Whole, Storage!Whole, Storage!State,
          Storage!StorageAssumption
<1>2. CASE c.keep BY <1>1, <1>2 DEF Storage!Derived
<1>3. CASE ~c.keep
  <2>1. s.generation < MaxGeneration BY <1>3 DEF Storage!Derivable
  <2>2. s.generation + 1 \in 0 .. MaxGeneration BY <1>1, <2>1
  <2>3. Storage!Derived(c, s) = [generation |-> s.generation + 1, id |-> c.id]
        BY <1>3 DEF Storage!Derived
  <2>4. Storage!Derived(c, s) \in Whole
        BY <1>1, <2>2, <2>3 DEF Whole, Storage!Whole, Storage!State
  <2> QED BY <1>1, <2>3, <2>4
<1> QED BY <1>1, <1>2, <1>3

(* The calls that lead up to the token.                                    *)
LEMMA BindInv ==
    ASSUME StorageInv, NEW e \in Execution, Storage!Bind(e)
    PROVE  StorageInv'
<1>1. Storage!TypeOK /\ Knows(e) BY DEF StorageInv
<1>2. /\ call[e] = "idle" /\ read' = [read EXCEPT ![e] = state]
      /\ UNCHANGED <<state, activeToken, nextSequence, writer, effect, token, stage, report>>
      /\ call' = [call EXCEPT ![e] = "read"]
      BY DEF Storage!Bind, Storage!Proceed, Storage!Goto, Storage!NoEffect,
             Storage!backendVars
<1>3. PICK c \in Storage!StorageCandidate : chosen' = [chosen EXCEPT ![e] = c]
      BY DEF Storage!Bind
<1>4. Calls(e) /\ call'[e] = "read" /\ chosen'[e] = c /\ read'[e] = state
      BY <1>1, <1>2, <1>3 DEF Storage!TypeOK, Calls, Storage!Call
<1>5. EffectOf(e)' BY <1>1, <1>2, <1>4 DEF Knows, EffectOf, Unfenced, Written
<1>6. BoundTo(e)' BY <1>1, <1>4 DEF BoundTo, Storage!TypeOK
<1>7. token'[e] = None /\ effect'[e] = "none"
      BY <1>1, <1>2 DEF Knows, EffectOf, Unfenced
<1>8. FenceOf(e)' BY <1>7 DEF FenceOf, Storage!Owns
<1>9. FenceInv' BY <1>2 DEF StorageInv, FenceInv, Whole, Storage!Whole, Storage!State
<1>10. ASSUME NEW d \in Execution, d # e PROVE Knows(d)'
      BY <1>2, <1>4, <1>10, OthersKnowTheStorage
<1> QED BY <1>4, <1>5, <1>6, <1>8, <1>9, <1>10 DEF StorageInv, Knows, Calls

LEMMA ReadingInv ==
    ASSUME StorageInv, NEW e \in Execution,
           Storage!ReadSource(e) \/ Storage!ValidateAction(e) \/ Storage!ReadAgain(e)
    PROVE  StorageInv'
<1>1. Knows(e) BY DEF StorageInv
<1>2. /\ call[e] \in {"read", "validate", "reread"}
      /\ UNCHANGED <<Storage!Bindings, token>> /\ Storage!NoEffect
      BY DEF Storage!ReadSource, Storage!ValidateAction, Storage!ReadAgain
<1>3. ~Storage!Owns(e) BY <1>1, <1>2 DEF Knows, EffectOf, Unfenced, Storage!Owns
<1>4. ASSUME NEW w \in {"Bind", "Validate"}, Storage!Fail(e, w) PROVE StorageInv'
      BY <1>2, <1>3, <1>4, FailQuietly DEF Storage!Stage, Unfenced
<1>5. ASSUME NEW s \in {"validate", "reread", "acquire"}, Storage!Proceed(e, s),
             Storage!Derivable(chosen[e], read[e])
      PROVE  StorageInv'
      BY <1>2, <1>5, ProceedQuietly
<1>6. call[e] \in {"validate", "reread"} => Storage!Derivable(chosen[e], read[e])
      BY <1>1 DEF Knows, BoundTo
<1> QED BY <1>4, <1>5, <1>6
        DEF Storage!ReadSource, Storage!ValidateAction, Storage!ReadAgain, Storage!OrFail

(* The token is issued for the state that was read, while nobody has one.  *)
LEMMA AcquireInv ==
    ASSUME StorageInv, NEW e \in Execution, Storage!AcquireTransaction(e)
    PROVE  StorageInv'
<1>1. Storage!TypeOK /\ Knows(e) /\ FenceInv BY DEF StorageInv
<1>2. call[e] = "acquire" /\ UNCHANGED <<state, writer, effect, chosen, read>>
      BY DEF Storage!AcquireTransaction, Storage!Bindings
<1>3. CASE Storage!Fail(e, "Act") /\ UNCHANGED <<activeToken, nextSequence, token>>
  <2>1. ~Storage!Owns(e) BY <1>1, <1>2 DEF Knows, EffectOf, Unfenced, Storage!Owns
  <2>2. UNCHANGED <<Storage!Bindings, token>> /\ Storage!NoEffect
        BY <1>2, <1>3 DEF Storage!Bindings, Storage!NoEffect, Storage!backendVars
  <2> QED BY <1>2, <1>3, <2>1, <2>2, FailQuietly DEF Storage!Stage, Unfenced
<1>4. CASE /\ Storage!Acquirable(e) /\ activeToken' = <<e, nextSequence>>
           /\ token' = [token EXCEPT ![e] = <<e, nextSequence>>]
           /\ nextSequence' = nextSequence + 1 /\ Storage!Proceed(e, "apply")
  <2> DEFINE mine == <<e, nextSequence>>
  <2>1. /\ state = read[e] /\ activeToken = None /\ nextSequence < MaxSequence
        BY <1>4 DEF Storage!Acquirable
  <2>2. /\ nextSequence \in 0 .. MaxSequence /\ nextSequence' \in 0 .. MaxSequence
        /\ None \notin Execution \X (0 .. MaxSequence)
        BY <1>1, <1>4, <2>1, SurfaceAssumption
        DEF Storage!TypeOK, Storage!StorageAssumption
  <2>3. mine \in Execution \X (0 .. MaxSequence) /\ mine # None /\ mine[1] = e
        BY <2>2
  <2>4. call' = [call EXCEPT ![e] = "apply"] /\ UNCHANGED <<stage, report>>
        BY <1>4 DEF Storage!Proceed, Storage!Goto
  <2>5. activeToken' = mine /\ token' = [token EXCEPT ![e] = mine] BY <1>4
  <2> HIDE DEF mine
  <2>6. Calls(e) /\ call'[e] = "apply" /\ token'[e] = mine
        BY <1>1, <1>2, <2>2, <2>3, <2>4, <2>5 DEF Storage!TypeOK, Calls, Storage!Call
  <2>7. EffectOf(e)'
        BY <1>1, <1>2, <2>4, <2>6 DEF Knows, EffectOf, Unfenced, Written
  <2>8. BoundTo(e)' BY <1>1, <1>2, <2>6 DEF Knows, BoundTo, Storage!Derivable
  <2>9. FenceOf(e)'
    <3>1. read[e] \in Whole /\ read[e] = state BY <1>1, <2>1 DEF FenceInv
    <3>2. state.generation <= state.generation
      <4>1. state.generation \in 0 .. MaxGeneration BY <1>1 DEF Storage!TypeOK, Storage!State
      <4> QED BY <4>1
    <3>3. effect[e] = "none" BY <1>1, <1>2 DEF Knows, EffectOf, Unfenced
    <3> QED BY <1>2, <2>3, <2>6, <3>1, <3>2, <3>3
            DEF FenceOf, Whole, Storage!Whole, Storage!State
  <2>10. FenceInv' BY <2>3, <2>5, <2>6 DEF FenceInv
  <2>11. ASSUME NEW d \in Execution, d # e PROVE Knows(d)'
    <3>1. ~Storage!Owns(d) BY <2>1 DEF Storage!Owns
    <3>2. token'[d] = token[d] /\ (token[d] # None => token[d][1] = d)
          BY <2>6, <2>11 DEF Calls, StorageInv, Knows, FenceOf
    <3>3. ~Storage!Owns(d)' BY <2>3, <2>5, <2>11, <3>2 DEF Storage!Owns
    <3> QED BY <1>2, <2>6, <2>11, <3>1, <3>3, OthersKnowTheStorage
  <2> QED BY <2>6, <2>7, <2>8, <2>9, <2>10, <2>11 DEF StorageInv, Knows, Calls
<1> QED BY <1>3, <1>4 DEF Storage!AcquireTransaction

(* A mutation by the owner, in whole or in part.                           *)
LEMMA MutateInv ==
    ASSUME StorageInv, NEW e \in Execution, call[e] = "apply", Storage!Owns(e),
           NEW s \in Storage!State, read[e].generation <= s.generation,
           Storage!Mutate(e, s),
           Storage!Proceed(e, "observe") \/ Storage!RollBack(e, "Act"),
           UNCHANGED <<activeToken, nextSequence, token, Storage!Bindings>>
    PROVE  StorageInv'
<1>1. Storage!TypeOK /\ Knows(e) /\ FenceInv BY DEF StorageInv
<1>2. /\ state' = s /\ writer' = e /\ effect' = [effect EXCEPT ![e] = "applied"]
      /\ UNCHANGED <<activeToken, nextSequence, token, chosen, read>>
      BY DEF Storage!Mutate, Storage!Bindings
<1>3. PICK where \in {"observe", "rollback"} :
         call' = [call EXCEPT ![e] = where] /\ UNCHANGED report
      BY DEF Storage!Proceed, Storage!RollBack, Storage!Goto
<1>4. stage' \in [Execution -> Storage!Stage \cup {None}]
      BY <1>1 DEF Storage!Proceed, Storage!RollBack, Storage!TypeOK, Storage!Stage
<1>5. Calls(e) /\ call'[e] = where /\ effect'[e] = "applied"
      BY <1>1, <1>2, <1>3, <1>4 DEF Storage!TypeOK, Calls, Storage!Call
<1>6. report[e] = "none" BY <1>1 DEF Knows, EffectOf
<1>7. EffectOf(e)' BY <1>3, <1>5, <1>6 DEF EffectOf, Unfenced, Written
<1>8. BoundTo(e)' BY <1>1, <1>2, <1>5 DEF Knows, BoundTo, Storage!Derivable
<1>9. Storage!Owns(e)' BY <1>2 DEF Storage!Owns
<1>10. FenceOf(e)'
  <2>1. read[e] \in Whole BY <1>1 DEF Knows, FenceOf
  <2>2. read'[e] \in Whole /\ read'[e].generation <= state'.generation
        BY <1>2, <2>1
  <2>3. token'[e] # None => token'[e][1] = e BY <1>1, <1>2 DEF Knows, FenceOf
  <2> QED BY <1>5, <1>9, <2>2, <2>3
          DEF FenceOf, Whole, Storage!Whole, Storage!State, Written
<1>11. FenceInv' BY <1>1, <1>2 DEF FenceInv, Storage!Owns
<1>12. ASSUME NEW d \in Execution, d # e PROVE Knows(d)'
  <2>1. ~Storage!Owns(d) BY <1>12, OneOwner
  <2>2. ~Storage!Owns(d)' BY <1>2, <2>1 DEF Storage!Owns
  <2> QED BY <1>2, <1>5, <1>12, <2>1, <2>2, OthersKnowTheStorage
<1> QED BY <1>5, <1>7, <1>8, <1>10, <1>11, <1>12 DEF StorageInv, Knows, Calls

(* An owner finds the state it read: what it is refused, it does not own.  *)
LEMMA ApplyInv ==
    ASSUME StorageInv, NEW e \in Execution, Storage!ApplyIfSource(e)
    PROVE  StorageInv'
<1>1. Storage!TypeOK /\ Knows(e) /\ FenceInv BY DEF StorageInv
<1>2. call[e] = "apply" /\ UNCHANGED <<nextSequence, token, Storage!Bindings>>
      BY DEF Storage!ApplyIfSource
<1>3. /\ chosen[e] \in Storage!StorageCandidate /\ read[e] \in Storage!State
      /\ Storage!Derivable(chosen[e], read[e])
      BY <1>1, <1>2 DEF Knows, BoundTo
<1>4. Storage!Owns(e) => state = read[e] /\ read[e] \in Whole
      BY <1>1, <1>2 DEF Knows, FenceOf
<1>5. CASE /\ Storage!Owns(e) /\ Storage!Mutate(e, Storage!Target(e))
           /\ Storage!Proceed(e, "observe") \/ Storage!RollBack(e, "Act")
           /\ UNCHANGED activeToken
  <2>1. Storage!Target(e) \in Whole /\ read[e].generation <= Storage!Target(e).generation
        BY <1>3, <1>4, <1>5, DerivedIsWhole DEF Storage!Target
  <2>2. Storage!Target(e) \in Storage!State BY <2>1 DEF Whole, Storage!Whole
  <2> QED BY <1>2, <1>5, <2>1, <2>2, MutateInv
<1>6. CASE /\ Storage!Owns(e) /\ read[e].generation < MaxGeneration
           /\ Storage!Mutate(e, [generation |-> read[e].generation + 1, id |-> Partial])
           /\ Storage!RollBack(e, "Act") /\ UNCHANGED activeToken
  <2> DEFINE s == [generation |-> read[e].generation + 1, id |-> Partial]
  <2>1. read[e].generation \in 0 .. MaxGeneration /\ MaxGeneration \in Nat
        BY <1>3, SurfaceAssumption DEF Storage!State, Storage!StorageAssumption
  <2>2. s \in Storage!State /\ read[e].generation <= s.generation
        BY <1>6, <2>1 DEF Storage!State
  <2>3. Storage!Mutate(e, s) BY <1>6
  <2> HIDE DEF s
  <2> QED BY <1>2, <1>6, <2>2, <2>3, MutateInv
<1>7. CASE /\ ~Storage!Owns(e) /\ UNCHANGED activeToken
           /\ Storage!Fail(e, "Act") /\ UNCHANGED <<state, writer, effect>>
  <2>1. Storage!NoEffect BY <1>2, <1>7 DEF Storage!NoEffect, Storage!backendVars
  <2> QED BY <1>2, <1>7, <2>1, FailQuietly DEF Storage!Stage
<1> QED BY <1>4, <1>5, <1>6, <1>7 DEF Storage!ApplyIfSource

LEMMA CheckingInv ==
    ASSUME StorageInv, NEW e \in Execution,
           Storage!ObserveTarget(e) \/ Storage!VerifyAction(e)
    PROVE  StorageInv'
<1>1. Knows(e) BY DEF StorageInv
<1>2. /\ call[e] \in {"observe", "verify"}
      /\ UNCHANGED <<Storage!Bindings, token>> /\ Storage!NoEffect
      BY DEF Storage!ObserveTarget, Storage!VerifyAction
<1>3. Storage!Derivable(chosen[e], read[e]) BY <1>1, <1>2 DEF Knows, BoundTo
<1>4. CASE Storage!RollBack(e, "Verify")
      BY <1>2, <1>4, RollBackQuietly DEF Storage!Stage, Written
<1>5. ASSUME NEW s \in {"verify", "commit"}, Storage!Proceed(e, s) PROVE StorageInv'
      BY <1>2, <1>3, <1>5, ProceedQuietly
<1> QED BY <1>4, <1>5
        DEF Storage!ObserveTarget, Storage!VerifyAction, Storage!OrRollBack

(* The end of a token: the state is the whole target, or the whole source  *)
(* again.                                                                  *)
LEMMA ReleaseInv ==
    ASSUME StorageInv, NEW e \in Execution, Storage!Owns(e), activeToken' = None,
           state' \in Whole, writer' \in {writer, e},
           UNCHANGED <<nextSequence, token, chosen, read>>, Calls(e),
           EffectOf(e)', BoundTo(e)',
           writer' = e /\ effect'[e] = "applied" => report'[e] = "committed"
    PROVE  StorageInv'
<1>1. token[e] # None => token[e][1] = e BY DEF StorageInv, Knows, FenceOf
<1>2. ~Storage!Owns(e)' BY DEF Storage!Owns
<1>3. FenceOf(e)' BY <1>1, <1>2 DEF FenceOf
<1>4. FenceInv' BY DEF FenceInv, Whole, Storage!Whole, Storage!State
<1>5. ASSUME NEW d \in Execution, d # e PROVE Knows(d)'
  <2>1. ~Storage!Owns(d) BY <1>5, OneOwner
  <2>2. ~Storage!Owns(d)' BY DEF Storage!Owns
  <2> QED BY <1>5, <2>1, <2>2, OthersKnowTheStorage
<1> QED BY <1>3, <1>4, <1>5 DEF StorageInv, Knows, Calls

LEMMA CommitInv ==
    ASSUME StorageInv, NEW e \in Execution, Storage!CommitAction(e)
    PROVE  StorageInv'
<1>1. Storage!TypeOK /\ Knows(e) BY DEF StorageInv
<1>2. call[e] = "commit"
      /\ UNCHANGED <<state, nextSequence, writer, effect, token, chosen, read>>
      BY DEF Storage!CommitAction, Storage!Bindings
<1>3. CASE Storage!RollBack(e, "Commit") /\ UNCHANGED activeToken
  <2>1. Storage!NoEffect /\ UNCHANGED <<Storage!Bindings, token>>
        BY <1>2, <1>3 DEF Storage!NoEffect, Storage!backendVars, Storage!Bindings
  <2> QED BY <1>2, <1>3, <2>1, RollBackQuietly DEF Storage!Stage, Written
<1>4. CASE /\ Storage!Owns(e) /\ state = Storage!Target(e) /\ activeToken' = None
           /\ Storage!Goto(e, "returned") /\ report' = [report EXCEPT ![e] = "committed"]
           /\ UNCHANGED stage
  <2>1. call' = [call EXCEPT ![e] = "returned"] BY <1>4 DEF Storage!Goto
  <2>2. Calls(e) /\ call'[e] = "returned" /\ report'[e] = "committed"
        BY <1>1, <1>2, <1>4, <2>1
        DEF Storage!TypeOK, Calls, Storage!Call, Storage!Report
  <2>3. EffectOf(e)' BY <1>1, <1>2, <2>2 DEF Knows, EffectOf, Unfenced, Written
  <2>4. BoundTo(e)' BY <2>2 DEF BoundTo
  <2>5. /\ chosen[e] \in Storage!StorageCandidate /\ read[e] \in Whole
        /\ Storage!Derivable(chosen[e], read[e])
        BY <1>1, <1>2, <1>4 DEF Knows, BoundTo, FenceOf
  <2>6. state' \in Whole BY <1>2, <1>4, <2>5, DerivedIsWhole DEF Storage!Target
  <2> QED BY <1>2, <1>4, <2>2, <2>3, <2>4, <2>6, ReleaseInv
<1> QED BY <1>3, <1>4 DEF Storage!CommitAction

LEMMA RollbackInv ==
    ASSUME StorageInv, NEW e \in Execution, Storage!RollbackIfOwned(e)
    PROVE  StorageInv'
<1>1. Storage!TypeOK /\ Knows(e) BY DEF StorageInv
<1>2. call[e] = "rollback" /\ UNCHANGED <<nextSequence, token, stage, chosen, read>>
      BY DEF Storage!RollbackIfOwned, Storage!Bindings
<1>3. CASE Storage!GiveUp(e) /\ UNCHANGED <<state, writer, effect, activeToken>>
  <2>1. Storage!NoEffect /\ UNCHANGED <<stage, Storage!Bindings, token>>
        BY <1>2, <1>3 DEF Storage!NoEffect, Storage!backendVars, Storage!Bindings
  <2> QED BY <1>2, <1>3, <2>1, AnswerQuietly DEF Storage!GiveUp
<1>4. CASE /\ Storage!Owns(e) /\ state' = read[e] /\ writer' = e
           /\ effect' = [effect EXCEPT ![e] = "undone"] /\ activeToken' = None
           /\ Storage!Goto(e, "confirm") /\ UNCHANGED report
  <2>1. call' = [call EXCEPT ![e] = "confirm"] BY <1>4 DEF Storage!Goto
  <2>2. read[e] \in Whole BY <1>1, <1>4 DEF Knows, FenceOf
  <2>3. read[e] \in Storage!State BY <2>2 DEF Whole, Storage!Whole
  <2>4. Calls(e) /\ call'[e] = "confirm" /\ effect'[e] = "undone"
        BY <1>1, <1>2, <1>4, <2>1, <2>3 DEF Storage!TypeOK, Calls, Storage!Call
  <2>5. EffectOf(e)'
        BY <1>1, <1>2, <1>4, <2>4 DEF Knows, EffectOf, Unfenced, Written
  <2>6. BoundTo(e)' BY <1>1, <1>2, <2>4 DEF Knows, BoundTo, Storage!Derivable
  <2> QED BY <1>2, <1>4, <2>2, <2>4, <2>5, <2>6, ReleaseInv
<1> QED BY <1>3, <1>4 DEF Storage!RollbackIfOwned

LEMMA ConfirmInv ==
    ASSUME StorageInv, NEW e \in Execution, Storage!ConfirmRestored(e)
    PROVE  StorageInv'
<1>1. /\ call[e] = "confirm" /\ Storage!NoEffect
      /\ UNCHANGED <<stage, Storage!Bindings, token>>
      BY DEF Storage!ConfirmRestored
<1>2. Storage!Goto(e, "returned") BY DEF Storage!ConfirmRestored, Storage!GiveUp
<1>3. PICK how \in {"restored", "notRestored"} : report' = [report EXCEPT ![e] = how]
      BY DEF Storage!ConfirmRestored, Storage!GiveUp
<1> QED BY <1>1, <1>2, <1>3, AnswerQuietly

(* A writer takes the token away before it replaces the state.             *)
LEMMA WriterInv ==
    ASSUME StorageInv, Storage!WriterReplaces
    PROVE  StorageInv'
<1>1. Storage!TypeOK BY DEF StorageInv
<1>2. /\ writer' = None /\ activeToken' = None
      /\ UNCHANGED <<nextSequence, call, chosen, read, token, stage, report, effect>>
      BY DEF Storage!WriterReplaces
<1>3. PICK id \in StateId : state' = [generation |-> state.generation + 1, id |-> id]
      BY DEF Storage!WriterReplaces
<1>4. state' \in Whole
  <2>1. /\ state.generation \in 0 .. MaxGeneration /\ MaxGeneration \in Nat
        /\ state.generation < MaxGeneration /\ Partial \notin StateId
        BY <1>1, SurfaceAssumption
        DEF Storage!WriterReplaces, Storage!TypeOK, Storage!State, Storage!StorageAssumption
  <2>2. state.generation + 1 \in 0 .. MaxGeneration BY <2>1
  <2> QED BY <1>3, <2>1, <2>2 DEF Whole, Storage!Whole, Storage!State
<1>5. Storage!TypeOK' BY <1>1, <1>2, <1>4 DEF Storage!TypeOK, Whole, Storage!Whole
<1>6. FenceInv' BY <1>2, <1>4 DEF FenceInv, Whole, Storage!Whole, Storage!State
<1>7. ASSUME NEW d \in Execution PROVE Knows(d)'
  <2>1. d # None BY SurfaceAssumption DEF Storage!StorageAssumption
  <2>2. EffectOf(d) /\ BoundTo(d) /\ FenceOf(d) BY DEF StorageInv, Knows
  <2>3. EffectOf(d)' BY <1>2, <2>2 DEF EffectOf
  <2>4. BoundTo(d)' BY <1>2, <2>2 DEF BoundTo, Storage!Derivable
  <2>5. ~Storage!Owns(d)' BY <1>2 DEF Storage!Owns
  <2>6. FenceOf(d)' BY <1>2, <2>1, <2>2, <2>5 DEF FenceOf
  <2> QED BY <2>3, <2>4, <2>6 DEF Knows
<1> QED BY <1>5, <1>6, <1>7 DEF StorageInv

-----------------------------------------------------------------------------
(* The invariant of the storage, and its evidence.                         *)

LEMMA StorageInit ==
    ASSUME Storage!Init
    PROVE  StorageInv
<1>1. Storage!TypeOK
      BY SurfaceAssumption
      DEF Storage!Init, Storage!TypeOK, Storage!StorageAssumption, Storage!Call,
          Storage!Report
<1>2. FenceInv BY DEF Storage!Init, FenceInv, Whole, Storage!Whole
<1>3. \A e \in Execution : Knows(e)
      BY DEF Storage!Init, Knows, EffectOf, BoundTo, FenceOf, Storage!Owns, Unfenced,
             Written
<1> QED BY <1>1, <1>2, <1>3 DEF StorageInv

LEMMA StorageStep ==
    ASSUME StorageInv, [Storage!Next]_(Storage!vars)
    PROVE  StorageInv'
<1>1. CASE UNCHANGED Storage!vars
  <2>1. UNCHANGED <<state, activeToken, nextSequence, call, chosen, read, token, stage,
                    report, writer, effect>>
        BY <1>1 DEF Storage!vars, Storage!backendVars
  <2>2. Storage!TypeOK' BY <2>1 DEF StorageInv, Storage!TypeOK
  <2>3. FenceInv' BY <2>1 DEF StorageInv, FenceInv, Whole, Storage!Whole, Storage!State
  <2>4. Calls(None) BY <2>1, <2>2 DEF Calls
  <2>5. ASSUME NEW d \in Execution PROVE Knows(d)'
    <3>1. d # None BY SurfaceAssumption DEF Storage!StorageAssumption
    <3> QED BY <2>1, <2>4, <3>1, OthersKnowTheStorage
  <2> QED BY <2>2, <2>3, <2>5 DEF StorageInv
<1>2. CASE Storage!WriterReplaces BY <1>2, WriterInv
<1>3. ASSUME NEW e \in Execution, Storage!Execute(e) PROVE StorageInv'
      BY <1>3, BindInv, ReadingInv, AcquireInv, ApplyInv, CheckingInv, CommitInv,
         RollbackInv, ConfirmInv
      DEF Storage!Execute
<1> QED BY <1>1, <1>2, <1>3 DEF Storage!Next

(* An execution that owns the token finds the state it left, and what is   *)
(* left of its effect is told by where it is.                              *)
THEOREM StorageInvariance == Storage!Spec => []StorageInv
<1>1. Storage!Init => StorageInv BY StorageInit
<1>2. StorageInv /\ [Storage!Next]_(Storage!vars) => StorageInv' BY StorageStep
<1> QED BY <1>1, <1>2, PTL DEF Storage!Spec

(* The evidence an execution returns is true, and an effect that nothing   *)
(* fences any more was committed.                                          *)
THEOREM StorageEvidence == Storage!Spec => []EvidenceIsTrue
<1>1. StorageInv => EvidenceIsTrue
  <2>1. SUFFICES ASSUME StorageInv, NEW e \in Execution
                 PROVE  /\ activeToken = None /\ writer = e /\ effect[e] = "applied"
                              => report[e] = "committed"
                        /\ report[e] = "committed" => effect[e] = "applied"
                        /\ report[e] = "notAttempted" => effect[e] = "none"
                        /\ report[e] = "restored" => effect[e] = "undone"
        BY DEF EvidenceIsTrue, Storage!EvidenceIsTrue
  <2> QED BY <2>1 DEF StorageInv, Knows, EffectOf, FenceOf, Storage!Owns
<1> QED BY <1>1, StorageInvariance, PTL

-----------------------------------------------------------------------------
(* The storage implements VersionedState.                                  *)

Visible == Storage!Authoritative

(* A step that changes neither the state nor the token, nor what its owner *)
(* has read, is not seen.                                                  *)
LEMMA Unseen ==
    ASSUME StorageInv, UNCHANGED <<state, activeToken>>,
           NEW e, \A d \in Execution \ {e} : read'[d] = read[d],
           e \in Execution => ~Storage!Owns(e) \/ read'[e] = read[e]
    PROVE  Visible' = Visible
<1>1. CASE activeToken = None BY <1>1 DEF Visible, Storage!Authoritative
<1>2. CASE activeToken # None
  <2>1. activeToken[1] \in Execution /\ Storage!Owns(activeToken[1])
        BY <1>2 DEF StorageInv, FenceInv, Storage!Owns
  <2>2. read'[activeToken[1]] = read[activeToken[1]] BY <2>1
  <2> QED BY <1>2, <2>2 DEF Visible, Storage!Authoritative
<1> QED BY <1>1, <1>2

(* What the owner of the token read is what is visible.                    *)
LEMMA OwnerSees ==
    ASSUME StorageInv, NEW e \in Execution, Storage!Owns(e)
    PROVE  Visible = read[e] /\ read[e] \in Whole /\ activeToken # None
BY DEF StorageInv, Knows, FenceOf, Storage!Owns, Visible, Storage!Authoritative

(* What is visible is a whole state, and never a later one than there is.  *)
LEMMA VisibleIsWhole ==
    ASSUME StorageInv
    PROVE  Visible \in Whole /\ Visible.generation <= state.generation
<1>1. CASE activeToken = None
  <2>1. state \in Whole /\ Visible = state
        BY <1>1 DEF StorageInv, FenceInv, Visible, Storage!Authoritative
  <2>2. state.generation \in 0 .. MaxGeneration
        BY DEF StorageInv, Storage!TypeOK, Storage!State
  <2> QED BY <2>1, <2>2
<1>2. CASE activeToken # None
  <2>1. PICK e \in Execution : Storage!Owns(e)
        BY <1>2 DEF StorageInv, FenceInv, Storage!Owns
  <2>2. read[e].generation <= state.generation BY <2>1 DEF StorageInv, Knows, FenceOf
  <2> QED BY <2>1, <2>2, OwnerSees
<1> QED BY <1>1, <1>2

Publishes == \E v \in Whole : v.generation > Visible.generation /\ Visible' = v

(* Only a commit and a writer are seen.                                    *)
LEMMA ExecuteRefines ==
    ASSUME StorageInv, NEW e \in Execution, Storage!Execute(e)
    PROVE  Visible' = Visible \/ Publishes
<1>1. Knows(e) BY DEF StorageInv
<1>2. CASE Storage!Bind(e)
  <2>1. UNCHANGED <<state, activeToken>> /\ ~Storage!Owns(e)
        BY <1>1, <1>2
        DEF Storage!Bind, Storage!NoEffect, Storage!backendVars, Knows, EffectOf,
            Unfenced, Storage!Owns
  <2>2. \A d \in Execution \ {e} : read'[d] = read[d]
        BY <1>2 DEF Storage!Bind, StorageInv, Storage!TypeOK
  <2> QED BY <2>1, <2>2, Unseen
<1>3. CASE UNCHANGED <<state, activeToken, read>> BY <1>3, Unseen
<1>4. CASE Storage!AcquireTransaction(e)
  <2>1. CASE UNCHANGED activeToken BY <1>3, <1>4, <2>1 DEF Storage!AcquireTransaction, Storage!Bindings
  <2>2. CASE Storage!Acquirable(e) /\ activeToken' = <<e, nextSequence>>
    <3>1. state = read[e] /\ activeToken = None /\ read' = read
          BY <1>4, <2>2 DEF Storage!Acquirable, Storage!AcquireTransaction, Storage!Bindings
    <3>2. activeToken' # None /\ activeToken'[1] = e
      <4>1. nextSequence \in 0 .. MaxSequence /\ None \notin Execution \X (0 .. MaxSequence)
            BY SurfaceAssumption DEF StorageInv, Storage!TypeOK, Storage!StorageAssumption
      <4>2. <<e, nextSequence>> \in Execution \X (0 .. MaxSequence) BY <4>1
      <4> QED BY <2>2, <4>1, <4>2
    <3> QED BY <3>1, <3>2 DEF Visible, Storage!Authoritative
  <2> QED BY <1>4, <2>1, <2>2 DEF Storage!AcquireTransaction
<1>5. CASE Storage!ApplyIfSource(e)
  <2>1. call[e] = "apply" /\ UNCHANGED <<token, read>>
        BY <1>5 DEF Storage!ApplyIfSource, Storage!Bindings
  <2>2. UNCHANGED activeToken
        BY <1>1, <1>5, <2>1 DEF Storage!ApplyIfSource, Knows, FenceOf
  <2>3. CASE Storage!Owns(e)
    <3>1. activeToken # None BY <2>3, OwnerSees
    <3> QED BY <2>1, <2>2, <3>1 DEF Visible, Storage!Authoritative
  <2>4. CASE ~Storage!Owns(e)
    <3>1. UNCHANGED state BY <1>5, <2>4 DEF Storage!ApplyIfSource
    <3> QED BY <1>3, <2>1, <2>2, <3>1
  <2> QED BY <2>3, <2>4
<1>6. CASE Storage!CommitAction(e)
  <2>1. CASE UNCHANGED activeToken BY <1>3, <1>6, <2>1 DEF Storage!CommitAction, Storage!Bindings
  <2>2. CASE Storage!Owns(e) /\ state = Storage!Target(e) /\ activeToken' = None
    <3>1. Visible = read[e] /\ read[e] \in Whole BY <2>2, OwnerSees
    <3>2. Visible' = Storage!Target(e)
          BY <1>6, <2>2 DEF Visible, Storage!Authoritative, Storage!CommitAction
    <3>3. /\ chosen[e] \in Storage!StorageCandidate
          /\ Storage!Derivable(chosen[e], read[e])
          BY <1>1, <1>6 DEF Knows, BoundTo, Storage!CommitAction
    <3>4. /\ Storage!Target(e) \in Whole
          /\ \/ Storage!Target(e) = read[e]
             \/ read[e].generation < Storage!Target(e).generation
          BY <3>1, <3>3, DerivedIsWhole DEF Storage!Target
    <3>5. Visible.generation \in Nat /\ Storage!Target(e).generation \in Nat
          BY <3>1, <3>4 DEF Whole, Storage!Whole, Storage!State
    <3> QED BY <3>1, <3>2, <3>4, <3>5 DEF Publishes
  <2> QED BY <1>6, <2>1, <2>2 DEF Storage!CommitAction
<1>7. CASE Storage!RollbackIfOwned(e)
  <2>1. CASE UNCHANGED <<state, activeToken>>
        BY <1>3, <1>7, <2>1 DEF Storage!RollbackIfOwned, Storage!Bindings
  <2>2. CASE Storage!Owns(e) /\ state' = read[e] /\ activeToken' = None
    <3>1. Visible = read[e] BY <2>2, OwnerSees
    <3> QED BY <2>2, <3>1 DEF Visible, Storage!Authoritative
  <2> QED BY <1>7, <2>1, <2>2 DEF Storage!RollbackIfOwned
<1> QED BY <1>2, <1>3, <1>4, <1>5, <1>6, <1>7
    DEF Storage!Execute, Storage!ReadSource, Storage!ValidateAction, Storage!ReadAgain,
        Storage!ObserveTarget, Storage!VerifyAction, Storage!ConfirmRestored,
        Storage!NoEffect, Storage!backendVars, Storage!Bindings

LEMMA WriterRefines ==
    ASSUME StorageInv, Storage!WriterReplaces
    PROVE  Publishes
<1>1. PICK id \in StateId : state' = [generation |-> state.generation + 1, id |-> id]
      BY DEF Storage!WriterReplaces
<1>2. Visible' = state' BY DEF Storage!WriterReplaces, Visible, Storage!Authoritative
<1>3. state' \in Whole
  <2>1. StorageInv' BY WriterInv
  <2> QED BY <2>1 DEF StorageInv, FenceInv, Storage!WriterReplaces, Whole, Storage!Whole,
                       Storage!State
<1>4. Visible.generation <= state.generation /\ Visible.generation \in Nat
      BY VisibleIsWhole DEF Whole, Storage!Whole, Storage!State
<1>5. state.generation \in Nat BY DEF StorageInv, Storage!TypeOK, Storage!State
<1>6. state'.generation > Visible.generation BY <1>1, <1>4, <1>5
<1> QED BY <1>2, <1>3, <1>6 DEF Publishes

(* Whatever is tried, fails, is half done or is rolled back, what is       *)
(* authoritative only ever moves to a whole state of a later generation.   *)
THEOREM StorageRefinesVersionedState == Storage!Spec => ImplementsVersionedState
<1>1. Storage!Init => Storage!V!Init
      BY DEF Storage!Init, Storage!V!Init, Storage!Whole, Storage!Authoritative
<1>2. StorageInv /\ [Storage!Next]_(Storage!vars)
         => [Storage!V!Publish]_(Storage!Authoritative)
  <2>1. SUFFICES ASSUME StorageInv, [Storage!Next]_(Storage!vars)
                 PROVE  Visible' = Visible \/ Publishes
        BY DEF Publishes, Visible, Whole, Storage!V!Publish
  <2>2. CASE UNCHANGED Storage!vars
    <3>1. UNCHANGED <<state, activeToken, read>>
          BY <2>2 DEF Storage!vars, Storage!backendVars
    <3> QED BY <2>1, <3>1, Unseen
  <2> QED BY <2>1, <2>2, ExecuteRefines, WriterRefines DEF Storage!Next
<1> QED BY <1>1, <1>2, StorageInvariance, PTL
    DEF Storage!Spec, ImplementsVersionedState, Storage!ImplementsVersionedState,
        Storage!V!Spec

-----------------------------------------------------------------------------
(* The frontier of a view.                                                 *)

(* A transition that is pending starts where the frontier is.              *)
FrontierInv ==
    /\ committed \in Planning!State
    /\ pending # None => pending \in Planning!Transition /\ pending.from = committed

LEMMA FrontierStep ==
    ASSUME FrontierInv, [Planning!Next]_(Planning!planningVars)
    PROVE  FrontierInv'
<1>1. CASE UNCHANGED <<committed, pending>> BY <1>1 DEF FrontierInv
<1>2. CASE Planning!Propose
  <2>1. PICK m \in Planning!Mechanism, to \in Planning!State :
           pending' = [from |-> committed, to |-> to, mechanism |-> m]
        BY <1>2 DEF Planning!Propose
  <2>2. committed' = committed BY <1>2 DEF Planning!Propose
  <2> QED BY <2>1, <2>2 DEF FrontierInv, Planning!Transition
<1>3. CASE Planning!Commit
      BY <1>3 DEF Planning!Commit, FrontierInv, Planning!Transition
<1>4. CASE Planning!Rollback BY <1>4 DEF Planning!Rollback, FrontierInv
<1> QED BY <1>1, <1>2, <1>3, <1>4
    DEF Planning!Next, Planning!planningVars, Planning!Learn, Planning!Issue,
        Planning!ScreenPage, Planning!Migrate, Planning!PlanPage, Planning!BindPage

(* A transition that waits for its commit always starts where the frontier *)
(* is, and the frontier is one of the states of the page.                  *)
THEOREM FrontierInvariance == Planning!PlanningSpec => []FrontierInv
<1>1. Planning!Init => FrontierInv
  <2>1. SUFFICES ASSUME Planning!Init PROVE FrontierInv OBVIOUS
  <2>2. Declared \subseteq Contract /\ LastEpoch \in Nat
        BY SurfaceAssumption DEF Planning!RepresentationAssumption
  <2>3. 0 \in 0 .. LastEpoch BY <2>2
  <2> QED BY <2>1, <2>2, <2>3 DEF Planning!Init, FrontierInv, Planning!State
<1>2. FrontierInv /\ [Planning!Next]_(Planning!planningVars) => FrontierInv'
      BY FrontierStep
<1> QED BY <1>1, <1>2, PTL DEF Planning!PlanningSpec

(* What a move of the frontier rests on.                                   *)
Attested(ev) == ev.about.from = committed /\ ev.about.to = committed'

LEMMA MoveIsJustified ==
    ASSUME FrontierInv, [Planning!Next]_(Planning!planningVars), committed' # committed
    PROVE  /\ committed'.contract \in supported
           /\ committed'.epoch > committed.epoch
           /\ \/ /\ committed'.contract = committed.contract
                 /\ pending.mechanism = "reinterpret"
              \/ \E ev \in tokens : Attested(ev)
<1>1. Planning!Commit
      BY DEF Planning!Next, Planning!planningVars, Planning!Learn, Planning!Issue,
             Planning!ScreenPage, Planning!Migrate, Planning!PlanPage, Planning!BindPage,
             Planning!Propose, Planning!Rollback
<1>2. /\ pending \in Planning!Transition /\ pending.from = committed
      /\ committed' = pending.to
      /\ Planning!ValidTransition(pending, supported, Planning!FromEvidence(tokens, pending))
      BY <1>1 DEF Planning!Commit, FrontierInv
<1>3. pending.to \in Planning!State /\ committed \in Planning!State
      BY <1>2 DEF Planning!Transition, FrontierInv
<1>4. committed'.contract \in supported BY <1>2 DEF Planning!ValidTransition
<1>5. committed'.epoch > committed.epoch
  <2>1. committed'.epoch \in Nat /\ committed.epoch \in Nat
        /\ committed'.epoch >= committed.epoch
        BY <1>2, <1>3 DEF Planning!State, Planning!ValidTransition
  <2>2. committed'.epoch # committed.epoch
    <3>1. CASE Planning!MustAdvance(pending)
          BY <1>2, <3>1 DEF Planning!ValidTransition
    <3>2. CASE ~Planning!MustAdvance(pending)
      <4>1. committed'.contract = committed.contract BY <1>2, <3>2 DEF Planning!MustAdvance
      <4> QED BY <1>2, <1>3, <4>1 DEF Planning!State
    <3> QED BY <3>1, <3>2
  <2> QED BY <2>1, <2>2
<1>6. CASE pending.mechanism = "reinterpret" /\ pending.from.contract = pending.to.contract
      BY <1>2, <1>4, <1>5, <1>6
<1>7. CASE Planning!Claim[pending.mechanism] \in Planning!FromEvidence(tokens, pending)
  <2>1. PICK ev \in tokens : ev.about = pending
        BY <1>7 DEF Planning!FromEvidence
  <2>2. Attested(ev) BY <1>2, <2>1 DEF Attested
  <2> QED BY <1>4, <1>5, <2>2
<1> QED BY <1>2, <1>6, <1>7 DEF Planning!ValidTransition

(* The frontier moves only forward, to what the process can read, under    *)
(* evidence that was issued for this very transition.                      *)
THEOREM FrontierMovesAreJustified == Planning!PlanningSpec => FrontierIsJustified
<1>1. FrontierInv /\ [Planning!Next]_(Planning!planningVars)
         => [committed' # committed =>
               /\ committed'.contract \in supported
               /\ committed'.epoch > committed.epoch
               /\ \/ committed'.contract = committed.contract
                        /\ pending.mechanism = "reinterpret"
                  \/ \E ev \in tokens :
                        ev.about.from = committed /\ ev.about.to = committed'
            ]_(Planning!planningVars)
      BY MoveIsJustified DEF Attested
<1> QED BY <1>1, FrontierInvariance, PTL
    DEF Planning!PlanningSpec, FrontierIsJustified, Planning!FrontierIsJustified

-----------------------------------------------------------------------------
(* The planning of another representation.                                 *)

(* A set of numbers that is not empty has a least one.                     *)
LEMMA LeastExists ==
    ASSUME NEW T \in SUBSET Nat, T # {}
    PROVE  Planning!Min(T) \in T /\ \A j \in T : Planning!Min(T) <= j
<1>1. PICK i \in T : \A j \in T : ~ (<<j, i>> \in OpToRel(<, Nat))
      BY NatLessThanWellFounded, WFMin
<1>2. ASSUME NEW j \in T PROVE i <= j
  <2>1. i \in Nat /\ j \in Nat OBVIOUS
  <2>2. ~ (j < i) BY <1>1, <2>1 DEF OpToRel
  <2> QED BY <2>1, <2>2
<1> QED BY <1>1, <1>2 DEF Planning!Min

(* Candidates of different ranks can be put in their order: the place of   *)
(* each is told by how many are preferred to it.                           *)
LEMMA ArrangementExists ==
    ASSUME NEW S, NEW d \in Seq(S), \A i \in DOMAIN d : d[i].rank \in Nat,
           \A i, j \in DOMAIN d : i # j => d[i].rank # d[j].rank
    PROVE  \E s \in [DOMAIN d -> Planning!ToSet(d)] :
              \A i, j \in DOMAIN d : i < j => s[i].rank < s[j].rank
<1> DEFINE n == Len(d)
           D == 1 .. n
           Lower(i) == {j \in D : d[j].rank < d[i].rank}
           place == [i \in D |-> Cardinality(Lower(i)) + 1]
           at == [k \in D |-> CHOOSE i \in D : place[i] = k]
           s == [k \in D |-> d[at[k]]]
<1>1. n \in Nat /\ DOMAIN d = D OBVIOUS
<1>2. IsFiniteSet(D) /\ Cardinality(D) = n
  <2>1. IsFiniteSet(1 .. n) /\ Cardinality(1 .. n) = IF 1 <= n THEN n - 1 + 1 ELSE 0
        BY <1>1, FS_Interval
  <2> QED BY <1>1, <2>1
<1>3. ASSUME NEW i \in D
      PROVE  IsFiniteSet(Lower(i)) /\ Cardinality(Lower(i)) \in Nat /\ place[i] \in D
  <2>1. IsFiniteSet(D \ {i}) /\ Cardinality(D \ {i}) = n - 1
        BY <1>2, FS_RemoveElement
  <2>2. Lower(i) \subseteq D \ {i} BY <1>1
  <2>3. IsFiniteSet(Lower(i)) /\ Cardinality(Lower(i)) <= n - 1 BY <2>1, <2>2, FS_Subset
  <2>4. Cardinality(Lower(i)) \in Nat BY <2>3, FS_CardinalityType
  <2> QED BY <1>1, <2>3, <2>4
<1>4. ASSUME NEW i \in D, NEW k \in D, d[i].rank < d[k].rank PROVE place[i] < place[k]
  <2>1. i \in Lower(k) BY <1>4
  <2>2. Lower(i) \subseteq Lower(k) \ {i} BY <1>1, <1>4
  <2>3. /\ IsFiniteSet(Lower(k) \ {i})
        /\ Cardinality(Lower(k) \ {i}) = Cardinality(Lower(k)) - 1
        BY <1>3, <2>1, FS_RemoveElement
  <2>4. Cardinality(Lower(i)) <= Cardinality(Lower(k) \ {i}) BY <2>2, <2>3, FS_Subset
  <2>5. Cardinality(Lower(i)) \in Nat /\ Cardinality(Lower(k)) \in Nat BY <1>3
  <2> HIDE DEF Lower
  <2> QED BY <2>3, <2>4, <2>5
<1>5. ASSUME NEW i \in D, NEW k \in D, place[i] = place[k] PROVE i = k
  <2> HIDE DEF place
  <2>1. place[i] \in 1 .. n BY <1>3
  <2>2. place[i] \in Nat BY <1>1, <2>1
  <2>3. ~ (place[i] < place[k]) /\ ~ (place[k] < place[i]) BY <1>5, <2>2
  <2>4. ~ (d[i].rank < d[k].rank) /\ ~ (d[k].rank < d[i].rank) BY <1>4, <2>3
  <2>5. d[i].rank \in Nat /\ d[k].rank \in Nat BY <1>1
  <2>6. d[i].rank = d[k].rank BY <2>4, <2>5
  <2> QED BY <1>1, <2>6
<1>6. \A k \in D : \E i \in D : place[i] = k
  <2>1. place \in [D -> D] BY <1>3
  <2> HIDE DEF place, D
  <2>2. place \in Injection(D, D) BY <1>5, <2>1 DEF Injection, IsInjective
  <2>3. place \in Surjection(D, D) BY <1>2, <2>2, FS_Injection
  <2> QED BY <2>3 DEF Surjection
<1> HIDE DEF place
<1>7. \A k \in D : at[k] \in D /\ place[at[k]] = k BY <1>6
<1> HIDE DEF at
<1>8. s \in [DOMAIN d -> Planning!ToSet(d)] BY <1>1, <1>7 DEF Planning!ToSet
<1>9. ASSUME NEW i \in DOMAIN d, NEW j \in DOMAIN d, i < j PROVE s[i].rank < s[j].rank
  <2>1. at[i] \in D /\ at[j] \in D /\ at[i] # at[j] /\ ~ (place[at[j]] < place[at[i]])
        BY <1>1, <1>7, <1>9
  <2>2. d[at[i]].rank # d[at[j]].rank /\ ~ (d[at[j]].rank < d[at[i]].rank)
        BY <1>1, <1>4, <2>1
  <2>3. d[at[i]].rank \in Nat /\ d[at[j]].rank \in Nat BY <1>1, <2>1
  <2> QED BY <1>1, <1>9, <2>2, <2>3
<1> QED BY <1>8, <1>9

(* The candidates are in the order of their ranks.                         *)
SlateInv ==
    /\ slate \in Seq(Planning!ToSet(slate))
    /\ \A i \in DOMAIN slate : Planning!IsCandidate(slate[i])
    /\ \A i, j \in DOMAIN slate : i < j => slate[i].rank < slate[j].rank

(* Every page is in a state, and its plan goes from one to another.        *)
PlanInv ==
    /\ pages = [p \in PageId |-> pages[p]] /\ plans = [p \in PageId |-> plans[p]]
    /\ \A p \in PageId :
          /\ pages[p].representation \in Planning!State
          /\ plans[p] # None => plans[p].representation \in Planning!Transition

(* A report r, for which o was observed, tells of the candidates in their  *)
(* order, and of none after the first that was not refused.                *)
Told(r, o) ==
    LET judged == r.planning.evidence IN
    /\ \A i \in DOMAIN judged :
          /\ i \in DOMAIN slate /\ judged[i].candidate = slate[i]
          /\ judged[i].truth = IF judged[i].capable
                               THEN Planning!PrecisionTruth(o, slate[i].bits) ELSE "F"
    /\ \A i \in DOMAIN judged, j \in DOMAIN slate :
          j < i => j \in DOMAIN judged /\ judged[j].truth = "F"

ReportInv == screening # None => Told(screening, observed)

(* What was compared when the parts were bound, of which neither changes.  *)
BondInv ==
    bond # None =>
        /\ Told(bond.report, bound)
        /\ bond.plan.representation \in Planning!Transition
        /\ Planning!SameSource(bond.report.planning, bond.plan)
        /\ Planning!EvidenceStands(bond.candidate, bond.report.planning)
        /\ Planning!TargetStands(bond.candidate, bond.plan)

(* A view that keeps one representation.                                   *)
WholeInv ==
    ~perPage => \A p, q \in PageId : pages[p].representation = pages[q].representation

PlanningInv == SlateInv /\ PlanInv /\ ReportInv /\ BondInv /\ WholeInv

(* Drafts are sorted, and pages begin in the committed state.              *)
LEMMA PlanningInit == ASSUME Planning!Init PROVE PlanningInv
<1>1. /\ Planning!RepresentationAssumption
      /\ committed \in [contract : Declared, epoch : {0}]
      BY SurfaceAssumption DEF Planning!Init
<1>2. SlateInv
  <2>1. PICK d \in Drafts : slate = Planning!Preplanner(d) /\ slate # None
        BY DEF Planning!Init
  <2>2. /\ d \in Seq(Planning!ToSet(d))
        /\ \A c \in Planning!ToSet(d) : Planning!IsCandidate(c)
        BY <1>1 DEF Planning!RepresentationAssumption
  <2>3. \A i \in DOMAIN d : d[i] \in Planning!ToSet(d) BY DEF Planning!ToSet
  <2>4. \A i \in DOMAIN d : d[i].rank \in Nat BY <2>2, <2>3 DEF Planning!IsCandidate
  <2>5. /\ \A i, j \in DOMAIN d : i # j => d[i].rank # d[j].rank
        /\ slate = CHOOSE s \in [DOMAIN d -> Planning!ToSet(d)] :
                      \A i, j \in DOMAIN d : i < j => s[i].rank < s[j].rank
        BY <2>1 DEF Planning!Preplanner
  <2>6. /\ slate \in [DOMAIN d -> Planning!ToSet(d)]
        /\ \A i, j \in DOMAIN d : i < j => slate[i].rank < slate[j].rank
        BY <2>2, <2>4, <2>5, ArrangementExists
  <2>7. DOMAIN slate = DOMAIN d /\ DOMAIN d = 1 .. Len(d) /\ Len(d) \in Nat BY <2>2, <2>6
  <2>8. slate \in [1 .. Len(d) -> Planning!ToSet(slate)] BY <2>6, <2>7 DEF Planning!ToSet
  <2>9. slate \in Seq(Planning!ToSet(slate)) BY <2>7, <2>8
  <2> QED BY <2>2, <2>6, <2>7, <2>9 DEF SlateInv
<1>3. committed \in Planning!State
  <2>1. Declared \subseteq Contract /\ 0 \in 0 .. LastEpoch
        BY <1>1 DEF Planning!RepresentationAssumption
  <2> QED BY <1>1, <2>1 DEF Planning!State
<1>4. PlanInv BY <1>3 DEF Planning!Init, PlanInv
<1> QED BY <1>2, <1>4 DEF Planning!Init, PlanningInv, ReportInv, BondInv, WholeInv

(* A screening tells of the candidates up to the first that is not refused.*)
LEMMA ScreenTells ==
    ASSUME SlateInv, NEW current, NEW r
    PROVE  Told(Planning!WithTraces(Planning!Screen(current, r)), r)
<1> DEFINE judged == [i \in DOMAIN slate |-> Planning!Evidence(slate[i], current, r)]
           last == Planning!StopAt(judged)
           stands == {i \in DOMAIN judged : judged[i].truth # "F"}
           evidence == IF last = 0 THEN judged ELSE SubSeq(judged, 1, last)
<1>1. /\ DOMAIN slate = 1 .. Len(slate) /\ Len(slate) \in Nat
      /\ DOMAIN judged = DOMAIN slate
      BY DEF SlateInv
<1>2. ASSUME NEW i \in DOMAIN slate
      PROVE  /\ judged[i].candidate = slate[i]
             /\ judged[i].truth = IF judged[i].capable
                                  THEN Planning!PrecisionTruth(r, slate[i].bits) ELSE "F"
      BY <1>2 DEF Planning!Evidence
<1>3. Planning!WithTraces(Planning!Screen(current, r)).planning.evidence = evidence
      BY DEF Planning!WithTraces, Planning!Screen
<1> HIDE DEF judged
<1>4. CASE last = 0
  <2>1. stands = {}
    <3>1. SUFFICES ASSUME stands # {} PROVE FALSE OBVIOUS
    <3>2. stands \in SUBSET Nat BY <1>1
    <3>3. last \in stands BY <3>1, <3>2, LeastExists DEF Planning!StopAt
    <3> QED BY <1>1, <1>4, <3>3
  <2>2. evidence = judged BY <1>4
  <2>3. \A i \in DOMAIN judged : judged[i].truth = "F" BY <2>1
  <2> QED BY <1>1, <1>2, <1>3, <2>2, <2>3 DEF Told
<1>5. CASE last # 0
  <2>1. stands # {} BY <1>5 DEF Planning!StopAt
  <2>2. stands \in SUBSET Nat BY <1>1
  <2>3. last \in stands /\ \A j \in stands : last <= j
        BY <2>1, <2>2, LeastExists DEF Planning!StopAt
  <2>4. last \in 1 .. Len(slate) BY <1>1, <2>3
  <2> HIDE DEF last
  <2>5. evidence = [i \in 1 .. last |-> judged[i]] BY <1>1, <1>5, <2>4
  <2> HIDE DEF evidence
  <2>6. DOMAIN evidence = 1 .. last /\ \A i \in 1 .. last : evidence[i] = judged[i] BY <2>5
  <2>7. \A i \in 1 .. last : i \in DOMAIN slate BY <1>1, <2>4
  <2>8. ASSUME NEW i \in 1 .. last, NEW j \in DOMAIN slate, j < i
        PROVE  j \in 1 .. last /\ judged[j].truth = "F"
    <3>1. i \in Nat /\ j \in Nat /\ last \in Nat /\ i <= last /\ 1 <= j BY <1>1, <2>4
    <3>2. j \notin stands BY <2>3, <2>8, <3>1
    <3> QED BY <1>1, <2>8, <3>1, <3>2
  <2> QED BY <1>2, <1>3, <2>6, <2>7, <2>8 DEF Told
<1> QED BY <1>4, <1>5

(* A declared target is a state.                                           *)
LEMMA DeclaredIsAState ==
    ASSUME NEW from \in Planning!State, NEW contract, NEW mechanism,
           Planning!DeclaredTarget(from, contract, mechanism) # None
    PROVE  /\ Planning!DeclaredTarget(from, contract, mechanism) \in Planning!State
           /\ mechanism \in Planning!Mechanism
<1>1. /\ contract \in Declared /\ Declared \subseteq Contract
      /\ mechanism \in Admitted /\ Admitted \subseteq Planning!Mechanism
      /\ LastEpoch \in Nat
      BY SurfaceAssumption DEF Planning!RepresentationAssumption, Planning!DeclaredTarget
<1>2. /\ from.contract \in Contract /\ from.epoch \in 0 .. LastEpoch
      BY DEF Planning!State
<1>3. from.epoch # LastEpoch => from.epoch + 1 \in 0 .. LastEpoch BY <1>1, <1>2
<1> QED BY <1>1, <1>2, <1>3
    DEF Planning!DeclaredTarget, Planning!DeriveTarget, Planning!State

(* The plan of a page is a transition to a state.                          *)
LEMMA PlanPageInv ==
    ASSUME PlanningInv, NEW p \in PageId, Planning!PlanPage(p)
    PROVE  PlanningInv'
<1>1. PICK t \in Planning!Offered(pages[p].representation) : \E plan :
         /\ plan # None /\ plan.representation = t
         /\ plans' = [plans EXCEPT ![p] = plan]
      BY DEF Planning!PlanPage, Planning!Preflight, Planning!KvPlan
<1>2. /\ pages[p].representation \in Planning!State
      /\ plans = [q \in PageId |-> plans[q]]
      BY DEF PlanningInv, PlanInv
<1>3. t \in Planning!Transition
  <2>1. CASE t \in [from : {pages[p].representation}, to : Planning!State, mechanism : Admitted]
    <3>1. Admitted \subseteq Planning!Mechanism
          BY SurfaceAssumption DEF Planning!RepresentationAssumption
    <3> QED BY <1>2, <2>1, <3>1 DEF Planning!Transition
  <2>2. CASE /\ t = Planning!SelectedTransition(pages[p].representation, screening.planning)
             /\ t # None
    <3>1. PICK c : /\ Planning!DeclaredTarget(pages[p].representation, c.target, c.mechanism) # None
                   /\ t = [from |-> pages[p].representation,
                           to |-> Planning!DeclaredTarget(
                                     pages[p].representation, c.target, c.mechanism),
                           mechanism |-> c.mechanism]
          BY <2>2 DEF Planning!SelectedTransition
    <3> QED BY <1>2, <3>1, DeclaredIsAState DEF Planning!Transition
  <2> QED BY <2>1, <2>2 DEF Planning!Offered
<1>4. PlanInv' BY <1>1, <1>2, <1>3 DEF PlanningInv, PlanInv, Planning!PlanPage
<1> QED BY <1>4
    DEF PlanningInv, SlateInv, ReportInv, BondInv, WholeInv, Told, Planning!PlanPage

(* A binding keeps what was compared.                                      *)
LEMMA BindPageInv ==
    ASSUME PlanningInv, NEW p \in PageId, Planning!BindPage(p)
    PROVE  PlanningInv'
<1>1. PICK c : /\ Planning!Bind(c, screening, plans[p]) # None
               /\ bond' = Planning!Bind(c, screening, plans[p])
      BY DEF Planning!BindPage
<1>2. /\ bond' = [candidate |-> c, report |-> screening, plan |-> plans[p]]
      /\ Planning!SameSource(screening.planning, plans[p])
      /\ Planning!EvidenceStands(c, screening.planning)
      /\ Planning!TargetStands(c, plans[p])
      BY <1>1 DEF Planning!Bind
<1>3. /\ Told(screening, observed) /\ plans[p].representation \in Planning!Transition
      /\ bound' = observed /\ UNCHANGED <<slate, screening, observed, plans, pages, perPage>>
      BY DEF PlanningInv, ReportInv, PlanInv, Planning!BindPage
<1>4. BondInv' BY <1>2, <1>3 DEF BondInv, Told, Planning!SameSource, Planning!EvidenceStands, Planning!TargetStands
<1> QED BY <1>3, <1>4 DEF PlanningInv, SlateInv, PlanInv, ReportInv, WholeInv, Told

(* A batch moves its pages to one state, and all of them where a view is   *)
(* read as one.                                                            *)
LEMMA MigrateInv == ASSUME PlanningInv, Planning!Migrate PROVE PlanningInv'
<1> DEFINE Batch(S) == {[page |-> p, plan |-> plans[p]] : p \in S}
<1>1. PICK S \in SUBSET {p \in PageId : plans[p] # None} :
         LET delta == Planning!EpochDelta(Batch(S))
         IN  /\ S # {} /\ (perPage \/ S = PageId) /\ delta # None
             /\ pages' = [p \in PageId |-> IF p \in delta.migrated
                   THEN [representation |-> plans[p].representation.to, keys |-> plans[p].keys]
                   ELSE pages[p]]
             /\ plans' = [p \in PageId |-> IF p \in S THEN None ELSE plans[p]]
      BY DEF Planning!Migrate
<1> DEFINE delta == Planning!EpochDelta(Batch(S))
<1>2. /\ Planning!AtomicBatch(Batch(S)) /\ delta.migrated = {b.page : b \in Batch(S)}
      BY <1>1 DEF Planning!EpochDelta
<1> HIDE DEF delta
<1>3. delta.migrated = S
  <2>1. \A b \in Batch(S) : b.page \in S OBVIOUS
  <2>2. ASSUME NEW p \in S PROVE \E b \in Batch(S) : b.page = p
    <3>1. [page |-> p, plan |-> plans[p]] \in Batch(S) OBVIOUS
    <3> QED BY <3>1
  <2> HIDE DEF Batch
  <2> QED BY <1>2, <2>1, <2>2
<1>4. ASSUME NEW p \in S, NEW q \in S
      PROVE  plans[p].representation.to = plans[q].representation.to
  <2> DEFINE b == [page |-> p, plan |-> plans[p]]
             c == [page |-> q, plan |-> plans[q]]
  <2>1. b \in Batch(S) /\ c \in Batch(S) OBVIOUS
  <2>2. b.plan = plans[p] /\ c.plan = plans[q] OBVIOUS
  <2> HIDE DEF b, c, Batch
  <2>3. b.plan.representation.to = c.plan.representation.to
        BY <1>2, <2>1 DEF Planning!AtomicBatch
  <2> QED BY <2>2, <2>3
<1>5. UNCHANGED <<slate, perPage, screening, observed, bond, bound>> BY DEF Planning!Migrate
<1>6. /\ S \subseteq PageId
      /\ \A p \in PageId : pages'[p] = IF p \in S
            THEN [representation |-> plans[p].representation.to, keys |-> plans[p].keys]
            ELSE pages[p]
      /\ plans' = [p \in PageId |-> IF p \in S THEN None ELSE plans[p]]
      BY <1>1, <1>3 DEF delta
<1> HIDE DEF Batch
<1>7. ASSUME NEW p \in S
      PROVE  /\ pages'[p].representation = plans[p].representation.to
             /\ plans'[p] = None
  <2>1. p \in PageId BY <1>6
  <2>2. pages'[p] = [representation |-> plans[p].representation.to, keys |-> plans[p].keys]
        BY <1>6, <2>1
  <2>3. plans'[p] = None BY <1>6, <2>1
  <2> QED BY <2>2, <2>3
<1>8. PlanInv'
  <2>1. pages' = [p \in PageId |-> pages'[p]] /\ plans' = [p \in PageId |-> plans'[p]]
        BY <1>1, <1>6
  <2>2. ASSUME NEW p \in PageId
        PROVE  /\ pages'[p].representation \in Planning!State
               /\ plans'[p] # None => plans'[p].representation \in Planning!Transition
    <3>1. CASE p \in S
      <4>1. plans[p].representation \in Planning!Transition
            BY <1>1, <3>1 DEF PlanningInv, PlanInv
      <4>2. plans[p].representation.to \in Planning!State
            BY <4>1 DEF Planning!Transition
      <4>3. pages'[p].representation = plans[p].representation.to /\ plans'[p] = None
            BY <1>7, <3>1
      <4> QED BY <4>2, <4>3
    <3>2. CASE p \notin S BY <1>6, <3>2 DEF PlanningInv, PlanInv
    <3> QED BY <3>1, <3>2
  <2> QED BY <2>1, <2>2 DEF PlanInv
<1>9. WholeInv'
  <2>1. CASE perPage BY <1>5, <2>1 DEF WholeInv
  <2>2. CASE S = PageId
    <3>1. \A p \in PageId : pages'[p].representation = plans[p].representation.to
          BY <1>7, <2>2
    <3> QED BY <1>4, <2>2, <3>1 DEF WholeInv
  <2> QED BY <1>1, <2>1, <2>2
<1> QED BY <1>5, <1>8, <1>9 DEF PlanningInv, SlateInv, ReportInv, BondInv, Told

(* Only these steps change what the invariant is about.                    *)
LEMMA PlanningStep ==
    ASSUME PlanningInv, [Planning!Next]_(Planning!planningVars)
    PROVE  PlanningInv'
<1>1. CASE UNCHANGED <<slate, perPage, screening, observed, pages, plans, bond, bound>>
      BY <1>1 DEF PlanningInv, SlateInv, PlanInv, ReportInv, BondInv, WholeInv, Told
<1>2. CASE Planning!ScreenPage
  <2>1. PICK current, r : /\ screening' = Planning!WithTraces(Planning!Screen(current, r))
                          /\ observed' = r
        BY <1>2 DEF Planning!ScreenPage
  <2>2. UNCHANGED <<slate, perPage, pages, plans, bond, bound>>
        BY <1>2 DEF Planning!ScreenPage
  <2>3. Told(screening', observed') BY <2>1, ScreenTells DEF PlanningInv
  <2> QED BY <2>2, <2>3 DEF PlanningInv, SlateInv, PlanInv, ReportInv, BondInv, WholeInv, Told
<1> QED BY <1>1, <1>2, PlanPageInv, BindPageInv, MigrateInv
    DEF Planning!Next, Planning!planningVars, Planning!Learn, Planning!Issue,
        Planning!Propose, Planning!Commit, Planning!Rollback

(* What the caller keeps of the planning, whatever it keeps and however    *)
(* long.                                                                   *)
THEOREM PlanningInvariance == Planning!PlanningSpec => []PlanningInv
<1>1. Planning!Init => PlanningInv BY PlanningInit
<1>2. PlanningInv /\ [Planning!Next]_(Planning!planningVars) => PlanningInv'
      BY PlanningStep
<1> QED BY <1>1, <1>2, PTL DEF Planning!PlanningSpec

(* A floor that was met was observed fresh, exact and positive; one that   *)
(* was not met is above what was declared.                                 *)
LEMMA FloorIsFresh ==
    ASSUME NEW r, NEW bits \in Nat, NEW fewer \in Nat,
           Planning!PrecisionTruth(r, bits) = "T"
    PROVE  /\ r.status = "valid" /\ r.age <= MaxAge
           /\ r.context = r.seen /\ r.seen \in 1 .. bits
           /\ Planning!PrecisionTruth(r, fewer) = "F" => fewer < r.seen
<1>1. MaxExact \in Nat /\ MaxAge \in Nat
      BY SurfaceAssumption DEF Planning!RepresentationAssumption
<1> DEFINE value == Planning!FreshValue(r)
<1>2. value # 0 /\ value # None /\ value <= bits /\ Planning!Floor(r) = value
      BY DEF Planning!PrecisionTruth, Planning!Floor
<1>3. /\ r.status = "valid" /\ r.age \in 0 .. MaxAge
      /\ r.context = r.seen /\ r.seen \in 0 .. MaxExact /\ value = r.seen
      BY <1>2 DEF Planning!FreshValue
<1> HIDE DEF value
<1>4. r.seen \in 1 .. bits BY <1>1, <1>2, <1>3
<1>5. Planning!PrecisionTruth(r, fewer) = "F" => ~ (r.seen <= fewer)
      BY <1>2, <1>3 DEF Planning!PrecisionTruth
<1> QED BY <1>1, <1>3, <1>4, <1>5

(* The target that a binding compares is the candidate's.                  *)
LEMMA TargetIsNamed ==
    ASSUME NEW c, Planning!IsCandidate(c), NEW plan,
           plan.representation \in Planning!Transition, Planning!TargetStands(c, plan)
    PROVE  /\ plan.representation.to.contract = c.target
           /\ plan.representation.mechanism = c.mechanism
<1> DEFINE t == plan.representation
<1>1. None \notin Planning!State /\ None \notin Contract
      BY SurfaceAssumption DEF Planning!RepresentationAssumption
<1>2. t.to \in Planning!State /\ c.target \in Contract
      BY DEF Planning!Transition, Planning!IsCandidate
<1>3. t.mechanism = c.mechanism /\ t.to = Planning!ExpectedTarget(c, t.from)
      BY DEF Planning!TargetStands
<1> HIDE DEF t
<1>4. t.to.contract = c.target
      BY <1>1, <1>2, <1>3 DEF Planning!ExpectedTarget, Planning!DeriveTarget
<1> QED BY <1>3, <1>4 DEF t

(* The parts of a binding belong together.                                 *)
LEMMA BondIsTrue == ASSUME PlanningInv PROVE Planning!BindingIsTrue
<1> DEFINE c == bond.candidate
           judged == bond.report.planning.evidence
<1>1. SUFFICES ASSUME bond # None
      PROVE  /\ bond.plan.representation.from = bond.report.planning.current
             /\ bond.plan.representation.to.contract = c.target
             /\ bond.plan.representation.mechanism = c.mechanism
             /\ bound.status = "valid" /\ bound.age <= MaxAge
             /\ bound.context = bound.seen /\ bound.seen \in 1 .. c.bits
             /\ \A d \in Planning!ToSet(slate) : d.rank < c.rank =>
                   \E i \in DOMAIN judged :
                      judged[i].candidate = d /\ (judged[i].capable => d.bits < bound.seen)
      BY DEF Planning!BindingIsTrue
<1>2. /\ Told(bond.report, bound)
      /\ bond.plan.representation \in Planning!Transition
      /\ Planning!SameSource(bond.report.planning, bond.plan)
      /\ Planning!TargetStands(c, bond.plan)
      BY <1>1 DEF PlanningInv, BondInv
<1>3. PICK i \in DOMAIN judged :
         judged[i] = [candidate |-> c, declared |-> TRUE, capable |-> TRUE, truth |-> "T"]
      BY <1>1 DEF PlanningInv, BondInv, Planning!EvidenceStands
<1>4. judged[i].candidate = c /\ judged[i].capable = TRUE /\ judged[i].truth = "T" BY <1>3
<1>5. i \in DOMAIN slate /\ slate[i] = c BY <1>2, <1>4 DEF Told
<1>6. Planning!PrecisionTruth(bound, c.bits) = "T" BY <1>2, <1>4, <1>5 DEF Told
<1>7. Planning!IsCandidate(c) BY <1>5 DEF PlanningInv, SlateInv
<1>8. c.bits \in Nat /\ c.rank \in Nat BY <1>7 DEF Planning!IsCandidate
<1>9. bond.plan.representation.from = bond.report.planning.current
      BY <1>2 DEF Planning!SameSource
<1>10. /\ bound.status = "valid" /\ bound.age <= MaxAge
       /\ bound.context = bound.seen /\ bound.seen \in 1 .. c.bits
       BY <1>6, <1>8, FloorIsFresh
<1>11. ASSUME NEW d \in Planning!ToSet(slate), d.rank < c.rank
       PROVE  \E k \in DOMAIN judged :
                 judged[k].candidate = d /\ (judged[k].capable => d.bits < bound.seen)
  <2>1. PICK k \in DOMAIN slate : d = slate[k] BY DEF Planning!ToSet
  <2>2. Planning!IsCandidate(d) BY <2>1 DEF PlanningInv, SlateInv
  <2>3. d.bits \in Nat /\ d.rank \in Nat BY <2>2 DEF Planning!IsCandidate
  <2>4. k < i
    <3>1. k \in Nat /\ i \in Nat
      <4>1. DOMAIN slate = 1 .. Len(slate) BY DEF PlanningInv, SlateInv
      <4> QED BY <1>5, <2>1, <4>1
    <3>2. k # i BY <1>5, <1>8, <1>11, <2>1, <2>3
    <3>3. ~ (i < k)
      <4>1. i < k => c.rank < d.rank BY <1>5, <2>1 DEF PlanningInv, SlateInv
      <4> QED BY <1>8, <1>11, <2>3, <4>1
    <3> QED BY <3>1, <3>2, <3>3
  <2>5. k \in DOMAIN judged /\ judged[k].truth = "F" BY <1>2, <2>1, <2>4 DEF Told
  <2>6. judged[k].candidate = d
        /\ (judged[k].capable => Planning!PrecisionTruth(bound, d.bits) = "F")
        BY <1>2, <2>1, <2>5 DEF Told
  <2> QED BY <1>6, <1>8, <2>3, <2>5, <2>6, FloorIsFresh
<1> QED BY <1>2, <1>7, <1>9, <1>10, <1>11, TargetIsNamed

(* A view of one representation is read as one, in whatever order.         *)
LEMMA ViewIsWhole == ASSUME PlanningInv PROVE Planning!ViewStaysWhole
<1>1. SUFFICES ASSUME ~perPage,
                      NEW order \in [1 .. Planning!Cardinality(PageId) -> PageId]
      PROVE  Planning!ViewProblem([i \in DOMAIN order |-> pages[order[i]]], FALSE)
                \notin {"MixedRepresentationContract", "MixedRepresentationEpoch"}
      BY DEF Planning!ViewStaysWhole
<1> DEFINE n == Cardinality(PageId)
           view == [i \in DOMAIN order |-> pages[order[i]]]
           first == view[1]
           Against(d) ==
               IF ~Planning!FitsPipeline(d.keys) THEN "pipeline"
               ELSE IF d.keys.scope = "queryDependent" THEN "query"
               ELSE IF FALSE THEN "none"
               ELSE IF d.representation.contract # first.representation.contract
                    THEN "MixedRepresentationContract"
               ELSE IF d.representation.epoch # first.representation.epoch
                    THEN "MixedRepresentationEpoch"
               ELSE IF d.keys.scope # first.keys.scope THEN "MixedKeyTransformScope"
               ELSE IF d.keys.pipeline # first.keys.pipeline
                    THEN "MixedKeyEncodingPipeline" ELSE "none"
           bad == {i \in DOMAIN view : Against(view[i]) # "none"}
<1>2. n \in Nat /\ order \in [1 .. n -> PageId]
  <2>1. IsFiniteSet(PageId)
        BY SurfaceAssumption
        DEF Planning!RepresentationAssumption, Planning!IsFiniteSet, IsFiniteSet
  <2>2. Planning!Cardinality(PageId) = Cardinality(PageId)
        BY DEF Planning!Cardinality, Cardinality
  <2> QED BY <1>1, <2>1, <2>2, FS_CardinalityType
<1>3. DOMAIN view = 1 .. n /\ \A i \in 1 .. n : order[i] \in PageId /\ view[i] = pages[order[i]]
      BY <1>2
<1>4. Planning!ViewProblem(view, FALSE) =
         IF view = <<>> THEN "EmptyAttentionView"
         ELSE IF bad = {} THEN "none" ELSE Against(view[Planning!Min(bad)])
      BY DEF Planning!ViewProblem
<1> HIDE DEF view, n
<1>5. CASE bad = {}
  <2> HIDE DEF bad
  <2>1. Planning!ViewProblem(view, FALSE) \in {"EmptyAttentionView", "none"} BY <1>4, <1>5
  <2> QED BY <2>1 DEF view
<1>6. CASE bad # {}
  <2> DEFINE k == Planning!Min(bad)
  <2>0. bad \subseteq DOMAIN view OBVIOUS
  <2> HIDE DEF bad
  <2>1. bad \in SUBSET Nat BY <1>2, <1>3, <2>0
  <2>2. k \in bad BY <1>6, <2>1, LeastExists
  <2> HIDE DEF k
  <2>3. k \in 1 .. n /\ 1 \in 1 .. n BY <1>2, <1>3, <2>0, <2>2
  <2>4. view[k].representation = first.representation
        BY <1>1, <1>3, <2>3 DEF PlanningInv, WholeInv
  <2>5. Against(view[k]) \notin {"MixedRepresentationContract", "MixedRepresentationEpoch"}
        BY <2>4
  <2> HIDE DEF Against
  <2>6. Planning!ViewProblem(view, FALSE) \in {"EmptyAttentionView", Against(view[k])}
        BY <1>4, <1>6 DEF k
  <2> QED BY <2>5, <2>6 DEF view
<1> QED BY <1>5, <1>6 DEF view

(* A screening is bound only to a plan, and a plan only to a candidate,    *)
(* that it is about; and a view that is read as one representation keeps   *)
(* one: whatever the caller keeps, presents or loses between two steps.    *)
THEOREM PlanningStaysTrue == Planning!PlanningSpec => []PlanningIsTrue
<1>1. PlanningInv => PlanningIsTrue BY BondIsTrue, ViewIsWhole DEF PlanningIsTrue
<1> QED BY <1>1, PlanningInvariance, PTL
=============================================================================

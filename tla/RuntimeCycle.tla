---------------------------- MODULE RuntimeCycle ----------------------------
(***************************************************************************)
(* The bounded control loop of elastic-runtime (runtime.rs): a controller  *)
(* repeats OBSERVE, PLAN, VALIDATE, PREPARE, ACT, VERIFY and COMMIT or     *)
(* ROLLBACK until its cycles are used up, its cancellation token is set or *)
(* a cycle returns an error.                                               *)
(*                                                                         *)
(* This module holds the control of the loop: where a controller is, and   *)
(* where the answer of each trusted actuator call sends it.  The modules   *)
(* that extend it say what the calls do to a resource; between two calls   *)
(* any other controller, and any user of the resource, may run.            *)
(***************************************************************************)
EXTENDS Naturals, TLAPS

CONSTANTS
    Controller,  \* control loops, each on a thread of its own
    Config,      \* Config[c]: the configurations c may be run with
    Candidate,   \* targets a planner may propose: planners are advisory
    None         \* no candidate

Mode == {"OneShot", "Periodic", "DryRun", "ObserveOnly", "PlanOnly", "Apply"}

ASSUME ConfigAssumption ==
    /\ Config \in [Controller ->
          SUBSET [mode : Mode, dryRun : BOOLEAN, periodic : BOOLEAN, limit : Nat]]
    /\ None \notin Candidate

VARIABLES
    config,     \* the configuration of each controller, fixed
    pc,         \* the next step of each controller
    target,     \* the candidate of the running cycle, or None
    cycles,     \* completed cycles
    result,     \* how the last cycle ended
    stop,       \* why the loop ended
    cancelled   \* the cancellation token of each loop

controlVars == <<config, pc, target, cycles, result, stop, cancelled>>

Step == {"start", "top", "observe", "validate", "prepare", "actuate",
         "verify", "commit", "rollback", "between", "stopped"}
CycleResult == {"none", "observed", "planned", "noCandidate", "rejected",
                "dryRun", "committed", "rolledBack", "error"}
StopReason == {"running", "configuration", "Cancelled", "OneShotCompleted",
               "MaxCyclesReached", "error"}

ControlTypeOK ==
    /\ \A c \in Controller : config[c] \in Config[c]
    /\ pc \in [Controller -> Step]
    /\ target \in [Controller -> Candidate \cup {None}]
    /\ cycles \in [Controller -> Nat]
    /\ result \in [Controller -> CycleResult]
    /\ stop \in [Controller -> StopReason]
    /\ cancelled \in [Controller -> BOOLEAN]

ControlInit ==
    /\ config \in {f \in [Controller -> UNION {Config[c] : c \in Controller}] :
                      \A c \in Controller : f[c] \in Config[c]}
    /\ pc = [c \in Controller |-> "start"]
    /\ target = [c \in Controller |-> None]
    /\ cycles = [c \in Controller |-> 0]
    /\ result = [c \in Controller |-> "none"]
    /\ stop = [c \in Controller |-> "running"]
    /\ cancelled = [c \in Controller |-> FALSE]

-----------------------------------------------------------------------------
(* Where a step sends its controller.                                      *)

Goto(c, step) ==
    /\ pc' = [pc EXCEPT ![c] = step]
    /\ UNCHANGED <<config, target, cycles, result, stop, cancelled>>

CompleteUncounted(c, how) ==    \* mutant: only a periodic run counts cycles
    /\ Goto(c, "between")

(* The cycle returns a result; the loop decides what comes next.           *)
CompleteCycle(c, how) ==
    /\ pc' = [pc EXCEPT ![c] = "between"]
    /\ cycles' = [cycles EXCEPT ![c] = @ + 1]
    /\ result' = [result EXCEPT ![c] = how]
    /\ target' = [target EXCEPT ![c] = None]
    /\ UNCHANGED <<config, stop, cancelled>>

Stop(c, reason) ==
    /\ pc' = [pc EXCEPT ![c] = "stopped"]
    /\ stop' = [stop EXCEPT ![c] = reason]
    /\ target' = [target EXCEPT ![c] = None]
    /\ UNCHANGED <<config, cycles, cancelled>>

(* An error of a trusted call ends the cycle, and with it the loop.        *)
CycleError(c) ==
    /\ Stop(c, "error")
    /\ result' = [result EXCEPT ![c] = "error"]

-----------------------------------------------------------------------------
(* The steps that concern no resource.                                     *)

(* loop_schedule: a periodic cadence, or the mode Periodic, makes a loop.  *)
Loops(c) == config[c].periodic \/ config[c].mode = "Periodic"
CycleLimit(c) == IF Loops(c) THEN config[c].limit ELSE 1

Start(c) ==
    /\ pc[c] = "start"
    /\ IF CycleLimit(c) = 0
       THEN Stop(c, "configuration") /\ UNCHANGED result
       ELSE Goto(c, "top")

(* The token is read before a cycle ...                                    *)
BeginCycle(c) ==
    /\ pc[c] = "top"
    /\ IF cancelled[c] THEN Stop(c, "Cancelled") /\ UNCHANGED result
                       ELSE Goto(c, "observe")

(* ... and after it; then the cycles are counted, and the loop sleeps.     *)
BetweenCycles(c) ==
    /\ pc[c] = "between"
    /\ \/ cancelled[c] /\ Stop(c, "Cancelled") /\ UNCHANGED result
       \/ /\ ~cancelled[c] /\ cycles[c] >= CycleLimit(c)
          /\ Stop(c, IF Loops(c) THEN "MaxCyclesReached" ELSE "OneShotCompleted")
          /\ UNCHANGED result
       \/ ~cancelled[c] /\ cycles[c] < CycleLimit(c) /\ Goto(c, "top")

(* Observation and planning change nothing: whatever the planner saw, its  *)
(* candidate is any target, or none.                                       *)
ObserveAndPlan(c) ==
    /\ pc[c] = "observe"
    /\ \/ config[c].mode = "ObserveOnly" /\ CompleteCycle(c, "observed")
       \/ config[c].mode = "PlanOnly" /\ CompleteCycle(c, "planned")
       \/ /\ config[c].mode \notin {"ObserveOnly", "PlanOnly"}
          /\ \/ CompleteCycle(c, "noCandidate")
             \/ \E t \in Candidate :
                   /\ pc' = [pc EXCEPT ![c] = "validate"]
                   /\ target' = [target EXCEPT ![c] = t]
                   /\ UNCHANGED <<config, cycles, result, stop, cancelled>>

(* Another thread raises the flag; a loop that has stopped ignores it.     *)
Cancel(c) ==
    /\ pc[c] # "stopped" /\ ~cancelled[c]
    /\ cancelled' = [cancelled EXCEPT ![c] = TRUE]
    /\ UNCHANGED <<config, pc, target, cycles, result, stop>>

-----------------------------------------------------------------------------
(* Where the answer of each actuator call leads.  validate_with_checks     *)
(* authorizes nothing unless every check is there and holds.               *)

DryRun(c) == config[c].dryRun \/ config[c].mode = "DryRun"

AfterValidate(c, answer) ==
    \/ answer = "error" /\ CycleError(c)
    \/ answer = "refused" /\ CompleteCycle(c, "rejected")
    \/ answer = "ok" /\ DryRun(c) /\ CompleteCycle(c, "dryRun")
    \/ answer = "ok" /\ ~DryRun(c) /\ Goto(c, "prepare")

AfterPrepare(c, answer) ==
    IF answer = "ok" THEN Goto(c, "actuate") ELSE CycleError(c)

(* A failed actuation may be partial: it is rolled back like one that did  *)
(* not verify.                                                             *)
AfterActuate(c, answer) == Goto(c, IF answer = "ok" THEN "verify" ELSE "rollback")
AfterVerify(c, answer) == Goto(c, IF answer = "ok" THEN "commit" ELSE "rollback")

AfterCommit(c, answer) ==
    IF answer = "ok" THEN CompleteCycle(c, "committed") ELSE Goto(c, "rollback")

(* require_restored_rollback: a rollback that restored nothing is an error.*)
AfterRollback(c, answer) ==
    IF answer = "ok" THEN CompleteCycle(c, "rolledBack") ELSE CycleError(c)

-----------------------------------------------------------------------------
(* What a step of the loop does to the control of all of them: it moves    *)
(* one, and either goes on in its cycle, or completes the cycle, or ends   *)
(* the run.  The proofs about the modules that extend this one rest on     *)
(* these facts and no longer look into the steps.                          *)

(* A step of the control keeps the types and moves one controller.         *)
Moves(c) ==
    /\ UNCHANGED config
    /\ \A d \in Controller \ {c} :
          /\ pc'[d] = pc[d] /\ target'[d] = target[d] /\ cycles'[d] = cycles[d]
          /\ result'[d] = result[d] /\ stop'[d] = stop[d]
    /\ ControlTypeOK'

Goes(c) ==
    Moves(c) /\ pc'[c] \notin {"between", "stopped"} /\ UNCHANGED <<cycles, stop>>
Completes(c, how) ==
    /\ Moves(c) /\ pc'[c] = "between" /\ UNCHANGED stop
    /\ cycles'[c] # cycles[c] /\ result'[c] = how
Ends(c) == Moves(c) /\ pc'[c] = "stopped" /\ UNCHANGED cycles

(* Goto moves one controller to a step, and keeps its target.              *)
LEMMA GotoMoves ==
    ASSUME ControlTypeOK, NEW c \in Controller, NEW s \in Step, Goto(c, s)
    PROVE  /\ Moves(c) /\ pc'[c] = s
           /\ UNCHANGED <<target, cycles, result, stop>>
<1>1. ControlTypeOK' BY DEF Goto, ControlTypeOK
<1> QED BY <1>1 DEF Moves, Goto, ControlTypeOK

(* Within a cycle it only goes on.                                         *)
LEMMA GotoGoes ==
    ASSUME ControlTypeOK, NEW c \in Controller,
           NEW s \in Step \ {"between", "stopped"}, Goto(c, s)
    PROVE  Goes(c) /\ pc'[c] = s /\ target' = target
BY GotoMoves DEF Goes

(* A planned target takes its controller to validation.                    *)
LEMMA PlanGoes ==
    ASSUME ControlTypeOK, NEW c \in Controller, NEW t \in Candidate,
           pc' = [pc EXCEPT ![c] = "validate"], target' = [target EXCEPT ![c] = t],
           UNCHANGED <<config, cycles, result, stop, cancelled>>
    PROVE  Goes(c) /\ pc'[c] = "validate" /\ target'[c] = t
<1>1. ControlTypeOK' BY DEF ControlTypeOK, Step
<1> QED BY <1>1 DEF Goes, Moves, ControlTypeOK

(* A completed cycle leaves its controller between two cycles.             *)
LEMMA CompleteMoves ==
    ASSUME ControlTypeOK, NEW c \in Controller, NEW how \in CycleResult,
           CompleteCycle(c, how)
    PROVE  Completes(c, how) /\ Moves(c) /\ pc'[c] = "between"
<1>1. ControlTypeOK' BY DEF CompleteCycle, ControlTypeOK, Step
<1>2. Moves(c) BY <1>1 DEF Moves, CompleteCycle, ControlTypeOK
<1>3. pc'[c] = "between" /\ result'[c] = how /\ UNCHANGED stop
      BY DEF CompleteCycle, ControlTypeOK
<1>4. cycles'[c] = cycles[c] + 1 /\ cycles[c] \in Nat
      BY DEF CompleteCycle, ControlTypeOK
<1> QED BY <1>2, <1>3, <1>4 DEF Completes

(* A loop that ends leaves its controller stopped.                         *)
LEMMA StopMoves ==
    ASSUME ControlTypeOK, NEW c \in Controller, NEW why \in StopReason, Stop(c, why),
           UNCHANGED result \/ result' = [result EXCEPT ![c] = "error"]
    PROVE  Ends(c) /\ Moves(c) /\ pc'[c] = "stopped" /\ stop'[c] = why
<1>1. ControlTypeOK' BY DEF Stop, ControlTypeOK, Step, CycleResult
<1> QED BY <1>1 DEF Ends, Moves, Stop, ControlTypeOK

(* An error of a cycle ends the loop.                                      *)
LEMMA ErrorMoves ==
    ASSUME ControlTypeOK, NEW c \in Controller, CycleError(c)
    PROVE  Ends(c) /\ Moves(c) /\ pc'[c] = "stopped" /\ stop'[c] = "error"
<1>1. "error" \in StopReason BY DEF StopReason
<1> QED BY <1>1, StopMoves DEF CycleError

-----------------------------------------------------------------------------
(* The steps outside of the actuator.                                      *)

(* A run begins with a cycle, or is refused.                               *)
LEMMA StartMoves ==
    ASSUME ControlTypeOK, NEW c \in Controller, Start(c)
    PROVE  /\ Moves(c) /\ pc[c] = "start" /\ pc'[c] \in {"stopped", "top"}
           /\ Goes(c) \/ Ends(c)
<1>1. "configuration" \in StopReason /\ "top" \in Step \ {"between", "stopped"}
      BY DEF StopReason, Step
<1>2. CASE Goto(c, "top") BY <1>1, <1>2, GotoGoes DEF Start, Goes
<1>3. CASE Stop(c, "configuration") /\ UNCHANGED result
      BY <1>1, <1>3, StopMoves DEF Start
<1> QED BY <1>2, <1>3 DEF Start

(* A cycle begins with an observation, unless the loop is cancelled.       *)
LEMMA BeginMoves ==
    ASSUME ControlTypeOK, NEW c \in Controller, BeginCycle(c)
    PROVE  /\ Moves(c) /\ pc[c] = "top" /\ pc'[c] \in {"stopped", "observe"}
           /\ IF cancelled[c] THEN Ends(c) ELSE Goes(c)
<1>1. "Cancelled" \in StopReason /\ "observe" \in Step \ {"between", "stopped"}
      BY DEF StopReason, Step
<1>2. CASE ~cancelled[c]
  <2>1. Goto(c, "observe") BY <1>2 DEF BeginCycle
  <2> QED BY <1>1, <1>2, <2>1, GotoGoes DEF BeginCycle, Goes
<1>3. CASE cancelled[c]
  <2>1. Stop(c, "Cancelled") /\ UNCHANGED result BY <1>3 DEF BeginCycle
  <2> QED BY <1>1, <1>3, <2>1, StopMoves DEF BeginCycle
<1> QED BY <1>2, <1>3

(* After a cycle comes the next one, or the end.                           *)
LEMMA BetweenMoves ==
    ASSUME ControlTypeOK, NEW c \in Controller, BetweenCycles(c)
    PROVE  /\ Moves(c) /\ pc[c] = "between" /\ pc'[c] \in {"stopped", "top"}
           /\ Goes(c) \/ Ends(c)
<1>1. "top" \in Step \ {"between", "stopped"} BY DEF Step
<1>2. {"Cancelled", "MaxCyclesReached", "OneShotCompleted"} \subseteq StopReason
      BY DEF StopReason
<1>3. CASE Goto(c, "top") BY <1>1, <1>3, GotoGoes DEF BetweenCycles, Goes
<1>4. CASE UNCHANGED result /\ Stop(c, "Cancelled")
      BY <1>2, <1>4, StopMoves DEF BetweenCycles
<1>5. CASE UNCHANGED result /\ Stop(c, IF Loops(c) THEN "MaxCyclesReached"
                                                   ELSE "OneShotCompleted")
      BY <1>2, <1>5, StopMoves DEF BetweenCycles
<1> QED BY <1>3, <1>4, <1>5 DEF BetweenCycles

(* Validation leads to prepare, or to the end of the cycle.                *)
LEMMA ValidateMoves ==
    ASSUME ControlTypeOK, NEW c \in Controller, NEW answer, AfterValidate(c, answer)
    PROVE  /\ Moves(c) /\ pc'[c] \in {"stopped", "between", "prepare"}
           /\ pc'[c] = "prepare" => ~DryRun(c) /\ target' = target
           /\ Goes(c) \/ Ends(c) \/ Completes(c, "rejected") \/ Completes(c, "dryRun")
<1>1. CASE CycleError(c) BY <1>1, ErrorMoves
<1>2. CASE CompleteCycle(c, "rejected") BY <1>2, CompleteMoves DEF CycleResult
<1>3. CASE CompleteCycle(c, "dryRun") BY <1>3, CompleteMoves DEF CycleResult
<1>4. CASE ~DryRun(c) /\ Goto(c, "prepare") BY <1>4, GotoGoes DEF Step, Goes
<1> QED BY <1>1, <1>2, <1>3, <1>4 DEF AfterValidate
=============================================================================

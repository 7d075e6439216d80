------------------------------- MODULE RunTrail -------------------------------
(***************************************************************************)
(* The events a control loop records (runtime.rs, attempt.rs,              *)
(* forecast_runtime.rs): a cycle keeps its own while it runs and hands     *)
(* them on to the run when it completes or fails.  One loop runs, is       *)
(* cancelled or fails; each trusted call answers ok or not.  A "forecast"  *)
(* loop asks a forecaster before it plans, a "model" loop is a forecast    *)
(* loop whose targets are the ranks of profiles.                           *)
(***************************************************************************)
EXTENDS RuntimeCycle, SequencesExt

CONSTANTS
  Loop,         \* the one controller
  Flavors       \* the kinds of loops to explore

ASSUME TrailAssumption ==
  /\ Controller = {Loop}
  /\ Flavors \subseteq {"plain", "forecast", "model"}

VARIABLES
  flavor,
  running,      \* the cycle that runs: its events, forecast and first rank
  completed,    \* the results of the completed cycles
  journal,      \* the events of the run
  done          \* ghost: actuations, commits and rollbacks carried out

trailVars == <<flavor, running, completed, journal, done>>
runVars == <<controlVars, trailVars>>

EventKind ==
  {"ObservationCollected", "ForecastGenerated", "PlanSelected", "PlanRejected",
   "InvariantChecked", "PlanValidated", "ActuationPrepared", "ActuationApplied",
   "VerificationPerformed", "CommitExecuted", "RollbackExecuted", "CycleStarted",
   "CycleCompleted", "ControlLoopStarted", "ControlLoopStopped",
   "CancellationObserved", "ErrorEncountered"}

Unbegun == [events |-> <<>>, forecast |-> "none", initial |-> None, verification |-> "none"]

-----------------------------------------------------------------------------
(* A step of the cycle records its events; the step that ends the cycle    *)
(* hands them on to the run.                                               *)

RunInit ==
  /\ ControlInit
  /\ flavor \in Flavors
  /\ running = Unbegun
  /\ completed = <<>> /\ journal = <<>>
  /\ done = [applied |-> 0, commits |-> 0, rollbacks |-> 0]

(* What a completed cycle returns besides its events. *)
ResultOf(how, cycle) ==
  LET acted == how \in {"committed", "rolledBack"}
  IN [forecast |-> cycle.forecast, initial |-> cycle.initial, how |-> how,
      proposed |-> target[Loop], validated |-> acted \/ how = "dryRun", acted |-> acted,
      verification |-> IF acted THEN cycle.verification ELSE "none",
      committed |-> how = "committed", rolledBack |-> how = "rolledBack",
      events |-> cycle.events]

ForgetsTheFailed(cycle) == <<>>     \* mutant: the events of a failed cycle are dropped
EventsOfFailed(cycle) == cycle.events

(* Record what this step did of the cycle, or of the loop. *)
Recorded(events, cycle) ==
  LET now == [cycle EXCEPT !.events = @ \o events]
  IN /\ UNCHANGED flavor
     /\ CASE cycles'[Loop] # cycles[Loop] ->
               /\ completed' = Append(completed, ResultOf(result'[Loop], now))
               /\ journal' = journal \o now.events
               /\ running' = Unbegun
          [] stop'[Loop] = "error" ->
               /\ journal' = journal \o EventsOfFailed(now)
                    \o <<"ErrorEncountered", "ControlLoopStopped">>
               /\ running' = Unbegun /\ UNCHANGED completed
          [] OTHER -> running' = now /\ UNCHANGED <<completed, journal>>

Emit(events) == Recorded(events, running)

StartRun ==
  /\ Start(Loop)
  /\ journal' = IF pc'[Loop] = "top" THEN <<"ControlLoopStarted">> ELSE <<>>
  /\ UNCHANGED <<flavor, running, completed, done>>

Stopping == IF cancelled[Loop] THEN <<"CancellationObserved", "ControlLoopStopped">>
                               ELSE <<"ControlLoopStopped">>
ContinueRun ==
  /\ BeginCycle(Loop) \/ BetweenCycles(Loop)
  /\ journal' = IF pc'[Loop] = "stopped" THEN journal \o Stopping ELSE journal
  /\ UNCHANGED <<flavor, running, completed, done>>

CancelRun == Cancel(Loop) /\ UNCHANGED trailVars

-----------------------------------------------------------------------------
(* Forecast, observation and planning. *)

Forecasts == flavor # "plain" /\ config[Loop].mode # "ObserveOnly"

(* A forecaster that fails ends the run before the cycle has an event. *)
ForecastFails ==
  /\ pc[Loop] = "observe" /\ Forecasts
  /\ CycleError(Loop)
  /\ Recorded(<<>>, Unbegun) /\ UNCHANGED done

Planned(proposed) ==
  CASE config[Loop].mode = "ObserveOnly" -> <<"CycleCompleted">>
    [] config[Loop].mode = "PlanOnly" ->
         <<IF proposed THEN "PlanSelected" ELSE "PlanRejected", "CycleCompleted">>
    [] config[Loop].mode \notin {"ObserveOnly", "PlanOnly"} /\ proposed -> <<"PlanSelected">>
    [] OTHER -> <<"PlanRejected", "CycleCompleted">>

(* A forecast that is not available keeps the planner from being asked.    *)
(* Which target it is matters to a model loop only.                        *)
OneTarget == CHOOSE t \in Candidate : TRUE
BeginsCycle(forecast, initial, proposed) ==
  /\ pc[Loop] = "observe"
  /\ ObserveAndPlan(Loop)
  /\ Forecasts <=> forecast # "none"
  /\ initial # None => flavor = "model"
  /\ pc'[Loop] = "validate" => proposed /\ (flavor = "model" \/ target'[Loop] = OneTarget)
  /\ proposed =>
       /\ forecast # "unavailable"
       /\ pc'[Loop] = "validate" \/ config[Loop].mode = "PlanOnly"
  /\ Recorded((IF forecast = "none" THEN <<>> ELSE <<"ForecastGenerated">>)
                \o <<"CycleStarted", "ObservationCollected">> \o Planned(proposed),
              [Unbegun EXCEPT !.forecast = forecast, !.initial = initial])
  /\ UNCHANGED done

(* The trusted calls.  A plan with no check authorizes nothing. *)
ValidatePlan(answer, checks) ==
  /\ pc[Loop] = "validate" /\ AfterValidate(Loop, answer)
  /\ answer = "error" => checks = 0
  /\ answer = "ok" => checks > 0
  /\ Emit([i \in 1..checks |-> "InvariantChecked"]
       \o (CASE answer = "ok" -> <<"PlanValidated">>
             [] answer = "refused" -> <<"PlanRejected">>
             [] OTHER -> <<>>)
       \o (IF cycles'[Loop] # cycles[Loop] THEN <<"CycleCompleted">> ELSE <<>>))
  /\ UNCHANGED done

PrepareActuation(answer) ==
  /\ pc[Loop] = "prepare" /\ AfterPrepare(Loop, answer)
  /\ Emit(IF answer = "ok" THEN <<"ActuationPrepared">> ELSE <<>>)
  /\ UNCHANGED done

Actuate(answer) ==
  /\ pc[Loop] = "actuate" /\ AfterActuate(Loop, answer)
  /\ Recorded(IF answer = "ok" THEN <<"ActuationApplied">> ELSE <<"VerificationPerformed">>,
              IF answer = "ok" THEN running
                ELSE [running EXCEPT !.verification = "Inconclusive"])
  /\ done' = IF answer = "ok" THEN [done EXCEPT !.applied = @ + 1] ELSE done

Verify(verdict) ==
  /\ pc[Loop] = "verify" /\ AfterVerify(Loop, IF verdict = "Pass" THEN "ok" ELSE "error")
  /\ Recorded(<<"VerificationPerformed">>, [running EXCEPT !.verification = verdict])
  /\ UNCHANGED done

CommitEventsEarly(answer) ==    \* mutant: the event is recorded before the commit answers
  <<"CommitExecuted">> \o (IF answer = "ok" THEN <<"CycleCompleted">> ELSE <<>>)
CommitEvents(answer) ==
  IF answer = "ok" THEN <<"CommitExecuted", "CycleCompleted">> ELSE <<>>
Commit(answer) ==
  /\ pc[Loop] = "commit" /\ AfterCommit(Loop, answer)
  /\ Emit(CommitEvents(answer))
  /\ done' = IF answer = "ok" THEN [done EXCEPT !.commits = @ + 1] ELSE done

(* A rollback that restores nothing is an error without an event. *)
Rollback(answer) ==
  /\ pc[Loop] = "rollback" /\ AfterRollback(Loop, answer)
  /\ Emit(IF answer = "ok" THEN <<"RollbackExecuted", "CycleCompleted">> ELSE <<>>)
  /\ done' = IF answer = "ok" THEN [done EXCEPT !.rollbacks = @ + 1] ELSE done

Answers == {"ok", "error"}
RunNext ==
  \/ StartRun \/ ContinueRun \/ CancelRun \/ ForecastFails
  \/ \E f \in {"none", "available", "unavailable"}, r \in Candidate \cup {None}, p \in BOOLEAN :
       BeginsCycle(f, r, p)
  \/ \E a \in Answers \cup {"refused"}, n \in 0..1 : ValidatePlan(a, n)
  \/ \E a \in Answers : PrepareActuation(a) \/ Actuate(a) \/ Commit(a) \/ Rollback(a)
  \/ \E v \in {"Pass", "Fail"} : Verify(v)

RunSpec == RunInit /\ [][RunNext]_runVars

-----------------------------------------------------------------------------
Occurrences(events, kind) == Cardinality({i \in DOMAIN events : events[i] = kind})

(* The events of a completed cycle say what its result says.               *)
CycleIsTold(r) ==
  /\ Occurrences(r.events, "CommitExecuted") = IF r.committed THEN 1 ELSE 0
  /\ Occurrences(r.events, "RollbackExecuted") = IF r.rolledBack THEN 1 ELSE 0
  /\ Occurrences(r.events, "VerificationPerformed") = IF r.acted THEN 1 ELSE 0
  /\ r.committed => r.verification = "Pass" /\ "ActuationApplied" \in Range(r.events)
  /\ Last(r.events) = "CycleCompleted"

(* The trail of a run is whole: it opens and closes once, tells every      *)
(* actuation, commit and rollback the actuator carried out, those of a     *)
(* cycle that failed too, and says how the run ended.  A plain cycle that  *)
(* failed is in it; a forecast that failed left nothing to tell.           *)
TrailTellsTheRun ==
  /\ \A k \in DOMAIN completed : CycleIsTold(completed[k])
  /\ pc[Loop] = "stopped" /\ stop[Loop] # "configuration" =>
       /\ journal[1] = "ControlLoopStarted" /\ Last(journal) = "ControlLoopStopped"
       /\ Occurrences(journal, "ControlLoopStopped") = 1
       /\ Occurrences(journal, "ActuationApplied") = done.applied
       /\ Occurrences(journal, "CommitExecuted") = done.commits
       /\ Occurrences(journal, "RollbackExecuted") = done.rollbacks
       /\ Occurrences(journal, "CycleCompleted") = Len(completed)
       /\ ("ErrorEncountered" \in Range(journal)) <=> stop[Loop] = "error"
       /\ ("CancellationObserved" \in Range(journal)) <=> stop[Loop] = "Cancelled"
       /\ flavor = "plain" =>
            Occurrences(journal, "CycleStarted")
              = Len(completed) + IF stop[Loop] = "error" THEN 1 ELSE 0
===============================================================================

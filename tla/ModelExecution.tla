--------------------------- MODULE ModelExecution ---------------------------
(***************************************************************************)
(* Adaptive model execution (elastic-runtime, model_execution_*.rs and     *)
(* forecast_runtime.rs): control loops choose one of the published         *)
(* execution profiles of a model for the load they observe, and switch to  *)
(* it in a transaction.                                                    *)
(*                                                                         *)
(* The actuators of all the loops are clones that share one backend and    *)
(* one slot for a prepared transaction.  The backend is a trait: any call  *)
(* may fail, and a failed switch or restoration may leave the model in     *)
(* either profile or in none.  A loop either runs with durable evidence    *)
(* (ModelExecutionControllerV1::run_with_evidence) or is called cycle by   *)
(* cycle behind a Boolean guard (BooleanModelExecutionProfileControllerV1).*)
(***************************************************************************)
EXTENDS RuntimeCycle, Sequences, FiniteSets

CONSTANTS
    Rank,       \* ranks of the published profiles
    Broken,     \* the model is in no published profile
    Load,       \* what the resource telemetry can tell apart
    Select,     \* Select[l]: the first profile the envelope policy allows, or None
    Live,       \* <<from, to>>: switches the transition policy allows on a live model
    Guarded,    \* the controllers behind a Boolean guard
    MaxEpoch    \* largest observation epoch

ASSUME ModelAssumption ==
    /\ Candidate = Rank
    /\ Broken \notin Rank /\ None \notin Rank \cup Load \cup Controller
    /\ None \notin [previous : Rank, target : Rank]
    /\ Select \in [Load -> Rank \cup {None}]
    /\ Live \subseteq Rank \X Rank
    /\ Guarded \subseteq Controller
    /\ MaxEpoch \in Nat \ {0}

VARIABLES
    rank,       \* the profile the model is in
    prepared,   \* ModelExecutionState::prepared, or None
    seen,       \* what the running cycle observed
    log,        \* completed cycles, or the guarded one being reported
    evidence,   \* the evidence of the run, or of the last guarded call
    epoch,      \* next_observation_epoch
    generation, \* resource_generation
    owner,      \* ghost: who prepared last
    acted,      \* ghost: who has prepared anything
    wedged,     \* ghost: a restoration has failed
    moves       \* ghost: profile changes each controller committed

modelVars == <<rank, prepared>>
reportVars == <<log, evidence, epoch, generation>>
ghostVars == <<owner, acted, wedged, moves>>
vars == <<controlVars, modelVars, seen, reportVars, ghostVars>>

Transaction == [previous : Rank, target : Rank]
Entry == [initial : Rank \cup {None}, outcome : {"committed", "rolledBack", "unacted"},
          final : Rank \cup {None}, actual : Rank]
Acting == {"actuate", "verify", "commit", "rollback"}

Unseen == [rank |-> None, load |-> None]

Init ==
    /\ ControlInit
    /\ rank \in Rank            \* TransactionalModelExecution::new
    /\ prepared = None
    /\ seen = [c \in Controller |-> Unseen]
    /\ log = [c \in Controller |-> <<>>]
    /\ evidence = [c \in Controller |-> "none"]
    /\ epoch = [c \in Controller |-> 1]
    /\ generation = [c \in Controller |-> 1]
    /\ owner = None
    /\ acted = {}
    /\ wedged = FALSE
    /\ moves = [c \in Controller |-> 0]

(* The profile outside of a transaction.                                   *)
Settled == IF prepared = None THEN rank ELSE prepared.previous

-----------------------------------------------------------------------------
(* Evidence of completed cycles.                                           *)

TerminalByTarget(c, how) ==     \* mutant: an actuated cycle ends at its target
    IF target[c] # None THEN target[c] ELSE seen[c].rank

(* completed_cycle_terminal_profile_rank: the end of a cycle is derived    *)
(* from what it did, not read.                                             *)
Terminal(c, how) == IF how = "committed" THEN target[c] ELSE seen[c].rank

Outcome(how) == IF how \in {"committed", "rolledBack"} THEN how ELSE "unacted"

EntryOf(c, how) ==
    [initial |-> seen[c].rank, outcome |-> Outcome(how),
     final |-> Terminal(c, how), actual |-> Settled']

(* A cycle that has completed is in the result of the run.                 *)
Record(c) ==
    log' = IF cycles'[c] = cycles[c] THEN log
           ELSE [log EXCEPT ![c] = Append(@, EntryOf(c, result'[c]))]

(* A run that fails keeps the evidence of its completed cycles and reads   *)
(* nothing more; any other end, and a guarded cycle, still has to be       *)
(* reconciled with the model.  What a cycle observed goes with it.         *)
Settle(c) == seen' = IF pc'[c] \in {"between", "stopped"}
                     THEN [seen EXCEPT ![c] = Unseen] ELSE seen

Account(c) ==
    /\ Record(c) /\ Settle(c)
    /\ evidence' = [evidence EXCEPT ![c] =
          IF stop'[c] = "error" THEN "failed"
          ELSE IF c \in Guarded
               THEN IF cycles'[c] # cycles[c] THEN "due" ELSE @
               ELSE IF pc'[c] = "stopped" THEN "due" ELSE @]

Quiet == UNCHANGED <<epoch, generation>>

-----------------------------------------------------------------------------
(* Observation, forecast and planning.                                     *)

StartLoop(c) ==
    /\ Start(c)
    /\ UNCHANGED <<modelVars, ghostVars>>
    /\ Quiet /\ Account(c)

(* Any forecaster may stand between the load and the planner of a run, so  *)
(* that only a guard depends on the load observed.                         *)
Observable(c) == IF c \in Guarded THEN Load \cup {None} ELSE {None}

(* One observation of the model and of the telemetry, whose load is any at *)
(* any time.  A model that cannot be read, a sample that is expired or in another unit, and a failed read *)
(* are unsupported observations.                                           *)
Observe(c) ==
    /\ BeginCycle(c)
    /\ UNCHANGED <<modelVars, ghostVars>> /\ Quiet
    /\ IF cancelled[c] THEN Account(c)
       ELSE /\ \E r \in {rank, None} \cap (Rank \cup {None}), l \in Observable(c) :
                  seen' = [seen EXCEPT ![c] = [rank |-> r, load |-> l]]
            /\ UNCHANGED <<log, evidence>>

(* ModelExecutionAdaptivePlannerV1: the first matching rule names the      *)
(* profile, and the model must be known to be in another one.              *)
Proposal(basis) ==
    IF basis.rank = None \/ basis.load = None THEN None
    ELSE IF Select[basis.load] = basis.rank THEN None
    ELSE Select[basis.load]

PlanFrom(c, basis) ==
    LET t == Proposal(basis)
    IN  \/ config[c].mode = "PlanOnly" /\ CompleteCycle(c, "planned")
        \/ config[c].mode # "PlanOnly" /\ t = None /\ CompleteCycle(c, "noCandidate")
        \/ /\ config[c].mode # "PlanOnly" /\ t # None
           /\ pc' = [pc EXCEPT ![c] = "validate"]
           /\ target' = [target EXCEPT ![c] = t]
           /\ UNCHANGED <<config, cycles, result, stop, cancelled>>

(* A forecast is a context of its own: the observed one, a smoothed one in *)
(* which the rank may be any or none, or none at all when it is not        *)
(* available; the gate then proposes nothing.                              *)
Forecasts == [rank : Rank \cup {None}, load : Load \cup {None}]

ForecastAndPlan(c) ==
    /\ pc[c] = "observe" /\ c \notin Guarded
    /\ \/ config[c].mode = "ObserveOnly" /\ CompleteCycle(c, "observed")
       \/ /\ config[c].mode # "ObserveOnly"
          /\ CycleError(c) \/ \E basis \in Forecasts : PlanFrom(c, basis)
    /\ UNCHANGED <<modelVars, ghostVars>>
    /\ Quiet /\ Account(c)

(* EnvelopeAvailablePredicate::evaluate on the one captured observation,   *)
(* unknown once the validity of the sample has run out.                    *)
Truths(c) ==
    IF seen[c].load = None THEN {"unknown"}
    ELSE {"unknown", IF Select[seen[c].load] = None THEN "false" ELSE "true"}

Exhausted(c) == epoch[c] = MaxEpoch

(* The epoch counter is checked, whatever the guard then says.  A blocked  *)
(* call returns its report at once.                                        *)
GuardAndPlan(c) ==
    /\ pc[c] = "observe" /\ c \in Guarded
    /\ UNCHANGED <<modelVars, generation, ghostVars>>
    /\ IF Exhausted(c)
       THEN CycleError(c) /\ UNCHANGED epoch /\ Account(c)
       ELSE /\ epoch' = [epoch EXCEPT ![c] = @ + 1]
            /\ \E truth \in Truths(c) :
                  IF truth = "true"
                  THEN PlanFrom(c, seen[c]) /\ Account(c)
                  ELSE /\ CompleteCycle(c, "rejected")
                       /\ Settle(c) /\ UNCHANGED log
                       /\ evidence' = [evidence EXCEPT ![c] = "complete"]

-----------------------------------------------------------------------------
(* The transaction: TransactionalModelExecution on a policy-guarded        *)
(* backend.  Every call takes the lock of the shared state.                *)

Published(r) == r \in Rank

(* validate_profile of the guarded backend: the switch from the profile    *)
(* the model is in now has to be allowed live.                             *)
Acceptable(t) == Published(rank) /\ <<rank, t>> \in Live

Matches(c) == prepared # None /\ prepared.target = target[c]

Validate(c) ==
    /\ pc[c] = "validate"
    /\ \E answer \in {"ok", "error"} :
          /\ answer = "ok" => Acceptable(target[c])
          /\ AfterValidate(c, answer)
    /\ UNCHANGED <<modelVars, ghostVars>>
    /\ Quiet /\ Account(c)

PrepareOver(c) ==               \* mutant: the slot may be taken again
    /\ pc[c] = "prepare"
    /\ \/ /\ Acceptable(target[c])
          /\ prepared' = [previous |-> rank, target |-> target[c]]
          /\ owner' = c /\ acted' = acted \cup {c}
          /\ AfterPrepare(c, "ok")
       \/ AfterPrepare(c, "error") /\ UNCHANGED <<prepared, owner, acted>>
    /\ UNCHANGED <<rank, wedged, moves>>
    /\ Quiet /\ Account(c)

(* The profile to restore is read again under the lock.                    *)
Prepare(c) ==
    /\ pc[c] = "prepare"
    /\ \/ /\ prepared = None /\ Acceptable(target[c])
          /\ prepared' = [previous |-> rank, target |-> target[c]]
          /\ owner' = c /\ acted' = acted \cup {c}
          /\ AfterPrepare(c, "ok")
       \/ AfterPrepare(c, "error") /\ UNCHANGED <<prepared, owner, acted>>
    /\ UNCHANGED <<rank, wedged, moves>>
    /\ Quiet /\ Account(c)

(* A rejected switch leaves the model alone, a failed one need not.        *)
Actuate(c) ==
    /\ pc[c] = "actuate"
    /\ \/ /\ Matches(c) /\ Acceptable(target[c])
          /\ \/ rank' = target[c] /\ AfterActuate(c, "ok")
             \/ rank' \in {rank, target[c], Broken} /\ AfterActuate(c, "error")
       \/ AfterActuate(c, "error") /\ UNCHANGED rank
    /\ UNCHANGED <<prepared, ghostVars>>
    /\ Quiet /\ Account(c)

Verify(c) ==
    /\ pc[c] = "verify"
    /\ \E answer \in {"ok", "error"} :
          /\ answer = "ok" => Matches(c) /\ rank = target[c]
          /\ AfterVerify(c, answer)
    /\ UNCHANGED <<modelVars, ghostVars>>
    /\ Quiet /\ Account(c)

Commit(c) ==
    /\ pc[c] = "commit"
    /\ \/ /\ Matches(c) /\ rank = target[c]
          /\ prepared' = None
          /\ moves' = [moves EXCEPT ![c] = IF prepared.previous = rank THEN @ ELSE @ + 1]
          /\ AfterCommit(c, "ok")
       \/ AfterCommit(c, "error") /\ UNCHANGED <<prepared, moves>>
    /\ UNCHANGED <<rank, owner, acted, wedged>>
    /\ Quiet /\ Account(c)

RollbackClears(c) ==            \* mutant: the slot is given up, restored or not
    /\ pc[c] = "rollback"
    /\ prepared' = None
    /\ \/ /\ Matches(c)
          /\ rank' = prepared.previous
          /\ AfterRollback(c, "ok") /\ UNCHANGED wedged
       \/ /\ rank' \in {rank, Broken}
          /\ wedged' = TRUE /\ AfterRollback(c, "error")
    /\ UNCHANGED <<owner, acted, moves>>
    /\ Quiet /\ Account(c)

(* The restoration is not subject to the transition policy; the slot is    *)
(* freed only when it is verified.                                         *)
Rollback(c) ==
    /\ pc[c] = "rollback"
    /\ \/ /\ Matches(c)
          /\ rank' = prepared.previous /\ prepared' = None
          /\ AfterRollback(c, "ok") /\ UNCHANGED wedged
       \/ /\ Matches(c)
          /\ rank' \in {rank, prepared.previous, Broken}
          /\ wedged' = TRUE /\ UNCHANGED prepared
          /\ AfterRollback(c, "error")
       \/ /\ ~Matches(c)
          /\ AfterRollback(c, "error") /\ UNCHANGED <<modelVars, wedged>>
    /\ UNCHANGED <<owner, acted, moves>>
    /\ Quiet /\ Account(c)

-----------------------------------------------------------------------------
(* The end of a cycle and of a run.                                        *)

Last(s) == s[Len(s)]

(* capture_cycle_evidence reads the model again: the artifact is refused   *)
(* when that read contradicts the cycle, although the cycle stands.        *)
Confirmed(c) ==
    LET e == Last(log[c])
    IN  /\ Published(rank)
        /\ e.outcome = "committed" => rank = e.final
        /\ e.outcome = "rolledBack" => rank = e.initial

Reported(c, how) ==
    /\ evidence' = [evidence EXCEPT ![c] = how]
    /\ log' = [log EXCEPT ![c] = <<>>]

CaptureFailed(c) ==
    /\ Stop(c, "error") /\ UNCHANGED <<result, generation>>
    /\ Reported(c, "failed")

CaptureReport(c) ==
    /\ pc[c] = "between" /\ c \in Guarded /\ evidence[c] = "due"
    /\ \/ /\ Confirmed(c) /\ Reported(c, "complete")
          /\ generation' = [generation EXCEPT ![c] =
                IF Last(log[c]).outcome = "committed" /\ Last(log[c]).initial # rank
                THEN @ + 1 ELSE @]
          /\ UNCHANGED controlVars
       \/ CaptureFailed(c)
    /\ UNCHANGED <<modelVars, seen, epoch, ghostVars>>

Continue(c) ==
    /\ c \in Guarded => evidence[c] # "due"
    /\ BetweenCycles(c)
    /\ UNCHANGED <<modelVars, ghostVars>>
    /\ Quiet /\ Account(c)

(* Every completed cycle of the run gets its artifact ...                  *)
Representable(c) == \A i \in 1 .. Len(log[c]) : log[c][i].final # None

(* ... and the last one has to end where the model now is.                 *)
Reconcile(c) ==
    /\ pc[c] = "stopped" /\ c \notin Guarded /\ evidence[c] = "due"
    /\ \/ /\ Representable(c)
          /\ log[c] # <<>> => rank = Last(log[c]).final
          /\ evidence' = [evidence EXCEPT ![c] = "complete"]
       \/ /\ log[c] # <<>>
          /\ evidence' = [evidence EXCEPT ![c] = "failed"]
    /\ UNCHANGED <<controlVars, modelVars, seen, log, epoch, generation, ghostVars>>

(* The caller of a guarded controller may call it again after an error.    *)
CallAgain(c) ==
    /\ pc[c] = "stopped" /\ c \in Guarded /\ stop[c] = "error"
    /\ epoch[c] < MaxEpoch
    /\ pc' = [pc EXCEPT ![c] = "top"]
    /\ stop' = [stop EXCEPT ![c] = "running"]
    /\ UNCHANGED <<config, target, cycles, result, cancelled>>
    /\ UNCHANGED <<modelVars, seen, reportVars, ghostVars>>

(* A guarded call takes no cancellation token.                             *)
CancelLoop(c) ==
    /\ c \notin Guarded /\ Cancel(c)
    /\ UNCHANGED <<modelVars, seen, reportVars, ghostVars>>

Proceed(c) ==
    \/ StartLoop(c) \/ Observe(c) \/ ForecastAndPlan(c) \/ GuardAndPlan(c)
    \/ Validate(c) \/ Prepare(c) \/ Actuate(c) \/ Verify(c) \/ Commit(c)
    \/ Rollback(c) \/ CaptureReport(c) \/ Continue(c) \/ Reconcile(c)

Next == \E c \in Controller : Proceed(c) \/ CallAgain(c) \/ CancelLoop(c)

(* The calls of a loop return, and its sleeps are bounded.                 *)
Fairness == \A c \in Controller : WF_vars(Proceed(c))

Spec == Init /\ [][Next]_vars /\ Fairness

-----------------------------------------------------------------------------
(* Properties.                                                             *)

(* Every variable keeps its type.                                          *)
TypeOK ==
    /\ ControlTypeOK
    /\ rank \in Rank \cup {Broken}
    /\ prepared \in Transaction \cup {None}
    /\ seen \in [Controller -> [rank : Rank \cup {None}, load : Load \cup {None}]]
    /\ log \in [Controller -> Seq(Entry)]
    /\ evidence \in [Controller -> {"none", "due", "complete", "failed"}]
    /\ epoch \in [Controller -> 1 .. MaxEpoch]
    /\ generation \in [Controller -> Nat]
    /\ owner \in Controller \cup {None}
    /\ acted \subseteq Controller
    /\ wedged \in BOOLEAN
    /\ moves \in [Controller -> Nat]

(* The slot has no owner field, yet it belongs to one transaction at a     *)
(* time: whoever is past prepare finds its own preparation in it, and it   *)
(* is left behind only by a restoration that failed.                       *)
SlotFollowsTransaction ==
    /\ \A c \in Controller : pc[c] \in Acting =>
          owner = c /\ ~wedged /\ Matches(c)
    /\ prepared # None => wedged \/ pc[owner] \in Acting
    /\ prepared = None => rank \in Rank

(* The settled profile moves only when a transaction commits, and then by  *)
(* a switch the policy allows live: the policy was asked about the profile *)
(* the switch really starts from, whatever the loops had observed.  A      *)
(* model that could not be restored is left alone by every later cycle of  *)
(* every clone, and no cycle commits.                                      *)
MovesAreLiveCommits ==
    [][/\ Settled' # Settled =>
          /\ <<Settled, Settled'>> \in Live
          /\ \E c \in Controller :
                pc[c] = "commit" /\ result'[c] = "committed" /\ target[c] = Settled'
       /\ wedged => UNCHANGED <<rank, prepared, moves>>]_vars

(* As long as no other controller has prepared anything, the durable       *)
(* evidence of a run is the truth: each cycle ended in the profile its     *)
(* artifact names, and began where the artifact before it ended.           *)
SoleEvidenceIsTrue == \A c \in Controller \ Guarded :
    evidence[c] = "complete" /\ acted \subseteq {c} =>
        \A i \in 1 .. Len(log[c]) :
            /\ log[c][i].actual = log[c][i].final
            /\ i > 1 => log[c][i].initial \in {None, log[c][i-1].final}

(* A rolled-back cycle's terminal profile, in the evidence of a completed  *)
(* run, is the one the rollback restored.                                  *)
RollbackEvidenceIsTrue == \A c \in Controller \ Guarded :
    evidence[c] = "complete" =>
        \A i \in 1 .. Len(log[c]) :
            log[c][i].outcome = "rolledBack" => log[c][i].actual = log[c][i].final

(* Every run, and every guarded call, returns with its evidence settled,   *)
(* forecasts or not: no loop waits for another.                            *)
EveryCallReturns == \A c \in Controller :
    []<>(pc[c] = "stopped" /\ evidence[c] # "due")
=============================================================================

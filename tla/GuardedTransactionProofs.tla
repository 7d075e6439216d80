------------------------ MODULE GuardedTransactionProofs ------------------------
(***************************************************************************)
(* GuardedTransaction for every set of candidates, ranking, age and bound: *)
(* its types, the truth of its reports, that a guarded execution carries   *)
(* out what planning chooses, and that the thermal boundary acts in time.  *)
(*                                                                         *)
(* The report is written once, at the end, and speaks of the backend as it *)
(* was at the beginning: StageInv keeps track of what the execution has    *)
(* done in between.  The kernel boundary does not plan again, so that it   *)
(* carries out a choice rests on what a kept selection was made from:      *)
(* RecordInv.                                                              *)
(*                                                                         *)
(* And of the loop that runs beside the boundaries: whether it ends, fails *)
(* or is cancelled, its trail tells what the actuator carried out.         *)
(* JournalInv says that the trail and the events of the cycle at hand      *)
(* account for all of it; CycleInv, what those events are at each step.    *)
(***************************************************************************)
EXTENDS GuardedTransaction, RunTrail, SequenceTheorems, FiniteSetTheorems, TLAPS

(* How far the execution got is what it has done to the backend. *)
StageInv ==
    /\ before \in BackendConfig \X (BackendConfig \ {Partial})
    /\ stage \in {"validate", "act"} => active = before[1] /\ authoritative = before[2]
    /\ stage \in {"verify", "commit"} => authoritative = before[2]
    /\ stage = "commit" => active = call.candidate

(* A kernel selection was made on evidence that was known of every         *)
(* candidate, and for one that it admits.                                  *)
RecordInv ==
    boundary = "kernel" /\ record.outcome \in Declared =>
        /\ \A c \in Declared : record.value[c] # "none"
        /\ record.value[record.outcome] = "good"

IInv == TypeOK /\ StageInv /\ ReportIsTrue /\ RecordInv /\ CarriedOutIsChosen

-----------------------------------------------------------------------------
(* What planning answers.                                                  *)

(* The thermal transition is a declared candidate.                         *)
LEMMA OnlyIsCandidate == Only \in Declared
BY CandidatesAreRanked DEF Only

(* Of one signal, the truth of a candidate is the class of its value.      *)
LEMMA TruthOfOne ==
    ASSUME boundary # "thermal", NEW s \in Snapshot, NEW now \in Nat, NEW c \in Declared
    PROVE  TruthOf(c, s, now) = IF Fresh(s, now) THEN Classify(s.value[c]) ELSE "Unknown"
<1>1. {Classify(s.value[k]) : k \in Signals(c)} = {Classify(s.value[c])} BY DEF Signals
<1>2. Classify(s.value[c]) \in Truth BY DEF Snapshot, Value, Classify, Truth
<1>3. KleeneAnd({Classify(s.value[c])}) = Classify(s.value[c])
  <2>1. \A t \in Truth : KleeneAnd({t}) = t BY DEF KleeneAnd, Truth
  <2> QED BY <1>2, <2>1
<1> QED BY <1>1, <1>3 DEF TruthOf

(* A kernel selection knew every candidate and admitted the selected one.  *)
LEMMA SelectionAdmits ==
    ASSUME boundary = "kernel", NEW s \in Snapshot, NEW now \in Nat, NEW c \in Declared,
           c \in Outcomes(s, now)
    PROVE  (\A d \in Declared : s.value[d] # "none") /\ s.value[c] = "good"
<1>1. c # Insufficient /\ c # NoCandidate BY CandidatesAreRanked DEF Reserved
<1>2. Candidates = Declared BY DEF Candidates
<1>3. \A d \in Declared : TruthOf(d, s, now) # "Unknown" BY <1>1, <1>2 DEF Outcomes
<1>4. c \in Survivors(s, now) BY <1>1, <1>3, <1>2 DEF Outcomes
<1>5. TruthOf(c, s, now) = "True" BY <1>4 DEF Survivors
<1>6. Fresh(s, now) BY <1>3, TruthOfOne
<1>7. \A d \in Declared : s.value[d] \in Value BY DEF Snapshot
<1>8. \A d \in Declared : Classify(s.value[d]) # "Unknown" BY <1>3, <1>6, TruthOfOne
<1>9. Classify(s.value[c]) = "True" BY <1>5, <1>6, TruthOfOne
<1> QED BY <1>7, <1>8, <1>9 DEF Classify, Value

(* And such a candidate is one that planning may select at that snapshot.  *)
LEMMA AdmittedIsChosen ==
    ASSUME boundary = "kernel", NEW s \in Snapshot, NEW c \in Declared,
           \A d \in Declared : s.value[d] # "none", s.value[c] = "good"
    PROVE  c \in Outcomes(s, s.at)
<1>1. s.at \in Nat BY CandidatesAreRanked DEF Snapshot
<1>2. Fresh(s, s.at)
  <2>1. s.at - s.at = 0 BY <1>1
  <2>2. s.at <= s.at /\ MaxAge >= 0 BY <1>1, CandidatesAreRanked
  <2> QED BY <2>1, <2>2 DEF Fresh
<1>3. Candidates = Declared BY DEF Candidates
<1>4. \A d \in Declared : TruthOf(d, s, s.at) = Classify(s.value[d])
      BY <1>1, <1>2, TruthOfOne
<1>5. \A d \in Declared : Classify(s.value[d]) # "Unknown"
      BY DEF Snapshot, Value, Classify
<1>6. c \in Survivors(s, s.at) BY <1>3, <1>4 DEF Survivors, Classify
<1> QED BY <1>3, <1>4, <1>5, <1>6 DEF Outcomes

(* The thermal transition, when it is admitted, has no rival.              *)
LEMMA OnlyIsChosen ==
    ASSUME boundary = "thermal", NEW s, NEW now, TruthOf(Only, s, now) = "True"
    PROVE  Only \in Outcomes(s, now)
<1>1. Candidates = {Only} BY DEF Candidates
<1>2. Survivors(s, now) = {Only} BY <1>1 DEF Survivors
<1>3. Best({Only}) = Only
  <2>1. Rank[Only] <= Rank[Only] BY OnlyIsCandidate, CandidatesAreRanked
  <2> QED BY <2>1 DEF Best
<1> QED BY <1>1, <1>2, <1>3 DEF Outcomes

(* Planning asks nothing of the state but which boundary this is.          *)
LEMMA SameChoice ==
    ASSUME boundary' = boundary
    PROVE  \A s, now : Outcomes(s, now)' = Outcomes(s, now)
BY DEF Outcomes, Survivors, Candidates, TruthOf, Signals

-----------------------------------------------------------------------------
(* The steps of an execution.                                              *)

(* A step that keeps the call and the boundary keeps what was chosen.      *)
LEMMA SameCall ==
    ASSUME IInv, boundary' = boundary, call' = call, stage # "idle"
    PROVE  CarriedOutIsChosen'
<1>1. \A s, now : Outcomes(s, now)' = Outcomes(s, now) BY SameChoice
<1> QED BY <1>1 DEF IInv, CarriedOutIsChosen

(* An execution that is answered at once leaves everything else alone.     *)
LEMMA AnswerKeeps ==
    ASSUME IInv, stage = "idle", calls < MaxCalls, NEW r, Answer(r),
           r.status \notin Declared, r.broken => r.rolledBack
    PROVE  IInv'
<1>1. TypeOK' BY CandidatesAreRanked DEF IInv, TypeOK, Answer, planVars, backendVars
<1>2. StageInv' BY DEF IInv, TypeOK, StageInv, Answer, backendVars
<1>3. ReportIsTrue' BY DEF ReportIsTrue, Answer, backendVars
<1>4. RecordInv' BY DEF IInv, RecordInv, Answer, planVars
<1>5. CarriedOutIsChosen' BY DEF CarriedOutIsChosen, Answer
<1> QED BY <1>1, <1>2, <1>3, <1>4, <1>5 DEF IInv

(* An execution that is bound has a candidate that planning chooses, if it *)
(* is a guarded one.                                                       *)
LEMMA BindKeeps ==
    ASSUME IInv, stage = "idle", calls < MaxCalls,
           NEW c \in Candidates, NEW guarded \in BOOLEAN, Bind(c, guarded),
           guarded => c \in Outcomes(snapshot,
                               IF boundary = "kernel" THEN snapshot.at ELSE clock)
    PROVE  IInv'
<1>1. TypeOK'
  <2>1. UNCHANGED <<boundary, clock, snapshot, trace, record, active, authoritative>>
        BY DEF Bind, planVars, backendVars
  <2>2. calls' \in 0..MaxCalls BY CandidatesAreRanked DEF Bind, IInv, TypeOK
  <2>3. call'.snapshot = snapshot /\ call'.candidate = c BY DEF Bind
  <2>4. report'.broken = FALSE BY DEF Bind, Pending, Report
  <2>5. Candidates' = Candidates BY <2>1 DEF Candidates
  <2>6. stage' \in Stage BY DEF Bind, Stage
  <2> QED BY <2>1, <2>2, <2>3, <2>4, <2>5, <2>6 DEF IInv, TypeOK
<1>2. StageInv' BY DEF IInv, TypeOK, StageInv, Bind, backendVars
<1>3. ReportIsTrue' BY DEF ReportIsTrue, Bind
<1>4. RecordInv' BY DEF IInv, RecordInv, Bind, planVars
<1>5. CarriedOutIsChosen'
  <2>1. \A s, now : Outcomes(s, now)' = Outcomes(s, now) BY SameChoice DEF Bind
  <2>2. /\ call'.candidate = c /\ call'.snapshot = snapshot
        /\ call'.now = clock /\ call'.guarded = guarded /\ boundary' = boundary
        BY DEF Bind
  <2> QED BY <2>1, <2>2 DEF CarriedOutIsChosen
<1> QED BY <1>1, <1>2, <1>3, <1>4, <1>5 DEF IInv

(* A backend call that goes on keeps the call and its report.              *)
LEMMA ProceedKeeps ==
    ASSUME IInv, stage # "idle", NEW next \in Stage \ {"idle"}, Proceed(next),
           active' \in BackendConfig, authoritative' \in BackendConfig \ {Partial}, StageInv'
    PROVE  IInv'
<1>1. TypeOK' BY DEF IInv, TypeOK, Candidates, Proceed, evidenceVars, planVars
<1>2. ReportIsTrue' BY DEF ReportIsTrue, Proceed
<1>3. RecordInv' BY DEF IInv, RecordInv, Proceed, evidenceVars, planVars
<1>4. CarriedOutIsChosen' BY SameCall DEF Proceed, evidenceVars
<1> QED BY <1>1, <1>2, <1>3, <1>4 DEF IInv

(* An execution that ends tells the truth if its report does.              *)
LEMMA FinishKeeps ==
    ASSUME IInv, NEW r, Finish(r), r.broken => r.rolledBack,
           active' \in BackendConfig, authoritative' \in BackendConfig \ {Partial},
           r.status \in Declared => active' = r.status /\ authoritative' = r.status,
           r.status \notin Declared =>
               r.broken \/ (active' = before[1] /\ authoritative' = before[2])
    PROVE  IInv'
<1>1. TypeOK'
  <2>1. NoCall.snapshot \in Snapshot
    <3>1. 0 \in 0..MaxTime BY CandidatesAreRanked
    <3>2. [c \in Declared |-> "none"] \in [Declared -> Value] BY DEF Value
    <3> QED BY <3>1, <3>2 DEF NoCall, NoRecord, Snapshot
  <2> QED BY <2>1 DEF IInv, TypeOK, Candidates, Stage, Finish, evidenceVars, planVars
<1>2. before' = before /\ stage' = "idle" BY DEF Finish
<1>3. StageInv' BY <1>2 DEF IInv, StageInv
<1>4. ReportIsTrue'
  <2>1. before = <<before[1], before[2]>> BY DEF IInv, StageInv
  <2> QED BY <1>2, <2>1 DEF ReportIsTrue, Finish, backendVars
<1>5. RecordInv' BY DEF IInv, RecordInv, Finish, evidenceVars, planVars
<1>6. CarriedOutIsChosen' BY <1>2 DEF CarriedOutIsChosen
<1> QED BY <1>1, <1>3, <1>4, <1>5, <1>6 DEF IInv

(* None of the statuses that name no candidate is one.                     *)
LEMMA StatusNamesNoCandidate ==
    /\ "failed" \notin Declared /\ "blocked" \notin Declared /\ "pending" \notin Declared
    /\ Partial \notin Declared /\ Initial # Partial
BY CandidatesAreRanked DEF Reserved, Initial, Partial

(* A refusal during an execution leaves the backend as it was.             *)
LEMMA RefuseKeeps ==
    ASSUME IInv, stage \in {"validate", "act"}, NEW at, Finish(Refused(at)),
           UNCHANGED backendVars
    PROVE  IInv'
<1>1. /\ Refused(at).status \notin Declared /\ Refused(at).broken = FALSE
      BY StatusNamesNoCandidate DEF Refused, Report
<1>2. active' = before[1] /\ authoritative' = before[2]
      BY DEF IInv, StageInv, backendVars
<1>3. active' \in BackendConfig /\ authoritative' \in BackendConfig \ {Partial}
      BY DEF IInv, TypeOK, backendVars
<1> QED BY <1>1, <1>2, <1>3, FinishKeeps

-----------------------------------------------------------------------------
(* One lemma for each action.                                              *)

(* Time and providers touch neither a kept selection nor an execution.     *)
LEMMA EvidenceKeeps ==
    ASSUME IInv, Tick \/ \E v \in [Declared -> Value] : Probe(v)
    PROVE  IInv'
<1>1. /\ UNCHANGED <<boundary, calls, trace, record, stage, call,
                     active, authoritative, before, report>>
      /\ clock' \in 0..MaxTime /\ snapshot' \in Snapshot
      BY CandidatesAreRanked
      DEF IInv, TypeOK, Tick, Probe, Snapshot, planVars, backendVars
<1>2. TypeOK' BY <1>1 DEF IInv, TypeOK, Candidates
<1>3. StageInv' BY <1>1 DEF IInv, StageInv
<1>4. ReportIsTrue' BY <1>1 DEF IInv, ReportIsTrue, backendVars
<1>5. RecordInv' BY <1>1 DEF IInv, RecordInv
<1>6. CarriedOutIsChosen'
  <2>1. CASE stage = "idle" BY <1>1, <2>1 DEF CarriedOutIsChosen
  <2>2. CASE stage # "idle" BY <1>1, <2>2, SameCall
  <2> QED BY <2>1, <2>2
<1> QED BY <1>2, <1>3, <1>4, <1>5, <1>6 DEF IInv

(* A kernel plan keeps a selection that the evidence admits.               *)
LEMMA PlanKeeps ==
    ASSUME IInv, NEW outcome \in Outcome, NEW traced \in BOOLEAN, Plan(outcome, traced)
    PROVE  IInv'
<1>1. /\ UNCHANGED <<boundary, clock, snapshot, calls, stage, call,
                     active, authoritative, before, report>>
      /\ stage = "idle" /\ outcome \in Outcomes(snapshot, clock)
      BY DEF Plan, evidenceVars, backendVars
<1>2. trace' = trace \/ trace'.outcome = outcome
      BY DEF Plan, TraceOf
<1>3. snapshot \in Snapshot /\ clock \in Nat
      BY CandidatesAreRanked DEF IInv, TypeOK
<1>4. record'.outcome \in Outcome /\ record'.value \in [Declared -> Value]
      BY <1>3 DEF IInv, TypeOK, Plan, Snapshot
<1>5. TypeOK' BY <1>1, <1>2, <1>4 DEF IInv, TypeOK, Candidates
<1>6. StageInv' BY <1>1 DEF IInv, StageInv
<1>7. ReportIsTrue' BY <1>1 DEF IInv, ReportIsTrue, backendVars
<1>8. RecordInv'
  <2>1. SUFFICES ASSUME boundary = "kernel", record'.outcome \in Declared
                 PROVE  /\ \A c \in Declared : record'.value[c] # "none"
                        /\ record'.value[record'.outcome] = "good"
        BY <1>1 DEF RecordInv
  <2>2. record' = [outcome |-> outcome, value |-> snapshot.value] BY <2>1 DEF Plan
  <2>3. outcome \in Declared BY <2>1, <2>2
  <2> QED BY <1>1, <1>3, <2>1, <2>2, <2>3, SelectionAdmits
<1>9. CarriedOutIsChosen' BY <1>1 DEF CarriedOutIsChosen
<1> QED BY <1>5, <1>6, <1>7, <1>8, <1>9 DEF IInv

(* A report that refuses or blocks names no candidate.                     *)
LEMMA RefusalsName ==
    /\ Blocked.status \notin Declared /\ Blocked.broken = FALSE
    /\ \A at : Refused(at).status \notin Declared /\ Refused(at).broken = FALSE
BY StatusNamesNoCandidate DEF Blocked, Refused, Report

(* The thermal boundary binds the one transition, when it is admitted.     *)
LEMMA ThermalKeeps ==
    ASSUME IInv, NEW guarded \in BOOLEAN, ExecuteThermal(guarded)
    PROVE  IInv'
<1>1. boundary = "thermal" /\ stage = "idle" /\ calls < MaxCalls BY DEF ExecuteThermal
<1>2. CASE TruthOf(Only, snapshot, clock) = "True" /\ Bind(Only, guarded)
  <2>1. Only \in Outcomes(snapshot, clock) BY <1>1, <1>2, OnlyIsChosen
  <2>2. Only \in Candidates BY <1>1 DEF Candidates
  <2> QED BY <1>1, <1>2, <2>1, <2>2, BindKeeps
<1>3. CASE Answer(IF guarded THEN Blocked ELSE Refused("validate"))
  <2> DEFINE r == IF guarded THEN Blocked ELSE Refused("validate")
  <2>1. r.status \notin Declared /\ r.broken = FALSE BY RefusalsName
  <2>2. Answer(r) BY <1>3
  <2> HIDE DEF r
  <2> QED BY <1>1, <2>1, <2>2, AnswerKeeps
<1> QED BY <1>2, <1>3 DEF ExecuteThermal

(* The guarded batch boundary binds what planning chooses at this time.    *)
LEMMA BatchKeeps ==
    ASSUME IInv, ExecuteBatch
    PROVE  IInv'
<1>1. boundary = "batch" /\ stage = "idle" /\ calls < MaxCalls BY DEF ExecuteBatch
<1>2. CASE trace.outcome \in Declared /\ TraceMatches /\ Bind(trace.outcome, TRUE)
  <2>1. trace.outcome \in Outcomes(snapshot, clock)
        BY <1>2 DEF TraceMatches, TraceOf
  <2>2. trace.outcome \in Candidates BY <1>1, <1>2 DEF Candidates
  <2> QED BY <1>1, <1>2, <2>1, <2>2, BindKeeps
<1>3. CASE Answer(Blocked) BY <1>1, <1>3, RefusalsName, AnswerKeeps
<1> QED BY <1>2, <1>3 DEF ExecuteBatch

(* The unguarded batch boundary binds any candidate.                       *)
LEMMA BatchUnguardedKeeps ==
    ASSUME IInv, NEW c \in Declared, ExecuteBatchUnguarded(c)
    PROVE  IInv'
<1>1. boundary = "batch" /\ stage = "idle" /\ calls < MaxCalls
      BY DEF ExecuteBatchUnguarded
<1>2. CASE Bind(c, FALSE)
  <2>1. c \in Candidates BY <1>1 DEF Candidates
  <2> QED BY <1>1, <1>2, <2>1, BindKeeps
<1>3. CASE Answer(Refused("bind")) BY <1>1, <1>3, RefusalsName, AnswerKeeps
<1> QED BY <1>2, <1>3 DEF ExecuteBatchUnguarded

(* The kernel boundary binds a kept selection that the snapshot repeats.   *)
LEMMA KernelKeeps ==
    ASSUME IInv, NEW guarded \in BOOLEAN, ExecuteKernel(guarded)
    PROVE  IInv'
<1>1. boundary = "kernel" /\ stage = "idle" /\ calls < MaxCalls BY DEF ExecuteKernel
<1>2. CASE /\ record.outcome \in Declared /\ SelectionStands
           /\ Bind(record.outcome, guarded)
  <2>1. snapshot.value = record.value BY <1>2 DEF SelectionStands
  <2>2. /\ \A c \in Declared : snapshot.value[c] # "none"
        /\ snapshot.value[record.outcome] = "good"
        BY <1>1, <1>2, <2>1 DEF IInv, RecordInv
  <2>3. snapshot \in Snapshot BY DEF IInv, TypeOK
  <2>4. record.outcome \in Outcomes(snapshot, snapshot.at)
        BY <1>1, <1>2, <2>2, <2>3, AdmittedIsChosen
  <2>5. record.outcome \in Candidates BY <1>1, <1>2 DEF Candidates
  <2> QED BY <1>1, <1>2, <2>4, <2>5, BindKeeps
<1>3. CASE Answer(Blocked) BY <1>1, <1>3, RefusalsName, AnswerKeeps
<1>4. CASE Answer(Refused("bind")) BY <1>1, <1>4, RefusalsName, AnswerKeeps
<1> QED BY <1>2, <1>3, <1>4 DEF ExecuteKernel

(* Validation touches nothing; a refusal ends the execution.               *)
LEMMA ValidateKeeps ==
    ASSUME IInv, ValidateCandidate \/ ActionTimeRefuses
    PROVE  IInv'
<1>1. stage \in {"validate", "act"} /\ UNCHANGED backendVars
      BY DEF ValidateCandidate, ActionTimeRefuses
<1>2. CASE Finish(Refused("validate")) BY <1>1, <1>2, RefuseKeeps
<1>3. CASE Proceed("act")
  <2>1. StageInv' BY <1>1, <1>3 DEF IInv, StageInv, Proceed, backendVars
  <2>2. active' \in BackendConfig /\ authoritative' \in BackendConfig \ {Partial}
        BY <1>1 DEF IInv, TypeOK, backendVars
  <2>3. "act" \in Stage \ {"idle"} BY DEF Stage
  <2> QED BY <1>1, <1>3, <2>1, <2>2, <2>3, ProceedKeeps
<1> QED BY <1>2, <1>3 DEF ValidateCandidate, ActionTimeRefuses

(* What an execution carries out is a declared candidate.                  *)
LEMMA CallTyped ==
    ASSUME IInv, stage # "idle"
    PROVE  call.candidate \in Declared /\ call.candidate \in BackendConfig \ {Partial}
BY OnlyIsCandidate, StatusNamesNoCandidate DEF IInv, TypeOK, Candidates, BackendConfig

(* An actuation may leave a part of the switch, and commits none of it.    *)
LEMMA ActuateKeeps ==
    ASSUME IInv, ActuateCandidate
    PROVE  IInv'
<1>1. stage = "act" /\ authoritative' = authoritative BY DEF ActuateCandidate
<1>2. call.candidate \in BackendConfig BY <1>1, CallTyped
<1>3. active' \in BackendConfig
      BY <1>1, <1>2 DEF IInv, TypeOK, ActuateCandidate, BackendConfig
<1>4. authoritative' \in BackendConfig \ {Partial} BY <1>1 DEF IInv, TypeOK
<1>5. PICK next \in {"verify", "rollback act"} : Proceed(next) BY DEF ActuateCandidate
<1>6. next \in Stage \ {"idle"} BY <1>5 DEF Stage
<1>7. StageInv' BY <1>1, <1>5 DEF IInv, StageInv, Proceed
<1> QED BY <1>1, <1>3, <1>4, <1>5, <1>6, <1>7, ProceedKeeps

(* A verification that passes found the candidate running.                 *)
LEMMA VerifyKeeps ==
    ASSUME IInv, VerifyCandidate
    PROVE  IInv'
<1>1. stage = "verify" /\ UNCHANGED <<active, authoritative>>
      BY DEF VerifyCandidate, backendVars
<1>2. active' \in BackendConfig /\ authoritative' \in BackendConfig \ {Partial}
      BY <1>1 DEF IInv, TypeOK
<1>3. CASE active = call.candidate /\ Proceed("commit")
  <2>1. StageInv' BY <1>1, <1>3 DEF IInv, StageInv, Proceed
  <2>2. "commit" \in Stage \ {"idle"} BY DEF Stage
  <2> QED BY <1>1, <1>2, <1>3, <2>1, <2>2, ProceedKeeps
<1>4. CASE Proceed("rollback verify")
  <2>1. StageInv' BY <1>1, <1>4 DEF IInv, StageInv, Proceed
  <2>2. "rollback verify" \in Stage \ {"idle"} BY DEF Stage
  <2> QED BY <1>1, <1>2, <1>4, <2>1, <2>2, ProceedKeeps
<1> QED BY <1>3, <1>4 DEF VerifyCandidate

(* A commit that succeeds is what its report says.                         *)
LEMMA CommitKeeps ==
    ASSUME IInv, CommitCandidate
    PROVE  IInv'
<1>1. stage = "commit" /\ active' = active BY DEF CommitCandidate
<1>2. active = call.candidate BY <1>1 DEF IInv, StageInv
<1>3. call.candidate \in Declared /\ call.candidate \in BackendConfig \ {Partial}
      BY <1>1, CallTyped
<1>4. active' \in BackendConfig BY <1>1 DEF IInv, TypeOK
<1>5. authoritative' \in BackendConfig \ {Partial}
      BY <1>3 DEF IInv, TypeOK, CommitCandidate
<1>6. CASE /\ authoritative' = call.candidate
           /\ Finish(Committed(call.candidate))
  <2> DEFINE r == Committed(call.candidate)
  <2>1. r.status = call.candidate /\ r.broken = FALSE BY DEF Committed, Report
  <2>2. Finish(r) BY <1>6
  <2>3. r.status \in Declared => active' = r.status /\ authoritative' = r.status
        BY <1>1, <1>2, <1>6, <2>1
  <2> HIDE DEF r
  <2> QED BY <1>3, <1>4, <1>5, <2>1, <2>2, <2>3, FinishKeeps
<1>7. CASE Proceed("rollback commit")
  <2>1. StageInv' BY <1>7 DEF IInv, StageInv, Proceed
  <2>2. "rollback commit" \in Stage \ {"idle"} BY DEF Stage
  <2> QED BY <1>1, <1>4, <1>5, <1>7, <2>1, <2>2, ProceedKeeps
<1> QED BY <1>6, <1>7 DEF CommitCandidate

(* A rollback restores the backend, or its failure is reported.            *)
LEMMA RollbackKeeps ==
    ASSUME IInv, RollbackCandidate
    PROVE  IInv'
<1>1. "failed" \notin Declared BY StatusNamesNoCandidate
<1>2. before[1] \in BackendConfig /\ before[2] \in BackendConfig \ {Partial} BY DEF IInv, StageInv
<1>3. active' \in BackendConfig /\ authoritative' \in BackendConfig \ {Partial}
      BY <1>2 DEF IInv, TypeOK, RollbackCandidate, backendVars
<1>4. CASE /\ active' = before[1] /\ authoritative' = before[2]
           /\ Finish(Report("failed", FailedAt, TRUE, FALSE))
  <2> DEFINE r == Report("failed", FailedAt, TRUE, FALSE)
  <2>1. r.status = "failed" /\ r.broken = FALSE BY DEF Report
  <2>2. Finish(r) BY <1>4
  <2> HIDE DEF r
  <2> QED BY <1>1, <1>3, <1>4, <2>1, <2>2, FinishKeeps
<1>5. CASE Finish(Report("failed", FailedAt, TRUE, TRUE))
  <2> DEFINE r == Report("failed", FailedAt, TRUE, TRUE)
  <2>1. r.status = "failed" /\ r.broken = TRUE /\ r.rolledBack = TRUE BY DEF Report
  <2>2. Finish(r) BY <1>5
  <2> HIDE DEF r
  <2> QED BY <1>1, <1>3, <2>1, <2>2, FinishKeeps
<1> QED BY <1>4, <1>5 DEF RollbackCandidate

-----------------------------------------------------------------------------
(* The invariant, and what follows from it.                                *)

(* At the start the backend runs its first configuration, and no caller    *)
(* has been told anything of a candidate.                                  *)
LEMMA InitialInvariant == Init => IInv
<1> SUFFICES ASSUME Init PROVE IInv
    OBVIOUS
<1>1. 0 \in 0..MaxTime /\ 0 \in 0..MaxCalls BY CandidatesAreRanked
<1>2. NoCandidate \notin Declared BY CandidatesAreRanked DEF Reserved
<1>3. [c \in Declared |-> "none"] \in [Declared -> Value] BY DEF Value
<1>4. Initial \in BackendConfig \ {Partial} BY DEF BackendConfig, Initial, Partial
<1>5. TypeOK
  <2>1. snapshot \in Snapshot /\ call.snapshot \in Snapshot
        BY <1>1, <1>3 DEF Init, NoCall, NoRecord, Snapshot
  <2>2. record.outcome \in Outcome /\ record.value \in [Declared -> Value]
        BY <1>3 DEF Init, NoRecord, Outcome
  <2>3. report.broken = FALSE BY DEF Init, Blocked, Report
  <2> QED BY <1>1, <1>4, <2>1, <2>2, <2>3 DEF Init, TypeOK, Stage
<1>6. StageInv BY <1>4 DEF Init, StageInv
<1>7. ReportIsTrue BY RefusalsName DEF Init, ReportIsTrue, backendVars
<1>8. RecordInv BY <1>2 DEF Init, RecordInv, NoRecord
<1>9. CarriedOutIsChosen BY DEF Init, CarriedOutIsChosen
<1> QED BY <1>5, <1>6, <1>7, <1>8, <1>9 DEF IInv

(* Every step of the three boundaries, and of time, keeps it.              *)
LEMMA InvariantKept == IInv /\ [Next]_vars => IInv'
<1> SUFFICES ASSUME IInv, [Next]_vars PROVE IInv'
    OBVIOUS
<1>1. CASE Next
  <2>1. CASE Tick \/ \E v \in [Declared -> Value] : Probe(v) BY <2>1, EvidenceKeeps
  <2>2. CASE \E outcome \in Outcome, traced \in BOOLEAN : Plan(outcome, traced)
        BY <2>2, PlanKeeps
  <2>3. CASE \E guarded \in BOOLEAN : ExecuteThermal(guarded) BY <2>3, ThermalKeeps
  <2>4. CASE \E guarded \in BOOLEAN : ExecuteKernel(guarded) BY <2>4, KernelKeeps
  <2>5. CASE ExecuteBatch BY <2>5, BatchKeeps
  <2>6. CASE \E c \in Declared : ExecuteBatchUnguarded(c) BY <2>6, BatchUnguardedKeeps
  <2>7. CASE ValidateCandidate \/ ActionTimeRefuses BY <2>7, ValidateKeeps
  <2>8. CASE ActuateCandidate BY <2>8, ActuateKeeps
  <2>9. CASE VerifyCandidate BY <2>9, VerifyKeeps
  <2>10. CASE CommitCandidate BY <2>10, CommitKeeps
  <2>11. CASE RollbackCandidate BY <2>11, RollbackKeeps
  <2> QED BY <1>1, <2>1, <2>2, <2>3, <2>4, <2>5, <2>6, <2>7, <2>8, <2>9, <2>10, <2>11
          DEF Next
<1>2. CASE UNCHANGED vars
  <2>1. UNCHANGED <<boundary, clock, snapshot, calls, trace, record, stage, call,
                    active, authoritative, before, report>>
        BY <1>2 DEF vars, evidenceVars, planVars, backendVars
  <2>2. TypeOK' BY <2>1 DEF IInv, TypeOK, Candidates
  <2>3. StageInv' /\ RecordInv' BY <2>1 DEF IInv, StageInv, RecordInv
  <2>4. ReportIsTrue' BY <2>1 DEF IInv, ReportIsTrue, backendVars
  <2>5. CarriedOutIsChosen'
    <3>1. CASE stage = "idle" BY <2>1, <3>1 DEF CarriedOutIsChosen
    <3>2. CASE stage # "idle" BY <2>1, <3>2, SameCall
    <3> QED BY <3>1, <3>2
  <2> QED BY <2>2, <2>3, <2>4, <2>5 DEF IInv
<1> QED BY <1>1, <1>2

(* The invariant holds in every state of every execution.                  *)
THEOREM Invariant == Spec => []IInv
BY InitialInvariant, InvariantKept, PTL DEF Spec

(* The types; in particular, no execution ever commits a configuration     *)
(* that an actuation left half done.                                       *)
THEOREM TypeCorrect == Spec => []TypeOK
<1>1. IInv => TypeOK BY DEF IInv
<1> QED BY <1>1, Invariant, PTL

(* What a caller is told of an execution is what it did to the backend: a  *)
(* commit switched it, a block or a failure restored it, or says that the  *)
(* rollback failed.                                                        *)
THEOREM ReportsAreTrue == Spec => []ReportIsTrue
<1>1. IInv => ReportIsTrue BY DEF IInv
<1> QED BY <1>1, Invariant, PTL

(* A guarded execution carries out what planning would choose on the       *)
(* snapshot that it was handed.                                            *)
THEOREM OnlyChosenCarriedOut == Spec => []CarriedOutIsChosen
<1>1. IInv => CarriedOutIsChosen BY DEF IInv
<1> QED BY <1>1, Invariant, PTL

(* The clock is a natural number.                                          *)
LEMMA ClockIsNatural == ASSUME TypeOK PROVE clock \in Nat
BY CandidatesAreRanked DEF TypeOK

(* A thermal transition that is admitted has fresh and good signals.       *)
LEMMA AdmittedIsGood ==
    ASSUME boundary = "thermal", NEW s \in Snapshot, NEW now \in Nat,
           TruthOf(Only, s, now) = "True"
    PROVE  now - s.at <= MaxAge /\ \A k \in Declared : s.value[k] = "good"
<1>1. Fresh(s, now) BY DEF TruthOf
<1> DEFINE truths == {Classify(s.value[k]) : k \in Declared}
<1>2. KleeneAnd(truths) = "True" BY <1>1 DEF TruthOf, Signals
<1>3. "False" \notin truths /\ "Unknown" \notin truths BY <1>2 DEF KleeneAnd
<1>4. \A k \in Declared : s.value[k] \in Value BY DEF Snapshot
<1>5. \A k \in Declared : Classify(s.value[k]) \notin {"False", "Unknown"} BY <1>3
<1>6. \A k \in Declared : s.value[k] = "good" BY <1>4, <1>5 DEF Classify, Value
<1> QED BY <1>1, <1>6 DEF Fresh

(* A thermal execution mutates only on evidence that is fresh at the time  *)
(* of the mutation, and good of every signal.                              *)
THEOREM ActionsInTime == Spec => ActsInTime
<1> DEFINE InTime ==
        boundary = "thermal" /\ stage = "act" /\ stage' \in {"verify", "rollback act"} =>
          /\ clock - call.snapshot.at <= MaxAge
          /\ \A k \in Declared : call.snapshot.value[k] = "good"
<1>1. IInv /\ [Next]_vars => [InTime]_vars
  <2> SUFFICES ASSUME IInv, Next, boundary = "thermal", stage = "act",
                      stage' \in {"verify", "rollback act"}
               PROVE  /\ clock - call.snapshot.at <= MaxAge
                      /\ \A k \in Declared : call.snapshot.value[k] = "good"
      OBVIOUS
  <2>1. ActuateCandidate
    <3>1. stage # stage'
          OBVIOUS
    <3>2. ~Tick /\ ~(\E v \in [Declared -> Value] : Probe(v)) BY <3>1 DEF Tick, Probe
    <3>3. ~(\E outcome \in Outcome, traced \in BOOLEAN : Plan(outcome, traced)) BY DEF Plan
    <3>4. \A guarded \in BOOLEAN : ~ExecuteThermal(guarded) /\ ~ExecuteKernel(guarded)
          BY DEF ExecuteThermal, ExecuteKernel
    <3>5. ~ExecuteBatch /\ \A c \in Declared : ~ExecuteBatchUnguarded(c)
          BY DEF ExecuteBatch, ExecuteBatchUnguarded
    <3>6. ~ValidateCandidate /\ ~VerifyCandidate /\ ~CommitCandidate /\ ~RollbackCandidate
          BY DEF ValidateCandidate, VerifyCandidate, CommitCandidate, RollbackCandidate
    <3>7. ~ActionTimeRefuses BY DEF ActionTimeRefuses, Finish
    <3> QED BY <3>2, <3>3, <3>4, <3>5, <3>6, <3>7 DEF Next
  <2>2. TruthOf(call.candidate, call.snapshot, clock) = "True"
        BY <2>1 DEF ActuateCandidate, ActionTimeAdmits
  <2>3. call.candidate = Only BY DEF IInv, TypeOK, Candidates
  <2>4. call.snapshot \in Snapshot BY DEF IInv, TypeOK
  <2>5. clock \in Nat BY ClockIsNatural DEF IInv
  <2> QED BY <2>5, <2>2, <2>3, <2>4, AdmittedIsGood
<1>2. ActsInTime <=> [][InTime]_vars BY DEF ActsInTime
<1> QED BY <1>1, <1>2, Invariant, PTL DEF Spec

-----------------------------------------------------------------------------
(* The trail of a run.                                                     *)

(* How often an event occurs is a number.                                  *)
LEMMA OccurrencesCount ==
    ASSUME NEW S, NEW s \in Seq(S), NEW k
    PROVE  Occurrences(s, k) \in Nat
<1> DEFINE at == {i \in DOMAIN s : s[i] = k}
<1>1. IsFiniteSet(1..Len(s)) BY LenProperties, FS_Interval
<1>2. at \subseteq 1..Len(s) BY LenProperties
<1>3. IsFiniteSet(at) BY <1>1, <1>2, FS_Subset
<1> QED BY <1>3, FS_CardinalityType DEF Occurrences

(* In two sequences it occurs as often as in the one and in the other.     *)
LEMMA OccurrencesConcat ==
    ASSUME NEW S, NEW s \in Seq(S), NEW t \in Seq(S), NEW k
    PROVE  Occurrences(s \o t, k) = Occurrences(s, k) + Occurrences(t, k)
<1> DEFINE m == Len(s)
           n == Len(t)
           A == {i \in DOMAIN s : s[i] = k}
           B == {i \in DOMAIN t : t[i] = k}
           C == {m + i : i \in B}
           f == [i \in B |-> m + i]
<1>1. m \in Nat /\ n \in Nat /\ DOMAIN s = 1..m /\ DOMAIN t = 1..n BY LenProperties
<1>2. IsFiniteSet(A) /\ IsFiniteSet(B)
  <2>1. IsFiniteSet(1..m) /\ IsFiniteSet(1..n) BY <1>1, FS_Interval
  <2>2. A \subseteq 1..m /\ B \subseteq 1..n BY <1>1
  <2> QED BY <2>1, <2>2, FS_Subset
<1>3. IsFiniteSet(C) /\ Cardinality(C) = Cardinality(B)
  <2> HIDE DEF m
  <2>1. B \subseteq Nat BY <1>1
  <2>2. f \in [B -> C] BY DEF f
  <2>3. \A i, j \in B : f[i] = f[j] => i = j BY <2>1, <1>1
  <2>4. \A c \in C : \E i \in B : f[i] = c OBVIOUS
  <2>5. f \in Bijection(B, C) BY <2>2, <2>3, <2>4 DEF Bijection, Injection, Surjection, IsInjective
  <2>6. ExistsBijection(B, C) BY <2>5 DEF ExistsBijection
  <2> QED BY <1>2, <2>6, FS_Bijection
<1>4. {i \in DOMAIN (s \o t) : (s \o t)[i] = k} = A \cup C
  <2>1. DOMAIN (s \o t) = 1..(m + n) BY <1>1, ConcatProperties, LenProperties
  <2>2. \A i \in 1..m : (s \o t)[i] = s[i] BY <1>1, ConcatProperties
  <2>3. \A i \in 1..n : (s \o t)[m + i] = t[i] BY <1>1, ConcatProperties
  <2>4. \A i \in (m+1)..(m + n) : (i - m) \in 1..n /\ i = m + (i - m) BY <1>1
  <2> HIDE DEF m, n
  <2>5. ASSUME NEW i \in 1..(m+n), (s \o t)[i] = k PROVE i \in A \cup C
    <3>1. CASE i \in 1..m BY <3>1, <2>2, <2>5, <1>1
    <3>2. CASE i \in (m+1)..(m+n) BY <3>2, <2>3, <2>4, <2>5, <1>1
    <3> QED BY <3>1, <3>2, <1>1
  <2>6. A \subseteq {i \in 1..(m+n) : (s \o t)[i] = k} BY <2>2, <1>1
  <2>7. C \subseteq {i \in 1..(m+n) : (s \o t)[i] = k} BY <2>3, <1>1
  <2> QED BY <2>1, <2>5, <2>6, <2>7
<1>5. A \cap C = {} BY <1>1
<1>6. Cardinality(A \cup C) = Cardinality(A) + Cardinality(C) - Cardinality(A \cap C)
      BY <1>2, <1>3, FS_Union
<1>7. Cardinality({}) = 0 BY FS_EmptySet
<1>8. Cardinality(A) \in Nat /\ Cardinality(B) \in Nat BY <1>2, FS_CardinalityType
<1>9. /\ Occurrences(s \o t, k) = Cardinality(A \cup C)
      /\ Occurrences(s, k) = Cardinality(A) /\ Occurrences(t, k) = Cardinality(B)
      BY <1>4 DEF Occurrences
<1>10. Cardinality(A \cap C) = 0 BY <1>5, <1>7
<1> HIDE DEF A, B, C
<1> QED BY <1>3, <1>6, <1>8, <1>9, <1>10

(* In no event nothing occurs, in one event that one.                      *)
LEMMA OccurrencesNone == \A k : Occurrences(<<>>, k) = 0
<1>1. TAKE k
<1>2. {i \in DOMAIN <<>> : <<>>[i] = k} = {} OBVIOUS
<1> QED BY <1>2, FS_EmptySet DEF Occurrences

LEMMA OccurrencesOne ==
    ASSUME NEW e, NEW k
    PROVE  Occurrences(<<e>>, k) = IF e = k THEN 1 ELSE 0
<1>1. DOMAIN <<e>> = {1} /\ <<e>>[1] = e OBVIOUS
<1>2. CASE e = k
  <2>1. {i \in DOMAIN <<e>> : <<e>>[i] = k} = {1} BY <1>1, <1>2
  <2> QED BY <1>2, <2>1, FS_Singleton DEF Occurrences
<1>3. CASE e # k
  <2>1. {i \in DOMAIN <<e>> : <<e>>[i] = k} = {} BY <1>1, <1>3
  <2> QED BY <1>3, <2>1, FS_EmptySet DEF Occurrences
<1> QED BY <1>2, <1>3

LEMMA OccurrencesTwo ==
    ASSUME NEW d \in EventKind, NEW e \in EventKind, NEW k
    PROVE  Occurrences(<<d, e>>, k) = (IF d = k THEN 1 ELSE 0) + (IF e = k THEN 1 ELSE 0)
<1>1. <<d>> \in Seq(EventKind) /\ <<e>> \in Seq(EventKind) OBVIOUS
<1>2. <<d, e>> = Append(<<d>>, e) OBVIOUS
<1>3. <<d, e>> = <<d>> \o <<e>> BY <1>1, <1>2, AppendIsConcat
<1>4. Occurrences(<<d>> \o <<e>>, k) = Occurrences(<<d>>, k) + Occurrences(<<e>>, k)
      BY <1>1, OccurrencesConcat, Zenon
<1> QED BY <1>3, <1>4, OccurrencesOne

(* What occurs is among the events.                                        *)
LEMMA OccurrencesRange ==
    ASSUME NEW S, NEW s \in Seq(S), NEW k
    PROVE  k \in Range(s) <=> Occurrences(s, k) # 0
<1> DEFINE at == {i \in DOMAIN s : s[i] = k}
<1>1. IsFiniteSet(1..Len(s)) BY LenProperties, FS_Interval
<1>2. at \subseteq 1..Len(s) BY LenProperties
<1>3. IsFiniteSet(at) BY <1>1, <1>2, FS_Subset
<1>4. Cardinality(at) = 0 <=> at = {} BY <1>3, FS_EmptySet
<1>5. k \in Range(s) <=> at # {} BY DEF Range
<1> QED BY <1>4, <1>5 DEF Occurrences
-----------------------------------------------------------------------------
MidCycle == {"validate", "prepare", "actuate", "verify", "commit", "rollback"}
Verdict == {"none", "Pass", "Fail", "Inconclusive"}
Forecast == {"none", "available", "unavailable"}
Cycle == [events : Seq(EventKind), forecast : Forecast, initial : Candidate \cup {None},
          verification : Verdict]
Result == [forecast : Forecast, initial : Candidate \cup {None}, how : CycleResult,
           proposed : Candidate \cup {None}, validated : BOOLEAN, acted : BOOLEAN,
           verification : Verdict, committed : BOOLEAN, rolledBack : BOOLEAN,
           events : Seq(EventKind)]
(* What only the end of a cycle or of the run records.                     *)
Closing == {"CommitExecuted", "RollbackExecuted", "CycleCompleted", "ControlLoopStopped",
            "ErrorEncountered", "CancellationObserved"}

TrailTypeOK ==
    /\ ControlTypeOK
    /\ flavor \in Flavors
    /\ running \in Cycle
    /\ journal \in Seq(EventKind)
    /\ completed \in Seq(Result)
    /\ done \in [applied : Nat, commits : Nat, rollbacks : Nat]

Of(kind) == Occurrences(running.events, kind)

(* How far the cycle got is what its events say.                           *)
CycleInv ==
    /\ Of("CycleStarted") = IF pc[Loop] \in MidCycle THEN 1 ELSE 0
    /\ \A k \in Closing : Of(k) = 0
    /\ Of("VerificationPerformed") = IF pc[Loop] \in {"commit", "rollback"} THEN 1 ELSE 0
    /\ pc[Loop] \in {"verify", "commit"} => Of("ActuationApplied") = 1
    /\ pc[Loop] = "commit" => running.verification = "Pass"
    /\ pc[Loop] \notin {"verify", "commit", "rollback"} => Of("ActuationApplied") = 0

(* The journal and the running cycle together tell what was done.          *)
JournalInv ==
    pc[Loop] \notin {"start", "stopped"} =>
        /\ journal # <<>> /\ journal[1] = "ControlLoopStarted"
        /\ Occurrences(journal, "ActuationApplied") + Of("ActuationApplied") = done.applied
        /\ Occurrences(journal, "CommitExecuted") = done.commits
        /\ Occurrences(journal, "RollbackExecuted") = done.rollbacks
        /\ Occurrences(journal, "CycleCompleted") = Len(completed)
        /\ Occurrences(journal, "CycleStarted") = Len(completed)
        /\ \A k \in {"ControlLoopStopped", "ErrorEncountered", "CancellationObserved"} :
              Occurrences(journal, k) = 0

BeginningInv ==
    /\ pc[Loop] # "stopped" => stop[Loop] = "running"
    /\ pc[Loop] = "start" =>
          completed = <<>> /\ done = [applied |-> 0, commits |-> 0, rollbacks |-> 0]

TrailInv == TrailTypeOK /\ CycleInv /\ JournalInv /\ BeginningInv /\ TrailTellsTheRun

(* What the cycle told before and what it tells now.                       *)
Tells(cycle, events, kind) == Occurrences(cycle.events, kind) + Occurrences(events, kind)

LEMMA LoopIsController == Loop \in Controller
BY TrailAssumption

(* A cycle that has told more is a cycle.                                  *)
LEMMA ToldCycle ==
    ASSUME NEW cycle \in Cycle, NEW events \in Seq(EventKind)
    PROVE  LET now == [cycle EXCEPT !.events = @ \o events]
           IN /\ now \in Cycle /\ now.events = cycle.events \o events
              /\ now.verification = cycle.verification
              /\ now.forecast = cycle.forecast /\ now.initial = cycle.initial
              /\ \A k : /\ Occurrences(now.events, k) = Tells(cycle, events, k)
                        /\ Tells(cycle, events, k) \in Nat
<1> DEFINE now == [cycle EXCEPT !.events = @ \o events]
<1>1. cycle.events \in Seq(EventKind) BY DEF Cycle
<1>2. cycle.events \o events \in Seq(EventKind) BY <1>1, ConcatProperties
<1>3. now.events = cycle.events \o events BY DEF Cycle
<1>4. \A k : Occurrences(now.events, k) = Tells(cycle, events, k)
  <2>1. TAKE k
  <2>2. Occurrences(cycle.events \o events, k)
          = Occurrences(cycle.events, k) + Occurrences(events, k)
        BY <1>1, OccurrencesConcat
  <2> QED BY <1>3, <2>2 DEF Tells
<1>5. \A k : Tells(cycle, events, k) \in Nat
  <2>1. TAKE k
  <2>2. Occurrences(cycle.events, k) \in Nat BY <1>1, OccurrencesCount
  <2>3. Occurrences(events, k) \in Nat BY OccurrencesCount
  <2> QED BY <2>2, <2>3 DEF Tells
<1>6. now \in Cycle BY <1>2 DEF Cycle
<1>7. now.verification = cycle.verification
      /\ now.forecast = cycle.forecast /\ now.initial = cycle.initial BY DEF Cycle
<1> HIDE DEF now
<1> QED BY <1>3, <1>4, <1>5, <1>6, <1>7 DEF now

(* A cycle that has not begun has told nothing.                            *)
LEMMA UnbegunCycle ==
    /\ Unbegun \in Cycle /\ Unbegun.events = <<>>
    /\ \A k : Occurrences(Unbegun.events, k) = 0
<1>1. <<>> \in Seq(EventKind) BY EmptySeq
<1> QED BY <1>1, OccurrencesNone DEF Unbegun, Cycle, Forecast, Verdict

(* A step within a cycle, which has told what its place says.              *)
LEMMA GoingKeepsTrail ==
    ASSUME TrailInv, NEW cycle \in Cycle, NEW events \in Seq(EventKind),
           Goes(Loop), Recorded(events, cycle),
           pc[Loop] \notin {"start", "stopped"}, pc'[Loop] \in MidCycle,
           Tells(cycle, events, "CycleStarted") = 1,
           \A k \in Closing : Tells(cycle, events, k) = 0,
           Tells(cycle, events, "VerificationPerformed")
             = IF pc'[Loop] \in {"commit", "rollback"} THEN 1 ELSE 0,
           pc'[Loop] \in {"verify", "commit"} => Tells(cycle, events, "ActuationApplied") = 1,
           pc'[Loop] \notin {"verify", "commit", "rollback"} =>
             Tells(cycle, events, "ActuationApplied") = 0,
           pc'[Loop] = "commit" => cycle.verification = "Pass",
           done' = [done EXCEPT !.applied =
             Occurrences(journal, "ActuationApplied") + Tells(cycle, events, "ActuationApplied")]
    PROVE  TrailInv'
<1> DEFINE now == [cycle EXCEPT !.events = @ \o events]
<1>1. /\ now \in Cycle /\ now.verification = cycle.verification
      /\ \A k : /\ Occurrences(now.events, k) = Tells(cycle, events, k)
                /\ Tells(cycle, events, k) \in Nat
      BY ToldCycle
<1>2. stop[Loop] = "running" BY DEF TrailInv, BeginningInv
<1>3. running' = now /\ UNCHANGED <<flavor, completed, journal>>
      BY <1>2 DEF Recorded, Goes
<1>4. pc'[Loop] # "stopped" /\ pc'[Loop] # "start" BY DEF MidCycle
<1> HIDE DEF now
<1>5. Occurrences(journal, "ActuationApplied") \in Nat
      BY OccurrencesCount DEF TrailInv, TrailTypeOK
<1>6. done' \in [applied : Nat, commits : Nat, rollbacks : Nat]
  <2>1. done \in [applied : Nat, commits : Nat, rollbacks : Nat]
        BY DEF TrailInv, TrailTypeOK
  <2>2. Occurrences(journal, "ActuationApplied") + Tells(cycle, events, "ActuationApplied")
          \in Nat
        BY <1>1, <1>5
  <2> QED BY <2>1, <2>2
<1>7. done'.applied = Occurrences(journal, "ActuationApplied") + Tells(cycle, events, "ActuationApplied")
      /\ done'.commits = done.commits /\ done'.rollbacks = done.rollbacks
      BY DEF TrailInv, TrailTypeOK
<1>8. ControlTypeOK' BY DEF Goes, Moves
<1>9. TrailTypeOK' BY <1>1, <1>3, <1>6, <1>8 DEF TrailInv, TrailTypeOK
<1>10. CycleInv' BY <1>1, <1>3 DEF CycleInv, Of
<1>11. JournalInv' BY <1>1, <1>3, <1>7 DEF TrailInv, JournalInv, Of
<1>12. BeginningInv' BY <1>2, <1>4 DEF BeginningInv, Goes
<1>13. TrailTellsTheRun' BY <1>3, <1>4 DEF TrailInv, TrailTellsTheRun
<1> QED BY <1>9, <1>10, <1>11, <1>12, <1>13 DEF TrailInv

(* The end of a cycle, which has told its result.                          *)
LEMMA CompletingKeepsTrail ==
    ASSUME TrailInv, NEW cycle \in Cycle, NEW events \in Seq(EventKind),
           NEW how \in CycleResult, Completes(Loop, how), Recorded(events, cycle),
           pc[Loop] \notin {"start", "stopped"},
           Tells(cycle, events, "CycleStarted") = 1, Tells(cycle, events, "CycleCompleted") = 1,
           \A k \in {"ControlLoopStopped", "ErrorEncountered", "CancellationObserved"} :
              Tells(cycle, events, k) = 0,
           Tells(cycle, events, "CommitExecuted") = IF how = "committed" THEN 1 ELSE 0,
           Tells(cycle, events, "RollbackExecuted") = IF how = "rolledBack" THEN 1 ELSE 0,
           Tells(cycle, events, "VerificationPerformed")
             = IF how \in {"committed", "rolledBack"} THEN 1 ELSE 0,
           how = "committed" => /\ cycle.verification = "Pass"
                                /\ Tells(cycle, events, "ActuationApplied") # 0,
           events # <<>>, events[Len(events)] = "CycleCompleted",
           done' = [applied |-> Occurrences(journal, "ActuationApplied")
                                  + Tells(cycle, events, "ActuationApplied"),
                    commits |-> done.commits + (IF how = "committed" THEN 1 ELSE 0),
                    rollbacks |-> done.rollbacks + (IF how = "rolledBack" THEN 1 ELSE 0)]
    PROVE  TrailInv'
<1> DEFINE now == [cycle EXCEPT !.events = @ \o events]
           r == ResultOf(how, now)
<1>1. /\ now \in Cycle /\ now.verification = cycle.verification
      /\ now.events = cycle.events \o events
      /\ \A k : /\ Occurrences(now.events, k) = Tells(cycle, events, k)
                /\ Tells(cycle, events, k) \in Nat
      BY ToldCycle
<1>2. /\ completed' = Append(completed, r) /\ journal' = journal \o now.events
      /\ running' = Unbegun /\ UNCHANGED flavor
  <2>1. stop'[Loop] # "error" BY DEF TrailInv, BeginningInv, Completes
  <2>2. cycles'[Loop] # cycles[Loop] /\ result'[Loop] = how BY DEF Completes
  <2> QED BY <2>1, <2>2 DEF Recorded
<1> HIDE DEF now
<1>3. /\ journal \in Seq(EventKind) /\ completed \in Seq(Result) /\ ControlTypeOK
      /\ done \in [applied : Nat, commits : Nat, rollbacks : Nat]
      BY DEF TrailInv, TrailTypeOK
<1>4. now.events \in Seq(EventKind) BY <1>1 DEF Cycle
<1>5. r \in Result
  <2>1. target[Loop] \in Candidate \cup {None}
        BY <1>3, LoopIsController DEF ControlTypeOK
  <2> QED BY <1>1, <2>1 DEF ResultOf, Result, Cycle, Verdict
<1>6. /\ completed' \in Seq(Result) /\ Len(completed') = Len(completed) + 1
      /\ \A k \in 1..Len(completed) : completed'[k] = completed[k]
      /\ completed'[Len(completed) + 1] = r
      BY <1>2, <1>3, <1>5, AppendProperties
<1>7. CycleIsTold(r)
  <2>1. /\ r.events = now.events
        /\ r.committed <=> how = "committed"
        /\ r.rolledBack <=> how = "rolledBack"
        /\ r.acted <=> how \in {"committed", "rolledBack"}
        /\ how = "committed" => r.verification = cycle.verification
    <3>1. r.events = now.events BY DEF ResultOf
    <3>2. r.committed <=> how = "committed" BY DEF ResultOf
    <3>3. r.rolledBack <=> how = "rolledBack" BY DEF ResultOf
    <3>4. r.acted <=> how \in {"committed", "rolledBack"} BY DEF ResultOf
    <3>5. how = "committed" => r.verification = now.verification BY DEF ResultOf
    <3> HIDE DEF r
    <3> QED BY <1>1, <3>1, <3>2, <3>3, <3>4, <3>5
  <2> HIDE DEF r
  <2>2. how = "committed" => "ActuationApplied" \in Range(r.events)
    <3>1. r.events \in Seq(EventKind) BY <1>4, <2>1
    <3>2. "ActuationApplied" \in Range(r.events) <=> Occurrences(r.events, "ActuationApplied") # 0
          BY <3>1, OccurrencesRange
    <3>3. Occurrences(r.events, "ActuationApplied") = Tells(cycle, events, "ActuationApplied")
          BY <1>1, <2>1
    <3> QED BY <3>2, <3>3
  <2>3. Last(r.events) = "CycleCompleted"
    <3>1. Len(events) \in Nat \ {0} /\ cycle.events \in Seq(EventKind)
          BY LenProperties, EmptySeq DEF Cycle
    <3>2. Len(now.events) = Len(cycle.events) + Len(events) /\ Len(cycle.events) \in Nat
          BY <1>1, <3>1, ConcatProperties, LenProperties
    <3>3. now.events[Len(cycle.events) + Len(events)] = events[Len(events)]
          BY <1>1, <3>1, <3>2, ConcatProperties
    <3> QED BY <2>1, <3>2, <3>3 DEF Last
  <2>4. /\ Occurrences(r.events, "CommitExecuted") = Tells(cycle, events, "CommitExecuted")
        /\ Occurrences(r.events, "RollbackExecuted") = Tells(cycle, events, "RollbackExecuted")
        /\ Occurrences(r.events, "VerificationPerformed")
             = Tells(cycle, events, "VerificationPerformed")
        BY <1>1, <2>1
  <2>5. Occurrences(r.events, "CommitExecuted") = IF r.committed THEN 1 ELSE 0 BY <2>1, <2>4
  <2>6. Occurrences(r.events, "RollbackExecuted") = IF r.rolledBack THEN 1 ELSE 0 BY <2>1, <2>4
  <2>7. Occurrences(r.events, "VerificationPerformed") = IF r.acted THEN 1 ELSE 0 BY <2>1, <2>4
  <2> QED BY <2>1, <2>2, <2>3, <2>5, <2>6, <2>7 DEF CycleIsTold
<1> HIDE DEF r
<1>8. \A k : Occurrences(journal', k) = Occurrences(journal, k) + Tells(cycle, events, k)
  <2>1. TAKE k
  <2>2. Occurrences(journal \o now.events, k)
          = Occurrences(journal, k) + Occurrences(now.events, k)
        BY <1>3, <1>4, OccurrencesConcat
  <2> QED BY <1>1, <1>2, <2>2
<1>9. /\ journal' \in Seq(EventKind)
      /\ journal # <<>> => journal'[1] = journal[1] /\ journal' # <<>>
  <2>1. journal' \in Seq(EventKind) /\ Len(journal') = Len(journal) + Len(now.events)
        /\ \A i \in 1..Len(journal) : journal'[i] = journal[i]
        BY <1>2, <1>3, <1>4, ConcatProperties
  <2>2. journal # <<>> => Len(journal) \in Nat \ {0}
        BY <1>3, LenProperties, EmptySeq
  <2>3. Len(now.events) \in Nat BY <1>4, LenProperties
  <2> QED BY <2>1, <2>2, <2>3
<1>10. pc'[Loop] = "between" /\ UNCHANGED stop /\ ControlTypeOK' BY DEF Completes, Moves
<1>11. \A k : Occurrences(running'.events, k) = 0 /\ running' \in Cycle
       BY <1>2, UnbegunCycle
<1>12. /\ Occurrences(journal, "ActuationApplied") \in Nat
       /\ Tells(cycle, events, "ActuationApplied") \in Nat
       BY <1>1, <1>3, OccurrencesCount
<1>13. done' \in [applied : Nat, commits : Nat, rollbacks : Nat] BY <1>3, <1>12
<1>14. TrailTypeOK'
       BY <1>2, <1>6, <1>9, <1>10, <1>11, <1>13 DEF TrailInv, TrailTypeOK
<1>15. CycleInv' BY <1>10, <1>11 DEF CycleInv, Of, MidCycle
<1>16. JournalInv'
  <2>1. done'.applied = Occurrences(journal, "ActuationApplied")
                          + Tells(cycle, events, "ActuationApplied")
        /\ done'.commits = done.commits + (IF how = "committed" THEN 1 ELSE 0)
        /\ done'.rollbacks = done.rollbacks + (IF how = "rolledBack" THEN 1 ELSE 0)
        OBVIOUS
  <2>2. Len(completed) \in Nat BY <1>3, LenProperties
  <2>3. /\ journal # <<>> /\ journal[1] = "ControlLoopStarted"
        /\ Occurrences(journal, "CommitExecuted") = done.commits
        /\ Occurrences(journal, "RollbackExecuted") = done.rollbacks
        /\ Occurrences(journal, "CycleCompleted") = Len(completed)
        /\ Occurrences(journal, "CycleStarted") = Len(completed)
        /\ \A k \in {"ControlLoopStopped", "ErrorEncountered", "CancellationObserved"} :
              Occurrences(journal, k) = 0
        BY DEF TrailInv, JournalInv
  <2>4. /\ Occurrences(journal', "CommitExecuted") = done'.commits
        /\ Occurrences(journal', "RollbackExecuted") = done'.rollbacks
        BY <1>3, <1>8, <2>1, <2>3
  <2>5. /\ Occurrences(journal', "CycleCompleted") = Len(completed')
        /\ Occurrences(journal', "CycleStarted") = Len(completed')
        BY <1>6, <1>8, <2>2, <2>3
  <2>6. \A k \in {"ControlLoopStopped", "ErrorEncountered", "CancellationObserved"} :
           Occurrences(journal', k) = 0
        BY <1>8, <2>3
  <2>7. Occurrences(journal', "ActuationApplied") + Occurrences(running'.events, "ActuationApplied")
          = done'.applied
        BY <1>8, <1>11, <1>12, <2>1
  <2> QED BY <1>9, <2>3, <2>4, <2>5, <2>6, <2>7 DEF JournalInv, Of
<1>17. BeginningInv' BY <1>10 DEF TrailInv, BeginningInv
<1>18. TrailTellsTheRun'
  <2>1. ASSUME NEW k \in DOMAIN completed' PROVE CycleIsTold(completed'[k])
    <3>1. k \in 1..(Len(completed) + 1) /\ Len(completed) \in Nat
          BY <1>3, <1>6, LenProperties
    <3>2. CASE k \in 1..Len(completed)
      <4>1. k \in DOMAIN completed BY <1>3, <3>2, LenProperties
      <4> QED BY <1>6, <3>2, <4>1 DEF TrailInv, TrailTellsTheRun
    <3>3. CASE k = Len(completed) + 1 BY <1>6, <1>7, <3>3
    <3> QED BY <3>1, <3>2, <3>3
  <2> QED BY <1>10, <2>1 DEF TrailTellsTheRun
<1> QED BY <1>14, <1>15, <1>16, <1>17, <1>18 DEF TrailInv

(* A call that fails ends the run; what its cycle told is kept.            *)
LEMMA FailingKeepsTrail ==
    ASSUME TrailInv, NEW cycle \in Cycle, NEW events \in Seq(EventKind),
           Ends(Loop), stop'[Loop] = "error", Recorded(events, cycle),
           pc[Loop] \notin {"start", "stopped"},
           \A k \in Closing : Tells(cycle, events, k) = 0,
           Occurrences(journal, "ActuationApplied") + Tells(cycle, events, "ActuationApplied")
             = done.applied,
           flavor = "plain" => Tells(cycle, events, "CycleStarted") = 1,
           UNCHANGED done
    PROVE  TrailInv'
<1> DEFINE now == [cycle EXCEPT !.events = @ \o events]
           end == <<"ErrorEncountered", "ControlLoopStopped">>
<1>1. /\ now \in Cycle
      /\ \A k : /\ Occurrences(now.events, k) = Tells(cycle, events, k)
                /\ Tells(cycle, events, k) \in Nat
      BY ToldCycle
<1>2. /\ journal' = journal \o now.events \o end
      /\ running' = Unbegun /\ UNCHANGED <<flavor, completed>>
  <2>1. cycles'[Loop] = cycles[Loop] BY DEF Ends
  <2> QED BY <2>1 DEF Recorded, EventsOfFailed
<1> HIDE DEF now
<1>3. /\ journal \in Seq(EventKind) /\ completed \in Seq(Result) /\ ControlTypeOK
      /\ done \in [applied : Nat, commits : Nat, rollbacks : Nat] /\ flavor \in Flavors
      BY DEF TrailInv, TrailTypeOK
<1>4. now.events \in Seq(EventKind) BY <1>1 DEF Cycle
<1>5. end \in Seq(EventKind) /\ Len(end) = 2 BY DEF EventKind
<1>6. \A k : Occurrences(end, k)
              = (IF "ErrorEncountered" = k THEN 1 ELSE 0)
                  + (IF "ControlLoopStopped" = k THEN 1 ELSE 0)
      BY OccurrencesTwo DEF EventKind
<1>7. journal # <<>> /\ journal[1] = "ControlLoopStarted"
      BY DEF TrailInv, JournalInv
<1>8. \A k : Occurrences(journal', k)
              = Occurrences(journal, k) + Tells(cycle, events, k) + Occurrences(end, k)
  <2>1. TAKE k
  <2>2. Occurrences(journal \o now.events, k)
          = Occurrences(journal, k) + Occurrences(now.events, k)
        BY <1>3, <1>4, OccurrencesConcat
  <2>3. journal \o now.events \in Seq(EventKind) BY <1>3, <1>4, ConcatProperties
  <2>4. Occurrences((journal \o now.events) \o end, k)
          = Occurrences(journal \o now.events, k) + Occurrences(end, k)
        BY <1>5, <2>3, OccurrencesConcat
  <2> QED BY <1>1, <1>2, <2>2, <2>4
<1>9. /\ journal' \in Seq(EventKind) /\ journal'[1] = "ControlLoopStarted"
      /\ Last(journal') = "ControlLoopStopped"
  <2> DEFINE told == journal \o now.events
  <2>1. told \in Seq(EventKind) /\ Len(told) = Len(journal) + Len(now.events)
        /\ \A i \in 1..Len(journal) : told[i] = journal[i]
        BY <1>3, <1>4, ConcatProperties
  <2>2. Len(journal) \in Nat \ {0} /\ Len(now.events) \in Nat
        BY <1>3, <1>4, <1>7, LenProperties, EmptySeq
  <2>3. journal' = told \o end BY <1>2
  <2> HIDE DEF told
  <2>4. /\ journal' \in Seq(EventKind) /\ Len(journal') = Len(told) + 2
        /\ \A i \in 1..Len(told) : journal'[i] = told[i]
        /\ journal'[Len(told) + 2] = end[2]
        BY <1>5, <2>1, <2>3, ConcatProperties
  <2>5. 1 \in 1..Len(journal) /\ 1 \in 1..Len(told) BY <2>1, <2>2
  <2>6. journal'[1] = journal[1] BY <2>1, <2>4, <2>5
  <2> QED BY <1>7, <2>4, <2>6 DEF Last
<1>10. pc'[Loop] = "stopped" /\ ControlTypeOK' BY DEF Ends, Moves
<1>11. \A k : Occurrences(running'.events, k) = 0 /\ running' \in Cycle
       BY <1>2, UnbegunCycle
<1>12. TrailTypeOK' BY <1>2, <1>3, <1>9, <1>10, <1>11 DEF TrailTypeOK
<1>13. CycleInv' BY <1>10, <1>11 DEF CycleInv, Of, MidCycle
<1>14. JournalInv' /\ BeginningInv' BY <1>10 DEF JournalInv, BeginningInv
<1>15. TrailTellsTheRun'
  <2>1. /\ Occurrences(journal', "ControlLoopStopped") = 1
        /\ Occurrences(journal', "ActuationApplied") = done.applied
        /\ Occurrences(journal', "CommitExecuted") = done.commits
        /\ Occurrences(journal', "RollbackExecuted") = done.rollbacks
        /\ Occurrences(journal', "CycleCompleted") = Len(completed)
        /\ Occurrences(journal', "ErrorEncountered") = 1
        /\ Occurrences(journal', "CancellationObserved") = 0
        /\ flavor = "plain" => Occurrences(journal', "CycleStarted") = Len(completed) + 1
    <3>1. /\ Occurrences(journal, "CommitExecuted") = done.commits
          /\ Occurrences(journal, "RollbackExecuted") = done.rollbacks
          /\ Occurrences(journal, "CycleCompleted") = Len(completed)
          /\ Occurrences(journal, "CycleStarted") = Len(completed)
          /\ \A k \in {"ControlLoopStopped", "ErrorEncountered", "CancellationObserved"} :
                Occurrences(journal, k) = 0
          BY DEF TrailInv, JournalInv
    <3>2. /\ Occurrences(end, "ControlLoopStopped") = 1
          /\ Occurrences(end, "ErrorEncountered") = 1
          /\ \A k \in {"ActuationApplied", "CommitExecuted", "RollbackExecuted", "CycleCompleted",
                       "CycleStarted", "CancellationObserved"} : Occurrences(end, k) = 0
          BY <1>6
    <3>3. \A k \in Closing : Tells(cycle, events, k) = 0 OBVIOUS
    <3>4. Len(completed) \in Nat /\ \A k : Tells(cycle, events, k) \in Nat
          BY <1>1, <1>3, LenProperties
    <3> HIDE DEF end
    <3>5. \A k : Occurrences(journal, k) \in Nat
      <4>1. TAKE k
      <4> QED BY <1>3, OccurrencesCount
    <3>6. \A k \in Closing :
             Occurrences(journal', k) = Occurrences(journal, k) + 0 + Occurrences(end, k)
          BY <1>8, <3>3
    <3>7. /\ Occurrences(journal', "ControlLoopStopped") = 1
          /\ Occurrences(journal', "ErrorEncountered") = 1
          /\ Occurrences(journal', "CancellationObserved") = 0
          BY <3>1, <3>2, <3>6 DEF Closing
    <3>8. /\ Occurrences(journal', "CommitExecuted") = done.commits
          /\ Occurrences(journal', "RollbackExecuted") = done.rollbacks
          /\ Occurrences(journal', "CycleCompleted") = Len(completed)
          BY <1>3, <3>1, <3>2, <3>4, <3>6 DEF Closing
    <3>9. Occurrences(journal', "ActuationApplied") = done.applied
      <4>1. Occurrences(journal', "ActuationApplied")
              = Occurrences(journal, "ActuationApplied")
                  + Tells(cycle, events, "ActuationApplied") + 0
            BY <1>8, <3>2
      <4> QED BY <1>3, <3>4, <3>5, <4>1
    <3>10. flavor = "plain" => Occurrences(journal', "CycleStarted") = Len(completed) + 1
      <4>1. Occurrences(journal', "CycleStarted")
              = Occurrences(journal, "CycleStarted") + Tells(cycle, events, "CycleStarted")
                  + Occurrences(end, "CycleStarted")
            BY <1>8
      <4>2. Occurrences(journal, "CycleStarted") = Len(completed)
            /\ Occurrences(end, "CycleStarted") = 0
            BY <3>1, <3>2
      <4>3. flavor = "plain" => Tells(cycle, events, "CycleStarted") = 1 OBVIOUS
      <4> QED BY <3>4, <4>1, <4>2, <4>3
    <3> QED BY <3>7, <3>8, <3>9, <3>10
  <2>2. /\ "ErrorEncountered" \in Range(journal')
        /\ "CancellationObserved" \notin Range(journal')
        BY <1>9, <2>1, OccurrencesRange
  <2>3. UNCHANGED <<done, completed, flavor>> BY <1>2
  <2>4. \A k \in DOMAIN completed : CycleIsTold(completed[k])
        BY DEF TrailInv, TrailTellsTheRun
  <2> QED BY <1>9, <2>1, <2>2, <2>3, <2>4 DEF TrailTellsTheRun
<1> QED BY <1>12, <1>13, <1>14, <1>15 DEF TrailInv
-----------------------------------------------------------------------------
(* What is told of a few events.                                           *)
LEMMA OneEvent ==
    ASSUME NEW e \in EventKind
    PROVE  /\ <<e>> \in Seq(EventKind) /\ <<e>> # <<>> /\ <<e>>[Len(<<e>>)] = e
           /\ \A k : Occurrences(<<e>>, k) = IF e = k THEN 1 ELSE 0
<1>1. \A k : Occurrences(<<e>>, k) = IF e = k THEN 1 ELSE 0 BY OccurrencesOne
<1>2. <<e>> \in Seq(EventKind) /\ <<e>> # <<>> /\ <<e>>[Len(<<e>>)] = e OBVIOUS
<1> QED BY <1>1, <1>2

LEMMA TwoEvents ==
    ASSUME NEW d \in EventKind, NEW e \in EventKind
    PROVE  /\ <<d, e>> \in Seq(EventKind) /\ <<d, e>> # <<>>
           /\ <<d, e>>[Len(<<d, e>>)] = e
           /\ \A k : Occurrences(<<d, e>>, k)
                       = (IF d = k THEN 1 ELSE 0) + (IF e = k THEN 1 ELSE 0)
<1>1. ASSUME NEW k
      PROVE  Occurrences(<<d, e>>, k) = (IF d = k THEN 1 ELSE 0) + (IF e = k THEN 1 ELSE 0)
      BY OccurrencesTwo
<1>2. <<d, e>> \in Seq(EventKind) /\ <<d, e>> # <<>> /\ <<d, e>>[Len(<<d, e>>)] = e OBVIOUS
<1> QED BY <1>1, <1>2

LEMMA NoEvent == <<>> \in Seq(EventKind) /\ \A k : Occurrences(<<>>, k) = 0
BY OccurrencesNone

(* More events after some: both are told, and the last is the last.        *)
LEMMA MoreEvents ==
    ASSUME NEW s \in Seq(EventKind), NEW t \in Seq(EventKind)
    PROVE  /\ s \o t \in Seq(EventKind)
           /\ \A k : Occurrences(s \o t, k) = Occurrences(s, k) + Occurrences(t, k)
           /\ t # <<>> => s \o t # <<>> /\ (s \o t)[Len(s \o t)] = t[Len(t)]
           /\ s # <<>> => s \o t # <<>> /\ (s \o t)[1] = s[1]
<1>1. /\ s \o t \in Seq(EventKind) /\ Len(s \o t) = Len(s) + Len(t)
      /\ \A i \in 1..Len(s) : (s \o t)[i] = s[i]
      /\ \A i \in 1..Len(t) : (s \o t)[Len(s) + i] = t[i]
      BY ConcatProperties
<1>2. Len(s) \in Nat /\ Len(t) \in Nat BY LenProperties
<1>3. (t # <<>> => Len(t) # 0) /\ (s # <<>> => Len(s) # 0) BY EmptySeq
<1>4. s \o t = <<>> => Len(s \o t) = 0 OBVIOUS
<1>5. \A k : Occurrences(s \o t, k) = Occurrences(s, k) + Occurrences(t, k)
  <2>1. TAKE k
  <2> QED BY OccurrencesConcat
<1>6. ASSUME t # <<>> PROVE s \o t # <<>> /\ (s \o t)[Len(s \o t)] = t[Len(t)]
  <2>1. Len(t) \in 1..Len(t) BY <1>2, <1>3, <1>6
  <2> QED BY <1>1, <1>2, <1>4, <2>1
<1>7. ASSUME s # <<>> PROVE s \o t # <<>> /\ (s \o t)[1] = s[1]
  <2>1. 1 \in 1..Len(s) BY <1>2, <1>3, <1>7
  <2> QED BY <1>1, <1>2, <1>4, <2>1
<1> QED BY <1>1, <1>5, <1>6, <1>7

(* In a cycle that has not told of an actuation, nothing was applied that  *)
(* the journal does not tell.                                              *)
LEMMA DoneIsTold ==
    ASSUME TrailInv, pc[Loop] \notin {"start", "stopped"}
    PROVE  /\ Occurrences(journal, "ActuationApplied") + Of("ActuationApplied") = done.applied
           /\ Occurrences(journal, "ActuationApplied") \in Nat
           /\ \A k : Of(k) \in Nat
           /\ done.applied \in Nat /\ done.commits \in Nat /\ done.rollbacks \in Nat
           /\ done = [applied |-> done.applied, commits |-> done.commits,
                      rollbacks |-> done.rollbacks]
<1>1. /\ journal \in Seq(EventKind) /\ running.events \in Seq(EventKind)
      /\ done \in [applied : Nat, commits : Nat, rollbacks : Nat]
      BY DEF TrailInv, TrailTypeOK, Cycle
<1>2. Occurrences(journal, "ActuationApplied") \in Nat BY <1>1, OccurrencesCount
<1>3. \A k : Of(k) \in Nat
  <2>1. TAKE k
  <2> QED BY <1>1, OccurrencesCount DEF Of
<1> QED BY <1>1, <1>2, <1>3 DEF TrailInv, JournalInv

-----------------------------------------------------------------------------
(* One lemma for each step of the loop.                                    *)

LEMMA StartKeepsTrail == TrailInv /\ StartRun => TrailInv'
<1>1. SUFFICES ASSUME TrailInv, StartRun PROVE TrailInv' OBVIOUS
<1>2. /\ ControlTypeOK /\ UNCHANGED <<flavor, running, completed, done>> /\ Start(Loop)
      BY <1>1 DEF TrailInv, TrailTypeOK, StartRun
<1>3. /\ Moves(Loop) /\ pc[Loop] = "start" /\ pc'[Loop] \in {"stopped", "top"}
      /\ Goes(Loop) \/ Ends(Loop)
      BY <1>2, LoopIsController, StartMoves
<1>4. journal' = IF pc'[Loop] = "top" THEN <<"ControlLoopStarted">> ELSE <<>>
      BY <1>1 DEF StartRun
<1>5. /\ <<"ControlLoopStarted">> \in Seq(EventKind)
      /\ \A k : Occurrences(<<"ControlLoopStarted">>, k)
                 = IF "ControlLoopStarted" = k THEN 1 ELSE 0
      BY OneEvent DEF EventKind
<1>6. journal' \in Seq(EventKind) BY <1>4, <1>5, NoEvent
<1>7. TrailTypeOK' BY <1>1, <1>2, <1>3, <1>6 DEF TrailInv, TrailTypeOK, Moves
<1>8. CycleInv'
  <2>1. pc[Loop] \notin MidCycle /\ pc'[Loop] \notin MidCycle BY <1>3 DEF MidCycle
  <2>2. pc'[Loop] \notin {"verify", "commit", "rollback"} BY <1>3
  <2>3. pc[Loop] \notin {"verify", "commit", "rollback"} BY <1>3
  <2> QED BY <1>1, <1>2, <2>1, <2>2, <2>3 DEF TrailInv, CycleInv, Of
<1>9. /\ completed = <<>> /\ done = [applied |-> 0, commits |-> 0, rollbacks |-> 0]
      /\ Of("ActuationApplied") = 0 /\ stop[Loop] = "running"
      BY <1>1, <1>3 DEF TrailInv, BeginningInv, CycleInv, MidCycle
<1>10. JournalInv'
  <2>1. SUFFICES ASSUME pc'[Loop] = "top" PROVE JournalInv' BY <1>3 DEF JournalInv
  <2>2. journal' = <<"ControlLoopStarted">> BY <1>4, <2>1
  <2>3. \A k : Occurrences(journal', k) = IF "ControlLoopStarted" = k THEN 1 ELSE 0
        BY <1>5, <2>2
  <2>4. completed' = <<>> /\ done' = [applied |-> 0, commits |-> 0, rollbacks |-> 0]
        BY <1>2, <1>9
  <2>5. Occurrences(running'.events, "ActuationApplied") = 0 BY <1>2, <1>9 DEF Of
  <2> QED BY <2>2, <2>3, <2>4, <2>5 DEF JournalInv, Of
<1>11. BeginningInv'
  <2>1. pc'[Loop] # "stopped" => UNCHANGED stop BY <1>3 DEF Goes, Ends
  <2> QED BY <1>3, <1>9, <2>1 DEF BeginningInv
<1>12. TrailTellsTheRun'
  <2>1. pc'[Loop] = "stopped" => stop'[Loop] = "configuration"
        BY <1>2, <1>3, LoopIsController DEF Start, Stop, Goto, ControlTypeOK
  <2> QED BY <1>1, <1>2, <2>1 DEF TrailInv, TrailTellsTheRun
<1> QED BY <1>7, <1>8, <1>10, <1>11, <1>12 DEF TrailInv

LEMMA ContinueKeepsTrail == TrailInv /\ ContinueRun => TrailInv'
<1>1. SUFFICES ASSUME TrailInv, ContinueRun PROVE TrailInv' OBVIOUS
<1>2. /\ ControlTypeOK /\ UNCHANGED <<flavor, running, completed, done>>
      /\ BeginCycle(Loop) \/ BetweenCycles(Loop)
      /\ journal' = IF pc'[Loop] = "stopped" THEN journal \o Stopping ELSE journal
      BY <1>1 DEF TrailInv, TrailTypeOK, ContinueRun
<1>3. /\ Moves(Loop) /\ pc[Loop] \in {"top", "between"}
      /\ pc'[Loop] \in {"stopped", "observe", "top"} /\ (Goes(Loop) \/ Ends(Loop))
      BY <1>2, LoopIsController, BeginMoves, BetweenMoves
<1>4. pc[Loop] \notin MidCycle /\ pc'[Loop] \notin MidCycle BY <1>3 DEF MidCycle
<1>5. pc[Loop] \notin {"start", "stopped"} /\ pc'[Loop] # "start" BY <1>3
<1>6. /\ Stopping \in Seq(EventKind) /\ Stopping # <<>>
      /\ Stopping[Len(Stopping)] = "ControlLoopStopped"
      /\ \A k : Occurrences(Stopping, k)
                 = (IF cancelled[Loop] /\ k = "CancellationObserved" THEN 1 ELSE 0)
                     + (IF k = "ControlLoopStopped" THEN 1 ELSE 0)
  <2>1. "CancellationObserved" \in EventKind /\ "ControlLoopStopped" \in EventKind
        BY DEF EventKind
  <2>2. CASE cancelled[Loop]
    <3>1. Stopping = <<"CancellationObserved", "ControlLoopStopped">> BY <2>2 DEF Stopping
    <3>2. /\ Stopping \in Seq(EventKind) /\ Stopping # <<>>
          /\ Stopping[Len(Stopping)] = "ControlLoopStopped"
          /\ \A k : Occurrences(Stopping, k) = (IF "CancellationObserved" = k THEN 1 ELSE 0)
                                                + (IF "ControlLoopStopped" = k THEN 1 ELSE 0)
          BY <2>1, <3>1, TwoEvents
    <3> QED BY <2>2, <3>2
  <2>3. CASE ~cancelled[Loop]
    <3>1. Stopping = <<"ControlLoopStopped">> BY <2>3 DEF Stopping
    <3>2. /\ Stopping \in Seq(EventKind) /\ Stopping # <<>>
          /\ Stopping[Len(Stopping)] = "ControlLoopStopped"
          /\ \A k : Occurrences(Stopping, k) = IF "ControlLoopStopped" = k THEN 1 ELSE 0
          BY <2>1, <3>1, OneEvent
    <3> QED BY <2>3, <3>2
  <2> QED BY <2>2, <2>3
<1>7. journal \in Seq(EventKind) /\ journal # <<>> /\ journal[1] = "ControlLoopStarted"
      BY <1>1, <1>5 DEF TrailInv, TrailTypeOK, JournalInv
<1>8. journal' \in Seq(EventKind) BY <1>2, <1>6, <1>7, MoreEvents
<1>9. TrailTypeOK' BY <1>1, <1>2, <1>3, <1>8 DEF TrailInv, TrailTypeOK, Moves
<1>10. CycleInv'
  <2>1. pc'[Loop] \notin {"verify", "commit", "rollback"} BY <1>3
  <2>2. pc[Loop] \notin {"verify", "commit", "rollback"} BY <1>3
  <2> QED BY <1>1, <1>2, <1>4, <2>1, <2>2 DEF TrailInv, CycleInv, Of
<1>11. JournalInv' BY <1>1, <1>2, <1>3, <1>5 DEF TrailInv, JournalInv, Of
<1>12. BeginningInv'
  <2>1. pc'[Loop] # "stopped" => UNCHANGED stop BY <1>3 DEF Goes, Ends
  <2> QED BY <1>1, <1>3, <1>5, <2>1 DEF TrailInv, BeginningInv
<1>13. TrailTellsTheRun'
  <2>1. CASE pc'[Loop] # "stopped"
        BY <1>1, <1>2, <2>1 DEF TrailInv, TrailTellsTheRun
  <2>2. CASE pc'[Loop] = "stopped"
    <3>1. /\ journal' = journal \o Stopping /\ journal'[1] = "ControlLoopStarted"
          /\ journal'[Len(journal')] = "ControlLoopStopped"
          /\ \A k : Occurrences(journal', k) = Occurrences(journal, k) + Occurrences(Stopping, k)
          BY <1>2, <1>6, <1>7, <2>2, MoreEvents
    <3>2. stop'[Loop] # "error" /\ ((stop'[Loop] = "Cancelled") <=> cancelled[Loop])
          BY <1>2, <2>2, LoopIsController
          DEF BeginCycle, BetweenCycles, Goto, Stop, ControlTypeOK
    <3>3. /\ Occurrences(journal, "ActuationApplied") = done.applied
          /\ Occurrences(journal, "CommitExecuted") = done.commits
          /\ Occurrences(journal, "RollbackExecuted") = done.rollbacks
          /\ Occurrences(journal, "CycleCompleted") = Len(completed)
          /\ Occurrences(journal, "CycleStarted") = Len(completed)
          /\ \A k \in {"ControlLoopStopped", "ErrorEncountered", "CancellationObserved"} :
                Occurrences(journal, k) = 0
      <4>1. Of("ActuationApplied") = 0 BY <1>1, <1>3 DEF TrailInv, CycleInv
      <4> QED BY <1>1, <1>5, <4>1, DoneIsTold DEF TrailInv, JournalInv
    <3>4. /\ done.applied \in Nat /\ done.commits \in Nat /\ done.rollbacks \in Nat
          /\ Len(completed) \in Nat
          BY <1>1, <1>5, DoneIsTold, LenProperties DEF TrailInv, TrailTypeOK
    <3> DEFINE told == Occurrences(Stopping, "CancellationObserved")
    <3>9. /\ Occurrences(Stopping, "ControlLoopStopped") = 1 /\ told \in Nat
          /\ told # 0 <=> cancelled[Loop]
          /\ \A k \in {"ErrorEncountered", "ActuationApplied", "CommitExecuted",
                       "RollbackExecuted", "CycleCompleted", "CycleStarted"} :
                Occurrences(Stopping, k) = 0
          BY <1>6
    <3> HIDE DEF told
    <3>5. /\ Occurrences(journal', "ControlLoopStopped") = 1
          /\ Occurrences(journal', "ErrorEncountered") = 0
          /\ Occurrences(journal', "CancellationObserved") = told
          BY <3>1, <3>3, <3>9 DEF told
    <3>6. /\ Occurrences(journal', "ActuationApplied") = done.applied
          /\ Occurrences(journal', "CommitExecuted") = done.commits
          /\ Occurrences(journal', "RollbackExecuted") = done.rollbacks
          /\ Occurrences(journal', "CycleCompleted") = Len(completed)
          /\ Occurrences(journal', "CycleStarted") = Len(completed)
          BY <3>1, <3>3, <3>4, <3>9
    <3>7. /\ "ErrorEncountered" \notin Range(journal')
          /\ ("CancellationObserved" \in Range(journal')) <=> cancelled[Loop]
          BY <1>8, <3>5, <3>9, OccurrencesRange
    <3>8. \A k \in DOMAIN completed' : CycleIsTold(completed'[k])
          BY <1>1, <1>2 DEF TrailInv, TrailTellsTheRun
    <3>10. Last(journal') = "ControlLoopStopped" BY <3>1 DEF Last
    <3>11. /\ ("ErrorEncountered" \in Range(journal')) <=> stop'[Loop] = "error"
           /\ ("CancellationObserved" \in Range(journal')) <=> stop'[Loop] = "Cancelled"
           BY <3>2, <3>7
    <3>12. Occurrences(journal', "CycleStarted")
             = Len(completed') + IF stop'[Loop] = "error" THEN 1 ELSE 0
           BY <1>2, <3>2, <3>4, <3>6
    <3>13. completed' = completed /\ done' = done BY <1>2
    <3> QED BY <3>1, <3>5, <3>6, <3>8, <3>10, <3>11, <3>12, <3>13 DEF TrailTellsTheRun
  <2> QED BY <2>1, <2>2
<1> QED BY <1>9, <1>10, <1>11, <1>12, <1>13 DEF TrailInv

LEMMA CancelKeepsTrail == TrailInv /\ CancelRun => TrailInv'
<1>1. SUFFICES ASSUME TrailInv, CancelRun PROVE TrailInv' OBVIOUS
<1>2. ControlTypeOK' BY <1>1, LoopIsController DEF TrailInv, TrailTypeOK, CancelRun, Cancel, ControlTypeOK
<1> QED BY <1>1, <1>2
        DEF CancelRun, Cancel, trailVars, TrailInv, TrailTypeOK, CycleInv, JournalInv,
            BeginningInv, TrailTellsTheRun, Of

(* What is told by a cycle that ends without an actuation: a sequence of   *)
(* events of which the last completes it.                                  *)
Quiet == {"CommitExecuted", "RollbackExecuted", "ControlLoopStopped", "ErrorEncountered",
          "CancellationObserved", "VerificationPerformed", "ActuationApplied"}

LEMMA BeginningEvents ==
    ASSUME NEW first \in {<<>>, <<"ForecastGenerated">>}, NEW plan \in Seq(EventKind),
           plan # <<>>, Occurrences(plan, "CycleStarted") = 0,
           Occurrences(plan, "CycleCompleted") \in Nat,
           \A k \in Quiet : Occurrences(plan, k) = 0
    PROVE  LET told == first \o <<"CycleStarted", "ObservationCollected">> \o plan
           IN /\ told \in Seq(EventKind) /\ told # <<>> /\ told[Len(told)] = plan[Len(plan)]
              /\ Occurrences(told, "CycleStarted") = 1
              /\ Occurrences(told, "CycleCompleted") = Occurrences(plan, "CycleCompleted")
              /\ \A k \in Quiet : Occurrences(told, k) = 0
<1> DEFINE opening == <<"CycleStarted", "ObservationCollected">>
           begun == first \o opening
           told == begun \o plan
<1>1. /\ first \in Seq(EventKind)
      /\ \A k \in Quiet \cup {"CycleStarted", "CycleCompleted"} : Occurrences(first, k) = 0
  <2>1. CASE first = <<>> BY <2>1, NoEvent
  <2>2. CASE first = <<"ForecastGenerated">>
    <3>1. /\ first \in Seq(EventKind)
          /\ \A k : Occurrences(first, k) = IF "ForecastGenerated" = k THEN 1 ELSE 0
          BY <2>2, OneEvent DEF EventKind
    <3> QED BY <3>1 DEF Quiet
  <2> QED BY <2>1, <2>2
<1>2. /\ opening \in Seq(EventKind) /\ Occurrences(opening, "CycleStarted") = 1
      /\ \A k \in Quiet \cup {"CycleCompleted"} : Occurrences(opening, k) = 0
  <2>1. /\ opening \in Seq(EventKind)
        /\ \A k : Occurrences(opening, k) = (IF "CycleStarted" = k THEN 1 ELSE 0)
                                              + (IF "ObservationCollected" = k THEN 1 ELSE 0)
    <3>1. "CycleStarted" \in EventKind /\ "ObservationCollected" \in EventKind
          BY DEF EventKind
    <3> QED BY <3>1, TwoEvents
  <2> HIDE DEF opening
  <2> QED BY <2>1 DEF Quiet
<1> HIDE DEF opening
<1>3. /\ begun \in Seq(EventKind)
      /\ \A k : Occurrences(begun, k) = Occurrences(first, k) + Occurrences(opening, k)
      BY <1>1, <1>2, MoreEvents
<1> HIDE DEF begun
<1>4. /\ told \in Seq(EventKind) /\ told # <<>> /\ told[Len(told)] = plan[Len(plan)]
      /\ \A k : Occurrences(told, k) = Occurrences(begun, k) + Occurrences(plan, k)
      BY <1>3, MoreEvents
<1> HIDE DEF told
<1>5. /\ Occurrences(told, "CycleStarted") = 1
      /\ Occurrences(told, "CycleCompleted") = Occurrences(plan, "CycleCompleted")
      /\ \A k \in Quiet : Occurrences(told, k) = 0
      BY <1>1, <1>2, <1>3, <1>4
<1> QED BY <1>4, <1>5 DEF told, begun, opening

LEMMA BeginKeepsTrail ==
    ASSUME TrailInv, NEW f \in Forecast, NEW r \in Candidate \cup {None}, NEW p \in BOOLEAN,
           BeginsCycle(f, r, p)
    PROVE  TrailInv'
<1> DEFINE cycle == [Unbegun EXCEPT !.forecast = f, !.initial = r]
           first == IF f = "none" THEN <<>> ELSE <<"ForecastGenerated">>
           told == first \o <<"CycleStarted", "ObservationCollected">> \o Planned(p)
           mode == config[Loop].mode
<1>1. /\ pc[Loop] = "observe" /\ ObserveAndPlan(Loop) /\ Recorded(told, cycle)
      /\ UNCHANGED done /\ ControlTypeOK
      BY DEF BeginsCycle, TrailInv, TrailTypeOK
<1>2. cycle \in Cycle /\ \A k : Occurrences(cycle.events, k) = 0
      BY UnbegunCycle DEF Cycle
<1>3. /\ Occurrences(journal, "ActuationApplied") = done.applied
      /\ done.applied \in Nat /\ done.commits \in Nat /\ done.rollbacks \in Nat
      /\ done = [applied |-> done.applied, commits |-> done.commits,
                 rollbacks |-> done.rollbacks]
  <2>1. Of("ActuationApplied") = 0 BY <1>1 DEF TrailInv, CycleInv, MidCycle
  <2> QED BY <1>1, <2>1, DoneIsTold
<1>4. first \in {<<>>, <<"ForecastGenerated">>} OBVIOUS
<1> HIDE DEF first, cycle
<1>5. \/ \E how \in {"observed", "planned", "noCandidate"} :
            Completes(Loop, how) /\ pc'[Loop] = "between"
             /\ (how = "observed" <=> mode = "ObserveOnly")
             /\ (how = "planned" <=> mode = "PlanOnly")
      \/ Goes(Loop) /\ pc'[Loop] = "validate" /\ mode \notin {"ObserveOnly", "PlanOnly"}
  <2>1. ASSUME NEW how \in {"observed", "planned", "noCandidate"}, CompleteCycle(Loop, how)
        PROVE  Completes(Loop, how) /\ pc'[Loop] = "between"
    <3>1. how \in CycleResult BY DEF CycleResult
    <3> QED BY <1>1, <2>1, <3>1, LoopIsController, CompleteMoves
  <2>2. ASSUME NEW t \in Candidate, pc' = [pc EXCEPT ![Loop] = "validate"],
               target' = [target EXCEPT ![Loop] = t],
               UNCHANGED <<config, cycles, result, stop, cancelled>>
        PROVE  Goes(Loop) /\ pc'[Loop] = "validate"
        BY <1>1, <2>2, LoopIsController, PlanGoes
  <2>3. \/ mode = "ObserveOnly" /\ CompleteCycle(Loop, "observed")
        \/ mode = "PlanOnly" /\ CompleteCycle(Loop, "planned")
        \/ /\ mode \notin {"ObserveOnly", "PlanOnly"}
           /\ \/ CompleteCycle(Loop, "noCandidate")
              \/ \E t \in Candidate :
                    /\ pc' = [pc EXCEPT ![Loop] = "validate"]
                    /\ target' = [target EXCEPT ![Loop] = t]
                    /\ UNCHANGED <<config, cycles, result, stop, cancelled>>
        BY <1>1 DEF ObserveAndPlan
  <2> HIDE DEF mode
  <2> QED BY <2>1, <2>2, <2>3
<1>6. ASSUME NEW how \in {"observed", "planned", "noCandidate"},
             Completes(Loop, how), pc'[Loop] = "between",
             how = "observed" <=> mode = "ObserveOnly", how = "planned" <=> mode = "PlanOnly"
      PROVE  TrailInv'
  <2>1. Planned(p) \in {<<"CycleCompleted">>, <<"PlanSelected", "CycleCompleted">>,
                        <<"PlanRejected", "CycleCompleted">>}
    <3>1. mode \notin {"ObserveOnly", "PlanOnly"} => ~p BY <1>6 DEF BeginsCycle
    <3> QED BY <3>1 DEF Planned
  <2>2. /\ Planned(p) \in Seq(EventKind) /\ Planned(p) # <<>>
        /\ Planned(p)[Len(Planned(p))] = "CycleCompleted"
        /\ Occurrences(Planned(p), "CycleStarted") = 0
        /\ Occurrences(Planned(p), "CycleCompleted") = 1
        /\ \A k \in Quiet : Occurrences(Planned(p), k) = 0
    <3>1. CASE Planned(p) = <<"CycleCompleted">>
      <4>1. /\ Planned(p) \in Seq(EventKind) /\ Planned(p) # <<>>
            /\ Planned(p)[Len(Planned(p))] = "CycleCompleted"
            /\ \A k : Occurrences(Planned(p), k) = IF "CycleCompleted" = k THEN 1 ELSE 0
            BY <3>1, OneEvent DEF EventKind
      <4> QED BY <4>1 DEF Quiet
    <3>2. CASE \E d \in {"PlanSelected", "PlanRejected"} : Planned(p) = <<d, "CycleCompleted">>
      <4>1. PICK d \in {"PlanSelected", "PlanRejected"} : Planned(p) = <<d, "CycleCompleted">>
            BY <3>2
      <4>3. d \in EventKind /\ "CycleCompleted" \in EventKind BY DEF EventKind
      <4>2. /\ Planned(p) \in Seq(EventKind) /\ Planned(p) # <<>>
            /\ Planned(p)[Len(Planned(p))] = "CycleCompleted"
            /\ \A k : Occurrences(Planned(p), k) = (IF d = k THEN 1 ELSE 0)
                                                    + (IF "CycleCompleted" = k THEN 1 ELSE 0)
            BY <4>1, <4>3, TwoEvents
      <4> QED BY <4>1, <4>2 DEF Quiet
    <3> QED BY <2>1, <3>1, <3>2
  <2>3. /\ told \in Seq(EventKind) /\ told # <<>> /\ told[Len(told)] = "CycleCompleted"
        /\ Occurrences(told, "CycleStarted") = 1 /\ Occurrences(told, "CycleCompleted") = 1
        /\ \A k \in Quiet : Occurrences(told, k) = 0
    <3> HIDE DEF mode
    <3>1. Occurrences(Planned(p), "CycleCompleted") \in Nat BY <2>2
    <3> QED BY <1>4, <2>2, <3>1, BeginningEvents, Zenon
  <2> HIDE DEF told
  <2>4. \A k : Tells(cycle, told, k) = 0 + Occurrences(told, k) BY <1>2 DEF Tells
  <2>5. how \in CycleResult /\ how \notin {"committed", "rolledBack"} BY DEF CycleResult
  <2>6. /\ Tells(cycle, told, "CycleStarted") = 1 /\ Tells(cycle, told, "CycleCompleted") = 1
        /\ \A k \in Quiet : Tells(cycle, told, k) = 0
        BY <2>3, <2>4
  <2>7. done' = [applied |-> Occurrences(journal, "ActuationApplied")
                               + Tells(cycle, told, "ActuationApplied"),
                 commits |-> done.commits + (IF how = "committed" THEN 1 ELSE 0),
                 rollbacks |-> done.rollbacks + (IF how = "rolledBack" THEN 1 ELSE 0)]
        BY <1>1, <1>3, <2>5, <2>6 DEF Quiet
  <2> QED BY <1>1, <1>2, <1>6, <2>3, <2>5, <2>6, <2>7, CompletingKeepsTrail DEF Quiet
<1>7. ASSUME Goes(Loop), pc'[Loop] = "validate", mode \notin {"ObserveOnly", "PlanOnly"}
      PROVE  TrailInv'
  <2>1. Planned(p) = <<"PlanSelected">>
    <3>1. p BY <1>7 DEF BeginsCycle
    <3> QED BY <1>7, <3>1 DEF Planned
  <2>2. /\ Planned(p) \in Seq(EventKind) /\ Planned(p) # <<>>
        /\ Occurrences(Planned(p), "CycleStarted") = 0
        /\ Occurrences(Planned(p), "CycleCompleted") = 0
        /\ \A k \in Quiet : Occurrences(Planned(p), k) = 0
        BY <2>1, OneEvent DEF EventKind, Quiet
  <2>3. /\ told \in Seq(EventKind)
        /\ Occurrences(told, "CycleStarted") = 1 /\ Occurrences(told, "CycleCompleted") = 0
        /\ \A k \in Quiet : Occurrences(told, k) = 0
    <3> HIDE DEF mode
    <3>1. Occurrences(Planned(p), "CycleCompleted") \in Nat BY <2>2
    <3> QED BY <1>4, <2>2, <3>1, BeginningEvents, Zenon
  <2> HIDE DEF told
  <2>4. \A k : Tells(cycle, told, k) = 0 + Occurrences(told, k) BY <1>2 DEF Tells
  <2>5. /\ Tells(cycle, told, "CycleStarted") = 1 /\ Tells(cycle, told, "CycleCompleted") = 0
        /\ \A k \in Quiet : Tells(cycle, told, k) = 0
        BY <2>3, <2>4
  <2>6. done' = [done EXCEPT !.applied = Occurrences(journal, "ActuationApplied")
                                           + Tells(cycle, told, "ActuationApplied")]
        BY <1>1, <1>3, <2>5 DEF Quiet
  <2>7. \A k \in Closing : Tells(cycle, told, k) = 0 BY <2>5 DEF Closing, Quiet
  <2> QED BY <1>1, <1>2, <1>7, <2>3, <2>5, <2>6, <2>7, GoingKeepsTrail DEF Quiet, MidCycle
<1> QED BY <1>5, <1>6, <1>7

(* The end of a cycle that was not carried out: its plan was refused, or   *)
(* it was a dry run.                                                       *)
LEMMA ValidateKeepsTrail ==
    ASSUME TrailInv, NEW answer \in {"ok", "error", "refused"}, NEW checks \in 0..1,
           ValidatePlan(answer, checks)
    PROVE  TrailInv'
<1> DEFINE checked == [i \in 1..checks |-> "InvariantChecked"]
           judged == CASE answer = "ok" -> <<"PlanValidated">>
                       [] answer = "refused" -> <<"PlanRejected">>
                       [] OTHER -> <<>>
           ended == IF cycles'[Loop] # cycles[Loop] THEN <<"CycleCompleted">> ELSE <<>>
           told == checked \o judged \o ended
<1>1. /\ pc[Loop] = "validate" /\ AfterValidate(Loop, answer) /\ Recorded(told, running)
      /\ UNCHANGED done /\ ControlTypeOK /\ running \in Cycle
      BY DEF ValidatePlan, Emit, TrailInv, TrailTypeOK
<1>2. \/ CycleError(Loop)
      \/ \E how \in {"rejected", "dryRun"} : CompleteCycle(Loop, how)
      \/ Goto(Loop, "prepare")
      BY <1>1 DEF AfterValidate
<1>3. /\ Of("CycleStarted") = 1 /\ Of("VerificationPerformed") = 0
      /\ Of("ActuationApplied") = 0
      /\ \A k \in Closing : Of(k) = 0
      BY <1>1 DEF TrailInv, CycleInv, MidCycle
<1>4. /\ Occurrences(journal, "ActuationApplied") + Of("ActuationApplied") = done.applied
      /\ Of("ActuationApplied") \in Nat
      /\ done.applied \in Nat /\ done.commits \in Nat /\ done.rollbacks \in Nat
      /\ done = [applied |-> done.applied, commits |-> done.commits,
                 rollbacks |-> done.rollbacks]
      BY <1>1, DoneIsTold
<1>5. /\ checked \in Seq(EventKind)
      /\ \A k \in Quiet \cup {"CycleStarted", "CycleCompleted"} : Occurrences(checked, k) = 0
  <2>1. CASE checks = 0
    <3>1. checked = <<>> BY <2>1
    <3> QED BY <3>1, NoEvent
  <2>2. CASE checks = 1
    <3>1. checked = <<"InvariantChecked">> BY <2>2
    <3>2. /\ checked \in Seq(EventKind)
          /\ \A k : Occurrences(checked, k) = IF "InvariantChecked" = k THEN 1 ELSE 0
          BY <3>1, OneEvent DEF EventKind
    <3> HIDE DEF checked
    <3> QED BY <3>2 DEF Quiet
  <2> QED BY <2>1, <2>2
<1>6. /\ judged \in Seq(EventKind)
      /\ \A k \in Quiet \cup {"CycleStarted", "CycleCompleted"} : Occurrences(judged, k) = 0
  <2>1. CASE answer = "ok"
    <3>1. /\ judged \in Seq(EventKind)
          /\ \A k : Occurrences(judged, k) = IF "PlanValidated" = k THEN 1 ELSE 0
          BY <2>1, OneEvent DEF EventKind
    <3> HIDE DEF judged
    <3> QED BY <3>1 DEF Quiet
  <2>2. CASE answer = "refused"
    <3>1. /\ judged \in Seq(EventKind)
          /\ \A k : Occurrences(judged, k) = IF "PlanRejected" = k THEN 1 ELSE 0
          BY <2>2, OneEvent DEF EventKind
    <3> HIDE DEF judged
    <3> QED BY <3>1 DEF Quiet
  <2>3. CASE answer = "error"
    <3>1. judged = <<>> BY <2>3
    <3> QED BY <3>1, NoEvent
  <2> QED BY <2>1, <2>2, <2>3
<1> HIDE DEF checked, judged
<1>7. /\ ended \in Seq(EventKind)
      /\ \A k \in Quiet \cup {"CycleStarted"} : Occurrences(ended, k) = 0
      /\ Occurrences(ended, "CycleCompleted") = IF cycles'[Loop] # cycles[Loop] THEN 1 ELSE 0
      /\ cycles'[Loop] # cycles[Loop] =>
            ended # <<>> /\ ended[Len(ended)] = "CycleCompleted"
  <2>1. CASE cycles'[Loop] # cycles[Loop]
    <3>1. /\ ended \in Seq(EventKind) /\ ended # <<>>
          /\ ended[Len(ended)] = "CycleCompleted"
          /\ \A k : Occurrences(ended, k) = IF "CycleCompleted" = k THEN 1 ELSE 0
          BY <2>1, OneEvent DEF EventKind
    <3> HIDE DEF ended
    <3> QED BY <2>1, <3>1 DEF Quiet
  <2>2. CASE cycles'[Loop] = cycles[Loop] BY <2>2, NoEvent
  <2> QED BY <2>1, <2>2
<1> HIDE DEF ended
<1>8. /\ told \in Seq(EventKind)
      /\ ended # <<>> => told # <<>> /\ told[Len(told)] = ended[Len(ended)]
      /\ \A k \in Quiet \cup {"CycleStarted"} : Occurrences(told, k) = 0
      /\ Occurrences(told, "CycleCompleted") = Occurrences(ended, "CycleCompleted")
  <2> DEFINE both == checked \o judged
  <2>1. /\ both \in Seq(EventKind)
        /\ \A k : Occurrences(both, k) = Occurrences(checked, k) + Occurrences(judged, k)
        BY <1>5, <1>6, MoreEvents
  <2> HIDE DEF both
  <2>2. /\ both \o ended \in Seq(EventKind)
        /\ ended # <<>> => both \o ended # <<>>
                            /\ (both \o ended)[Len(both \o ended)] = ended[Len(ended)]
        /\ \A k : Occurrences(both \o ended, k) = Occurrences(both, k) + Occurrences(ended, k)
        BY <1>7, <2>1, MoreEvents
  <2>3. told = both \o ended BY DEF both
  <2> HIDE DEF told
  <2> QED BY <1>5, <1>6, <1>7, <2>1, <2>2, <2>3
<1> HIDE DEF told
<1>9. /\ Tells(running, told, "CycleStarted") = 1
      /\ Tells(running, told, "CycleCompleted") = IF cycles'[Loop] # cycles[Loop] THEN 1 ELSE 0
      /\ Tells(running, told, "VerificationPerformed") = 0
      /\ \A k \in Closing \ {"CycleCompleted"} : Tells(running, told, k) = 0
      /\ Tells(running, told, "ActuationApplied") = Of("ActuationApplied")
      BY <1>3, <1>4, <1>7, <1>8 DEF Tells, Of, Quiet, Closing
<1>10. CASE CycleError(Loop)
  <2>1. Ends(Loop) /\ stop'[Loop] = "error"
        BY <1>1, <1>10, LoopIsController, ErrorMoves
  <2>2. cycles'[Loop] = cycles[Loop] BY <2>1 DEF Ends
  <2>3. \A k \in Closing : Tells(running, told, k) = 0 BY <1>9, <2>2 DEF Closing
  <2> QED BY <1>1, <1>4, <1>8, <1>9, <2>1, <2>3, FailingKeepsTrail
<1>11. ASSUME NEW how \in {"rejected", "dryRun"}, CompleteCycle(Loop, how) PROVE TrailInv'
  <2>1. how \in CycleResult BY DEF CycleResult
  <2>2. Completes(Loop, how) BY <1>1, <1>11, <2>1, LoopIsController, CompleteMoves
  <2>3. cycles'[Loop] # cycles[Loop] BY <2>2 DEF Completes
  <2>4. done' = [applied |-> Occurrences(journal, "ActuationApplied")
                               + Tells(running, told, "ActuationApplied"),
                 commits |-> done.commits + (IF how = "committed" THEN 1 ELSE 0),
                 rollbacks |-> done.rollbacks + (IF how = "rolledBack" THEN 1 ELSE 0)]
        BY <1>1, <1>4, <1>9
  <2>5. how \notin {"committed", "rolledBack"} OBVIOUS
  <2> QED BY <1>1, <1>7, <1>8, <1>9, <2>1, <2>2, <2>3, <2>4, <2>5, CompletingKeepsTrail
          DEF Closing
<1>12. CASE Goto(Loop, "prepare")
  <2>1. "prepare" \in Step \ {"between", "stopped"} BY DEF Step
  <2>2. Goes(Loop) /\ pc'[Loop] = "prepare"
        BY <1>1, <1>12, <2>1, LoopIsController, GotoGoes
  <2>3. cycles'[Loop] = cycles[Loop] BY <2>2 DEF Goes
  <2>4. \A k \in Closing : Tells(running, told, k) = 0 BY <1>9, <2>3 DEF Closing
  <2>5. done' = [done EXCEPT !.applied = Occurrences(journal, "ActuationApplied")
                                           + Tells(running, told, "ActuationApplied")]
        BY <1>1, <1>4, <1>9
  <2> QED BY <1>1, <1>3, <1>8, <1>9, <2>2, <2>4, <2>5, GoingKeepsTrail DEF MidCycle
<1> QED BY <1>2, <1>10, <1>11, <1>12

(* A forecast that failed ends the run before the cycle told anything.     *)
LEMMA ForecastFailureKeepsTrail == TrailInv /\ ForecastFails => TrailInv'
<1>1. SUFFICES ASSUME TrailInv, ForecastFails PROVE TrailInv' OBVIOUS
<1>2. /\ pc[Loop] = "observe" /\ CycleError(Loop) /\ Recorded(<<>>, Unbegun)
      /\ UNCHANGED done /\ ControlTypeOK /\ flavor # "plain"
      BY <1>1 DEF ForecastFails, Forecasts, TrailInv, TrailTypeOK
<1>3. Ends(Loop) /\ stop'[Loop] = "error" BY <1>2, LoopIsController, ErrorMoves
<1>4. \A k : Tells(Unbegun, <<>>, k) = 0 BY UnbegunCycle, OccurrencesNone DEF Tells
<1>5. Occurrences(journal, "ActuationApplied") + 0 = done.applied
  <2>1. Of("ActuationApplied") = 0 BY <1>1, <1>2 DEF TrailInv, CycleInv, MidCycle
  <2> QED BY <1>1, <1>2, <2>1, DoneIsTold
<1> QED BY <1>1, <1>2, <1>3, <1>4, <1>5, UnbegunCycle, NoEvent, FailingKeepsTrail

(* What a cycle has told before a trusted call after its validation.       *)
LEMMA ToldBefore ==
    ASSUME TrailInv, pc[Loop] \in {"prepare", "actuate", "verify", "commit", "rollback"}
    PROVE  /\ ControlTypeOK /\ running \in Cycle
           /\ pc[Loop] \notin {"start", "stopped"}
           /\ Of("CycleStarted") = 1
           /\ \A k \in Closing : Of(k) = 0
           /\ Of("VerificationPerformed") = IF pc[Loop] \in {"commit", "rollback"} THEN 1 ELSE 0
           /\ pc[Loop] \in {"verify", "commit"} => Of("ActuationApplied") = 1
           /\ pc[Loop] \in {"prepare", "actuate"} => Of("ActuationApplied") = 0
           /\ pc[Loop] = "commit" => running.verification = "Pass"
           /\ Occurrences(journal, "ActuationApplied") + Of("ActuationApplied") = done.applied
           /\ Occurrences(journal, "ActuationApplied") \in Nat
           /\ Of("ActuationApplied") \in Nat
           /\ done.applied \in Nat /\ done.commits \in Nat /\ done.rollbacks \in Nat
           /\ done = [applied |-> done.applied, commits |-> done.commits,
                      rollbacks |-> done.rollbacks]
<1>1. pc[Loop] \notin {"start", "stopped"} /\ pc[Loop] \in MidCycle BY DEF MidCycle
<1>2. /\ Occurrences(journal, "ActuationApplied") + Of("ActuationApplied") = done.applied
      /\ Occurrences(journal, "ActuationApplied") \in Nat
      /\ Of("ActuationApplied") \in Nat
      /\ done.applied \in Nat /\ done.commits \in Nat /\ done.rollbacks \in Nat
      /\ done = [applied |-> done.applied, commits |-> done.commits,
                 rollbacks |-> done.rollbacks]
      BY <1>1, DoneIsTold
<1> QED BY <1>1, <1>2 DEF TrailInv, TrailTypeOK, CycleInv

LEMMA PrepareKeepsTrail ==
    ASSUME TrailInv, NEW answer \in Answers, PrepareActuation(answer)
    PROVE  TrailInv'
<1> DEFINE told == IF answer = "ok" THEN <<"ActuationPrepared">> ELSE <<>>
<1>1. /\ pc[Loop] = "prepare" /\ AfterPrepare(Loop, answer) /\ Recorded(told, running)
      /\ UNCHANGED done
      BY DEF PrepareActuation, Emit
<1>2. told \in Seq(EventKind)
      /\ \A k \in Closing \cup {"CycleStarted", "VerificationPerformed", "ActuationApplied"} :
           Occurrences(told, k) = 0
  <2>1. CASE answer = "ok"
    <3>1. told \in Seq(EventKind)
          /\ \A k : Occurrences(told, k) = IF "ActuationPrepared" = k THEN 1 ELSE 0
          BY <2>1, OneEvent DEF EventKind
    <3> HIDE DEF told
    <3> QED BY <3>1 DEF Closing
  <2>2. CASE answer # "ok"
    <3>1. told = <<>> BY <2>2
    <3> QED BY <3>1, NoEvent
  <2> QED BY <2>1, <2>2
<1> HIDE DEF told
<1>3. /\ \A k \in Closing : Tells(running, told, k) = 0
      /\ Tells(running, told, "CycleStarted") = 1
      /\ Tells(running, told, "VerificationPerformed") = 0
      /\ Tells(running, told, "ActuationApplied") = Of("ActuationApplied")
      BY <1>1, <1>2, ToldBefore DEF Tells, Of
<1>4. CASE answer = "ok"
  <2>1. "actuate" \in Step \ {"between", "stopped"} BY DEF Step
  <2>2. Goes(Loop) /\ pc'[Loop] = "actuate"
        BY <1>1, <1>4, <2>1, LoopIsController, GotoGoes, ToldBefore DEF AfterPrepare
  <2>3. done' = [done EXCEPT !.applied = Occurrences(journal, "ActuationApplied")
                                           + Tells(running, told, "ActuationApplied")]
        BY <1>1, <1>3, ToldBefore
  <2> QED BY <1>1, <1>2, <1>3, <2>2, <2>3, ToldBefore, GoingKeepsTrail DEF MidCycle
<1>5. CASE answer # "ok"
  <2>1. Ends(Loop) /\ stop'[Loop] = "error"
        BY <1>1, <1>5, LoopIsController, ErrorMoves, ToldBefore DEF AfterPrepare
  <2> QED BY <1>1, <1>2, <1>3, <2>1, ToldBefore, FailingKeepsTrail
<1> QED BY <1>4, <1>5

LEMMA ActuateKeepsTrail ==
    ASSUME TrailInv, NEW answer \in Answers, Actuate(answer)
    PROVE  TrailInv'
<1> DEFINE told == IF answer = "ok" THEN <<"ActuationApplied">> ELSE <<"VerificationPerformed">>
           cycle == IF answer = "ok" THEN running
                    ELSE [running EXCEPT !.verification = "Inconclusive"]
           next == IF answer = "ok" THEN "verify" ELSE "rollback"
<1>1. /\ pc[Loop] = "actuate" /\ AfterActuate(Loop, answer) /\ Recorded(told, cycle)
      /\ done' = IF answer = "ok" THEN [done EXCEPT !.applied = @ + 1] ELSE done
      BY DEF Actuate
<1>2. cycle \in Cycle /\ cycle.events = running.events
      BY <1>1, ToldBefore DEF Cycle, Verdict
<1>3. /\ told \in Seq(EventKind)
      /\ \A k \in Closing \cup {"CycleStarted"} : Occurrences(told, k) = 0
      /\ Occurrences(told, "ActuationApplied") = IF answer = "ok" THEN 1 ELSE 0
      /\ Occurrences(told, "VerificationPerformed") = IF answer = "ok" THEN 0 ELSE 1
  <2>1. CASE answer = "ok"
    <3>1. told \in Seq(EventKind)
          /\ \A k : Occurrences(told, k) = IF "ActuationApplied" = k THEN 1 ELSE 0
          BY <2>1, OneEvent DEF EventKind
    <3> HIDE DEF told
    <3> QED BY <2>1, <3>1 DEF Closing
  <2>2. CASE answer # "ok"
    <3>1. told \in Seq(EventKind)
          /\ \A k : Occurrences(told, k) = IF "VerificationPerformed" = k THEN 1 ELSE 0
          BY <2>2, OneEvent DEF EventKind
    <3> HIDE DEF told
    <3> QED BY <2>2, <3>1 DEF Closing
  <2> QED BY <2>1, <2>2
<1>4. next \in Step \ {"between", "stopped"} /\ next \in MidCycle BY DEF Step, MidCycle
<1>5. Goto(Loop, next) BY <1>1 DEF AfterActuate
<1> HIDE DEF next
<1>6. Goes(Loop) /\ pc'[Loop] = next
      BY <1>1, <1>4, <1>5, LoopIsController, GotoGoes, ToldBefore
<1> HIDE DEF told, cycle
<1>7. Of("ActuationApplied") = 0 BY <1>1, ToldBefore
<1>8. /\ \A k \in Closing : Tells(cycle, told, k) = 0
      /\ Tells(cycle, told, "CycleStarted") = 1
      /\ Tells(cycle, told, "VerificationPerformed") = IF answer = "ok" THEN 0 ELSE 1
      /\ Tells(cycle, told, "ActuationApplied") = IF answer = "ok" THEN 1 ELSE 0
      BY <1>1, <1>2, <1>3, <1>7, ToldBefore DEF Tells, Of
<1>9. done' = [done EXCEPT !.applied = Occurrences(journal, "ActuationApplied")
                                         + Tells(cycle, told, "ActuationApplied")]
  <2>1. Occurrences(journal, "ActuationApplied") = done.applied /\ done.applied \in Nat
        BY <1>1, <1>7, ToldBefore
  <2>2. done = [applied |-> done.applied, commits |-> done.commits,
                rollbacks |-> done.rollbacks]
        BY <1>1, ToldBefore
  <2> QED BY <1>1, <1>8, <2>1, <2>2
<1> QED BY <1>1, <1>2, <1>3, <1>4, <1>6, <1>8, <1>9, ToldBefore, GoingKeepsTrail DEF next

LEMMA VerifyKeepsTrail ==
    ASSUME TrailInv, NEW verdict \in {"Pass", "Fail"}, Verify(verdict)
    PROVE  TrailInv'
<1> DEFINE told == <<"VerificationPerformed">>
           cycle == [running EXCEPT !.verification = verdict]
           next == IF verdict = "Pass" THEN "commit" ELSE "rollback"
<1>1. /\ pc[Loop] = "verify" /\ Recorded(told, cycle) /\ UNCHANGED done
      /\ Goto(Loop, next)
      BY DEF Verify, AfterVerify
<1>2. cycle \in Cycle /\ cycle.events = running.events /\ cycle.verification = verdict
      BY <1>1, ToldBefore DEF Cycle, Verdict
<1>3. /\ told \in Seq(EventKind)
      /\ \A k : Occurrences(told, k) = IF "VerificationPerformed" = k THEN 1 ELSE 0
      BY OneEvent DEF EventKind
<1>4. next \in Step \ {"between", "stopped"} /\ next \in MidCycle BY DEF Step, MidCycle
<1> HIDE DEF next
<1>5. Goes(Loop) /\ pc'[Loop] = next
      BY <1>1, <1>4, LoopIsController, GotoGoes, ToldBefore
<1> HIDE DEF told, cycle
<1>6. /\ \A k \in Closing : Tells(cycle, told, k) = 0
      /\ Tells(cycle, told, "CycleStarted") = 1
      /\ Tells(cycle, told, "VerificationPerformed") = 1
      /\ Tells(cycle, told, "ActuationApplied") = 1 /\ Of("ActuationApplied") = 1
  <2>1. \A k : Tells(cycle, told, k) = Of(k) + Occurrences(told, k) BY <1>2 DEF Tells, Of
  <2>2. /\ Of("CycleStarted") = 1 /\ Of("VerificationPerformed") = 0
        /\ Of("ActuationApplied") = 1 /\ \A k \in Closing : Of(k) = 0
        BY <1>1, ToldBefore
  <2>3. \A k \in Closing : Occurrences(told, k) = 0 BY <1>3 DEF Closing
  <2>4. /\ Occurrences(told, "CycleStarted") = 0 /\ Occurrences(told, "ActuationApplied") = 0
        /\ Occurrences(told, "VerificationPerformed") = 1
        BY <1>3
  <2>5. \A k \in Closing : Tells(cycle, told, k) = 0 BY <2>1, <2>2, <2>3
  <2> QED BY <2>1, <2>2, <2>4, <2>5
<1>7. done' = [done EXCEPT !.applied = Occurrences(journal, "ActuationApplied")
                                         + Tells(cycle, told, "ActuationApplied")]
  <2>1. /\ Occurrences(journal, "ActuationApplied") + Of("ActuationApplied") = done.applied
        /\ done = [applied |-> done.applied, commits |-> done.commits,
                   rollbacks |-> done.rollbacks]
        BY <1>1, ToldBefore
  <2> QED BY <1>1, <1>6, <2>1
<1>8. next = "commit" => cycle.verification = "Pass" BY <1>2 DEF next
<1>9. next \in {"commit", "rollback"} BY DEF next
<1> QED BY <1>1, <1>2, <1>3, <1>4, <1>5, <1>6, <1>7, <1>8, <1>9, GoingKeepsTrail

(* A commit or a rollback that answered: the cycle ends.                   *)
LEMMA CommitKeepsTrail ==
    ASSUME TrailInv, NEW answer \in Answers, Commit(answer)
    PROVE  TrailInv'
<1> DEFINE told == CommitEvents(answer)
<1>1. /\ pc[Loop] = "commit" /\ AfterCommit(Loop, answer) /\ Recorded(told, running)
      /\ done' = IF answer = "ok" THEN [done EXCEPT !.commits = @ + 1] ELSE done
      BY DEF Commit, Emit
<1>2. CASE answer = "ok"
  <2>1. /\ told \in Seq(EventKind) /\ told # <<>> /\ told[Len(told)] = "CycleCompleted"
        /\ \A k : Occurrences(told, k) = (IF "CommitExecuted" = k THEN 1 ELSE 0)
                                          + (IF "CycleCompleted" = k THEN 1 ELSE 0)
    <3>1. "CommitExecuted" \in EventKind /\ "CycleCompleted" \in EventKind BY DEF EventKind
    <3>2. told = <<"CommitExecuted", "CycleCompleted">> BY <1>2 DEF CommitEvents
    <3> QED BY <3>1, <3>2, TwoEvents
  <2> HIDE DEF told
  <2>2. /\ Tells(running, told, "CycleStarted") = 1
        /\ Tells(running, told, "CycleCompleted") = 1
        /\ Tells(running, told, "CommitExecuted") = 1
        /\ Tells(running, told, "RollbackExecuted") = 0
        /\ Tells(running, told, "VerificationPerformed") = 1
        /\ Tells(running, told, "ActuationApplied") = 1 /\ Of("ActuationApplied") = 1
        /\ \A k \in {"ControlLoopStopped", "ErrorEncountered", "CancellationObserved"} :
             Tells(running, told, k) = 0
    <3>1. \A k : Tells(running, told, k) = Of(k) + Occurrences(told, k) BY DEF Tells, Of
    <3>2. /\ Of("CycleStarted") = 1 /\ Of("VerificationPerformed") = 1
          /\ pc[Loop] = "commit" => Of("ActuationApplied") = 1
          /\ Of("ActuationApplied") \in Nat
          /\ \A k \in Closing : Of(k) = 0
          BY <1>1, ToldBefore
    <3>3. /\ Of("CommitExecuted") = 0 /\ Of("RollbackExecuted") = 0 /\ Of("CycleCompleted") = 0
          /\ Of("ControlLoopStopped") = 0 /\ Of("ErrorEncountered") = 0
          /\ Of("CancellationObserved") = 0
          BY <3>2 DEF Closing
    <3>4. /\ Occurrences(told, "CommitExecuted") = 1 /\ Occurrences(told, "CycleCompleted") = 1
          /\ \A k : k \notin {"CommitExecuted", "CycleCompleted"} => Occurrences(told, k) = 0
          BY <2>1
    <3>5. /\ Tells(running, told, "CommitExecuted") = 1 /\ Tells(running, told, "CycleCompleted") = 1
          /\ Tells(running, told, "RollbackExecuted") = 0
          BY <3>1, <3>3, <3>4
    <3>6. \A k \in {"ControlLoopStopped", "ErrorEncountered", "CancellationObserved"} :
             Tells(running, told, k) = 0
          BY <3>1, <3>3, <3>4
    <3>7. /\ Tells(running, told, "CycleStarted") = 1
          /\ Tells(running, told, "VerificationPerformed") = 1
          /\ Tells(running, told, "ActuationApplied") = Of("ActuationApplied")
          BY <3>1, <3>2, <3>4
    <3> QED BY <1>1, <3>2, <3>5, <3>6, <3>7
  <2>3. done' = [applied |-> Occurrences(journal, "ActuationApplied")
                               + Tells(running, told, "ActuationApplied"),
                 commits |-> done.commits + 1, rollbacks |-> done.rollbacks + 0]
        BY <1>1, <1>2, <2>2, ToldBefore
  <2>4. "committed" \in CycleResult BY DEF CycleResult
  <2>5. Completes(Loop, "committed")
        BY <1>1, <1>2, <2>4, LoopIsController, CompleteMoves, ToldBefore DEF AfterCommit
  <2>6. running.verification = "Pass" BY <1>1, ToldBefore
  <2> QED BY <1>1, <2>1, <2>2, <2>3, <2>4, <2>5, <2>6, ToldBefore, CompletingKeepsTrail
<1>3. CASE answer # "ok"
  <2>1. told = <<>> BY <1>3 DEF CommitEvents
  <2>2. "rollback" \in Step \ {"between", "stopped"} BY DEF Step
  <2>3. Goes(Loop) /\ pc'[Loop] = "rollback"
        BY <1>1, <1>3, <2>2, LoopIsController, GotoGoes, ToldBefore DEF AfterCommit
  <2>4. \A k : Tells(running, <<>>, k) = Of(k) + 0 BY OccurrencesNone DEF Tells, Of
  <2>5. /\ \A k \in Closing : Tells(running, <<>>, k) = 0
        /\ Tells(running, <<>>, "CycleStarted") = 1
        /\ Tells(running, <<>>, "VerificationPerformed") = 1
        /\ Tells(running, <<>>, "ActuationApplied") = Of("ActuationApplied")
        BY <1>1, <2>4, ToldBefore
  <2>6. done' = [done EXCEPT !.applied = Occurrences(journal, "ActuationApplied")
                                           + Tells(running, <<>>, "ActuationApplied")]
        BY <1>1, <1>3, <2>5, ToldBefore
  <2>7. Recorded(<<>>, running) BY <1>1, <2>1
  <2> QED BY <1>1, <2>3, <2>5, <2>6, <2>7, NoEvent, ToldBefore, GoingKeepsTrail DEF MidCycle
<1> QED BY <1>2, <1>3

LEMMA RollbackKeepsTrail ==
    ASSUME TrailInv, NEW answer \in Answers, Rollback(answer)
    PROVE  TrailInv'
<1> DEFINE told == IF answer = "ok" THEN <<"RollbackExecuted", "CycleCompleted">> ELSE <<>>
<1>1. /\ pc[Loop] = "rollback" /\ AfterRollback(Loop, answer) /\ Recorded(told, running)
      /\ done' = IF answer = "ok" THEN [done EXCEPT !.rollbacks = @ + 1] ELSE done
      BY DEF Rollback, Emit
<1>2. CASE answer = "ok"
  <2>1. /\ told \in Seq(EventKind) /\ told # <<>> /\ told[Len(told)] = "CycleCompleted"
        /\ \A k : Occurrences(told, k) = (IF "RollbackExecuted" = k THEN 1 ELSE 0)
                                          + (IF "CycleCompleted" = k THEN 1 ELSE 0)
    <3>1. "RollbackExecuted" \in EventKind /\ "CycleCompleted" \in EventKind BY DEF EventKind
    <3>2. told = <<"RollbackExecuted", "CycleCompleted">> BY <1>2
    <3> QED BY <3>1, <3>2, TwoEvents
  <2> HIDE DEF told
  <2>2. /\ Tells(running, told, "CycleStarted") = 1
        /\ Tells(running, told, "CycleCompleted") = 1
        /\ Tells(running, told, "CommitExecuted") = 0
        /\ Tells(running, told, "RollbackExecuted") = 1
        /\ Tells(running, told, "VerificationPerformed") = 1
        /\ Tells(running, told, "ActuationApplied") = Of("ActuationApplied")
        /\ \A k \in {"ControlLoopStopped", "ErrorEncountered", "CancellationObserved"} :
             Tells(running, told, k) = 0
    <3>1. \A k : Tells(running, told, k) = Of(k) + Occurrences(told, k) BY DEF Tells, Of
    <3>2. /\ Of("CycleStarted") = 1 /\ Of("VerificationPerformed") = 1
          /\ pc[Loop] = "commit" => Of("ActuationApplied") = 1
          /\ Of("ActuationApplied") \in Nat
          /\ \A k \in Closing : Of(k) = 0
          BY <1>1, ToldBefore
    <3>3. /\ Of("CommitExecuted") = 0 /\ Of("RollbackExecuted") = 0 /\ Of("CycleCompleted") = 0
          /\ Of("ControlLoopStopped") = 0 /\ Of("ErrorEncountered") = 0
          /\ Of("CancellationObserved") = 0
          BY <3>2 DEF Closing
    <3>4. /\ Occurrences(told, "RollbackExecuted") = 1 /\ Occurrences(told, "CycleCompleted") = 1
          /\ \A k : k \notin {"RollbackExecuted", "CycleCompleted"} => Occurrences(told, k) = 0
          BY <2>1
    <3>5. /\ Tells(running, told, "RollbackExecuted") = 1 /\ Tells(running, told, "CycleCompleted") = 1
          /\ Tells(running, told, "CommitExecuted") = 0
          BY <3>1, <3>3, <3>4
    <3>6. \A k \in {"ControlLoopStopped", "ErrorEncountered", "CancellationObserved"} :
             Tells(running, told, k) = 0
          BY <3>1, <3>3, <3>4
    <3>7. /\ Tells(running, told, "CycleStarted") = 1
          /\ Tells(running, told, "VerificationPerformed") = 1
          /\ Tells(running, told, "ActuationApplied") = Of("ActuationApplied")
          BY <3>1, <3>2, <3>4
    <3> QED BY <1>1, <3>2, <3>5, <3>6, <3>7
  <2>3. done' = [applied |-> Occurrences(journal, "ActuationApplied")
                               + Tells(running, told, "ActuationApplied"),
                 commits |-> done.commits + 0, rollbacks |-> done.rollbacks + 1]
        BY <1>1, <1>2, <2>2, ToldBefore
  <2>4. "rolledBack" \in CycleResult BY DEF CycleResult
  <2>5. Completes(Loop, "rolledBack")
        BY <1>1, <1>2, <2>4, LoopIsController, CompleteMoves, ToldBefore DEF AfterRollback
  <2> QED BY <1>1, <2>1, <2>2, <2>3, <2>4, <2>5, ToldBefore, CompletingKeepsTrail
<1>3. CASE answer # "ok"
  <2>1. told = <<>> BY <1>3
  <2>2. Ends(Loop) /\ stop'[Loop] = "error"
        BY <1>1, <1>3, LoopIsController, ErrorMoves, ToldBefore DEF AfterRollback
  <2>3. \A k : Tells(running, <<>>, k) = Of(k) + 0 BY OccurrencesNone DEF Tells, Of
  <2>4. /\ \A k \in Closing : Tells(running, <<>>, k) = 0
        /\ Tells(running, <<>>, "CycleStarted") = 1
        /\ Tells(running, <<>>, "ActuationApplied") = Of("ActuationApplied")
        BY <1>1, <2>3, ToldBefore
  <2>5. Recorded(<<>>, running) /\ UNCHANGED done BY <1>1, <1>3, <2>1
  <2> QED BY <1>1, <2>2, <2>4, <2>5, NoEvent, ToldBefore, FailingKeepsTrail
<1> QED BY <1>2, <1>3

-----------------------------------------------------------------------------
LEMMA BeginningTrail == RunInit => TrailInv
<1>1. SUFFICES ASSUME RunInit PROVE TrailInv OBVIOUS
<1>2. /\ pc[Loop] = "start" /\ stop[Loop] = "running" /\ ControlTypeOK
      BY <1>1, LoopIsController, ConfigAssumption
      DEF RunInit, ControlInit, ControlTypeOK, Step, CycleResult, StopReason
<1>3. <<>> \in Seq(EventKind) /\ <<>> \in Seq(Result) BY EmptySeq
<1>4. TrailTypeOK BY <1>1, <1>2, <1>3, UnbegunCycle DEF RunInit, TrailTypeOK
<1>5. CycleInv BY <1>1, <1>2, UnbegunCycle DEF RunInit, CycleInv, Of, MidCycle
<1>6. JournalInv /\ BeginningInv BY <1>1, <1>2 DEF RunInit, JournalInv, BeginningInv
<1>7. TrailTellsTheRun
  <2>1. DOMAIN completed = {} BY <1>1 DEF RunInit
  <2> QED BY <1>2, <2>1 DEF TrailTellsTheRun
<1> QED BY <1>4, <1>5, <1>6, <1>7 DEF TrailInv

LEMMA StepKeepsTrail == TrailInv /\ [RunNext]_runVars => TrailInv'
<1>1. SUFFICES ASSUME TrailInv, [RunNext]_runVars PROVE TrailInv' OBVIOUS
<1>2. CASE StartRun BY <1>1, <1>2, StartKeepsTrail
<1>3. CASE ContinueRun BY <1>1, <1>3, ContinueKeepsTrail
<1>4. CASE CancelRun BY <1>1, <1>4, CancelKeepsTrail
<1>5. CASE ForecastFails BY <1>1, <1>5, ForecastFailureKeepsTrail
<1>6. ASSUME NEW f \in Forecast, NEW r \in Candidate \cup {None}, NEW p \in BOOLEAN,
             BeginsCycle(f, r, p)
      PROVE  TrailInv'
      BY <1>1, <1>6, BeginKeepsTrail
<1>7. ASSUME NEW a \in Answers \cup {"refused"}, NEW n \in 0..1, ValidatePlan(a, n)
      PROVE  TrailInv'
      BY <1>1, <1>7, ValidateKeepsTrail DEF Answers
<1>8. ASSUME NEW a \in Answers, PrepareActuation(a) \/ Actuate(a) \/ Commit(a) \/ Rollback(a)
      PROVE  TrailInv'
      BY <1>1, <1>8, PrepareKeepsTrail, ActuateKeepsTrail, CommitKeepsTrail, RollbackKeepsTrail
<1>9. ASSUME NEW v \in {"Pass", "Fail"}, Verify(v) PROVE TrailInv'
      BY <1>1, <1>9, VerifyKeepsTrail
<1>10. CASE UNCHANGED runVars
       BY <1>1, <1>10
       DEF runVars, controlVars, trailVars, TrailInv, TrailTypeOK, ControlTypeOK, CycleInv,
           JournalInv, BeginningInv, TrailTellsTheRun, Of
<1> QED BY <1>1, <1>2, <1>3, <1>4, <1>5, <1>6, <1>7, <1>8, <1>9, <1>10 DEF RunNext, Forecast

(* The trail of every run, whatever its answers, tells what was done.      *)
THEOREM TrailIsWhole == RunSpec => []TrailTellsTheRun
<1>1. RunSpec => []TrailInv BY BeginningTrail, StepKeepsTrail, PTL DEF RunSpec
<1>2. TrailInv => TrailTellsTheRun BY DEF TrailInv
<1> QED BY <1>1, <1>2, PTL
===============================================================================

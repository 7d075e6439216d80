--------------------------- MODULE GuardedTransaction ---------------------------
(***************************************************************************)
(* The three trusted boundaries that evidence admits and a local backend   *)
(* carries out: the thermal/energy gated transition, the batch/device      *)
(* placement (elastic-runtime) and the kernel realization (elastic-kernel).*)
(* All three run VALIDATE, ACT, VERIFY, COMMIT, and call rollback once     *)
(* after anything that may have mutated; they differ in what they require  *)
(* of the evidence, and when.  Time passes and providers publish new       *)
(* snapshots while a plan is kept and while a backend call runs.           *)
(*                                                                         *)
(* A snapshot gives the value of one signal for each candidate, or, for    *)
(* the one thermal transition, the values of its signals.  Providers leave *)
(* the evidence generation at its default, so a trace is what the snapshot *)
(* makes of it.                                                            *)
(***************************************************************************)
EXTENDS Naturals, FiniteSets

CONSTANTS
    Boundary,     \* the boundaries to explore
    Declared,     \* the declared candidates
    Rank,         \* their order by the provider's score, then by identity
    MaxAge,       \* how old accepted evidence may be
    MaxTime,      \* bound: the clock stops here
    MaxCalls      \* bound: executions begun

Initial == "start"            \* the configuration before any switch
Partial == "partial"        \* what a failed actuation may leave
Insufficient == "insufficient evidence"
NoCandidate == "no candidate"
Reserved == {Partial, Insufficient, NoCandidate, "failed", "blocked", "pending"}

ASSUME CandidatesAreRanked ==
    /\ IsFiniteSet(Declared)
    /\ Rank \in [Declared -> 1..Cardinality(Declared)]
    /\ \A c, d \in Declared : Rank[c] = Rank[d] => c = d
    /\ \E c \in Declared : Rank[c] = 1
    /\ Reserved \cap Declared = {}
    /\ {MaxAge, MaxTime, MaxCalls} \subseteq Nat
    /\ Boundary \subseteq {"thermal", "batch", "kernel"}

Value == {"good", "bad", "none"}
Truth == {"True", "False", "Unknown"}
Snapshot == [value : [Declared -> Value], at : 0..MaxTime]
BackendConfig == {Initial, Partial} \cup Declared
Outcome == Declared \cup {Insufficient, NoCandidate}
NoTrace == [outcome |-> "no trace"]
Only == CHOOSE c \in Declared : Rank[c] = 1     \* the thermal transition

VARIABLES
    boundary,      \* which of the three this is
    clock, snapshot,     \* the time, and the provider's latest snapshot
    trace,         \* the durable trace the caller kept
    record,        \* kernel: the selection the caller kept
    stage, call,   \* where the execution is, and what it was bound to
    active, authoritative,   \* the backend: what it runs, what it committed
    before,        \* ghost: the backend when the execution began
    report,        \* what the caller was told last
    calls          \* executions begun

evidenceVars == <<boundary, clock, snapshot, calls>>
planVars == <<trace, record>>
backendVars == <<active, authoritative>>
vars == <<evidenceVars, planVars, stage, call, backendVars, before, report>>

-----------------------------------------------------------------------------
(* Evidence. *)
Candidates == IF boundary = "thermal" THEN {Only} ELSE Declared
Signals(c) == IF boundary = "thermal" THEN Declared ELSE {c}

Classify(v) == CASE v = "good" -> "True" [] v = "bad" -> "False" [] v = "none" -> "Unknown"

KleeneAnd(truths) ==
    IF "False" \in truths THEN "False" ELSE IF "Unknown" \in truths THEN "Unknown" ELSE "True"

Fresh(s, now) == s.at <= now /\ now - s.at <= MaxAge

TruthOf(c, s, now) ==
    IF Fresh(s, now) THEN KleeneAnd({Classify(s.value[k]) : k \in Signals(c)}) ELSE "Unknown"

Survivors(s, now) == {c \in Candidates : TruthOf(c, s, now) = "True"}

Best(C) == CHOOSE c \in C : \A d \in C : Rank[c] <= Rank[d]

(* What planning may answer: one unknown candidate blocks the ranking.     *)
(* The kernel planner ranks the survivors by measured evidence, or finds   *)
(* that it cannot; KernelPlanner says which.                               *)
Outcomes(s, now) ==
    IF \E c \in Candidates : TruthOf(c, s, now) = "Unknown" THEN {Insufficient}
    ELSE IF Survivors(s, now) = {} THEN {NoCandidate}
    ELSE IF boundary = "kernel" THEN Survivors(s, now) \cup {Insufficient}
    ELSE {Best(Survivors(s, now))}

(* A trace keeps what was accepted of the evidence, and the outcome. *)
TraceOf(s, now, outcome) ==
    [seen |-> [c \in Candidates |-> IF TruthOf(c, s, now) = "Unknown" THEN "none" ELSE s.value[c]],
     outcome |-> outcome]

NoRecord == [outcome |-> NoCandidate, value |-> [c \in Declared |-> "none"]]
NoCall == [candidate |-> Initial, snapshot |-> [value |-> NoRecord.value, at |-> 0], now |-> 0,
           guarded |-> FALSE]
(* The status of a committed execution is the candidate it committed. *)
Report(status, at, rolledBack, broken) ==
    [status |-> status, stage |-> at, rolledBack |-> rolledBack, broken |-> broken]
Refused(at) == Report("failed", at, FALSE, FALSE)
Blocked == Report("blocked", "bind", FALSE, FALSE)
Pending == Report("pending", "bind", FALSE, FALSE)
Committed(c) == Report(c, "commit", FALSE, FALSE)

Init ==
    /\ boundary \in Boundary
    /\ clock = 0
    /\ snapshot \in [value : [Declared -> Value], at : {0}]
    /\ trace = NoTrace /\ record = NoRecord
    /\ stage = "idle" /\ call = NoCall
    /\ active = Initial /\ authoritative = Initial
    /\ before = <<Initial, Initial>>
    /\ report = Blocked /\ calls = 0

Tick ==
    /\ clock < MaxTime /\ clock' = clock + 1
    /\ UNCHANGED <<boundary, snapshot, calls, planVars, stage, call, backendVars, before, report>>

(* A snapshot published during an execution is handed to the next one. *)
Probe(v) ==
    /\ stage = "idle"
    /\ snapshot' = [value |-> v, at |-> clock]
    /\ UNCHANGED <<boundary, clock, calls, planVars, stage, call, backendVars, before, report>>

(* The caller plans now and may act on it later.  A kernel plan need not   *)
(* be traced: the caller then still holds an older trace.                  *)
Plan(outcome, traced) ==
    /\ stage = "idle" /\ boundary # "thermal"
    /\ outcome \in Outcomes(snapshot, clock)
    /\ boundary = "batch" => traced
    /\ record' = IF boundary = "kernel"
                 THEN [outcome |-> outcome, value |-> snapshot.value] ELSE record
    /\ trace' = IF traced THEN TraceOf(snapshot, clock, outcome) ELSE trace
    /\ UNCHANGED <<evidenceVars, stage, call, backendVars, before, report>>
-----------------------------------------------------------------------------
(* Binding: the caller hands over the snapshot it believes to be fresh.    *)
Answer(r) ==
    /\ report' = r /\ before' = backendVars
    /\ calls' = calls + 1
    /\ UNCHANGED <<boundary, clock, snapshot, planVars, stage, call, backendVars>>

Bind(c, guarded) ==
    /\ call' = [candidate |-> c, snapshot |-> snapshot, now |-> clock, guarded |-> guarded]
    /\ stage' = "validate" /\ before' = backendVars /\ report' = Pending
    /\ calls' = calls + 1
    /\ UNCHANGED <<boundary, clock, snapshot, planVars, backendVars>>

(* execute_guarded_thermal_energy_transaction and its unguarded reference: *)
(* both judge the one transition by the numbers; only the first blocks.    *)
ExecuteThermal(guarded) ==
    /\ boundary = "thermal" /\ stage = "idle" /\ calls < MaxCalls
    /\ \/ /\ TruthOf(Only, snapshot, clock) = "True"
          /\ Bind(Only, guarded)
       \/ /\ TruthOf(Only, snapshot, clock) # "True"
          /\ Answer(IF guarded THEN Blocked ELSE Refused("validate"))

AnyTrace == trace # NoTrace   \* mutant: the trace is not compared

(* The trace must be what planning would say of this snapshot now. *)
TraceMatches ==
    trace \in {TraceOf(snapshot, clock, o) : o \in Outcomes(snapshot, clock)}

(* execute_guarded_batch_device_transaction: a trace that planning would   *)
(* not produce now, or that selected nothing, blocks.                      *)
ExecuteBatch ==
    /\ boundary = "batch" /\ stage = "idle" /\ calls < MaxCalls /\ trace # NoTrace
    /\ \/ /\ trace.outcome \in Declared /\ TraceMatches
          /\ TruthOf(trace.outcome, snapshot, clock) = "True"
          /\ Bind(trace.outcome, TRUE)
       \/ /\ trace.outcome \notin Declared \/ ~TraceMatches
          /\ Answer(Blocked)

(* execute_unguarded_batch_device_transaction: any declared candidate. *)
ExecuteBatchUnguarded(c) ==
    /\ boundary = "batch" /\ stage = "idle" /\ calls < MaxCalls
    /\ \/ /\ TruthOf(c, snapshot, clock) = "True"
          /\ Bind(c, FALSE)
       \/ /\ TruthOf(c, snapshot, clock) # "True"
          /\ Answer(Refused("bind"))

(* The selection was made for these capabilities. *)
SelectionStands == record.value = snapshot.value

(* execute_guarded_kernel_transaction, and the unguarded one, which has a  *)
(* selection but asks for no trace.                                        *)
ExecuteKernel(guarded) ==
    /\ boundary = "kernel" /\ stage = "idle" /\ calls < MaxCalls
    /\ ~guarded => record.outcome \in Declared
    /\ LET selected == record.outcome \in Declared
           matches == guarded => trace = [seen |-> record.value, outcome |-> record.outcome]
           compatible == snapshot.value[record.outcome] = "good"
       IN  \/ /\ selected /\ matches /\ SelectionStands /\ compatible
              /\ Bind(record.outcome, guarded)
           \/ /\ ~(selected /\ matches)
              /\ Answer(Blocked)
           \/ /\ selected /\ matches /\ ~(SelectionStands /\ compatible)
              /\ Answer(Refused("bind"))

-----------------------------------------------------------------------------
(* The backend's part. *)
Proceed(next) ==
    /\ stage' = next
    /\ UNCHANGED <<evidenceVars, planVars, call, before, report>>

Finish(r) ==
    /\ stage' = "idle" /\ report' = r /\ call' = NoCall
    /\ UNCHANGED <<evidenceVars, planVars, before>>

ValidateCandidate ==
    /\ stage = "validate"
    /\ UNCHANGED backendVars
    /\ \/ Proceed("act")
       \/ Finish(Refused("validate"))

EvidenceTakenOnce == TRUE   \* mutant: the evidence is not judged again

(* The thermal boundary judges the evidence again, at the time of action. *)
ActionTimeAdmits ==
    boundary = "thermal" => TruthOf(call.candidate, call.snapshot, clock) = "True"

ActionTimeRefuses ==
    /\ stage = "act" /\ ~ActionTimeAdmits
    /\ UNCHANGED backendVars
    /\ Finish(Refused("validate"))

(* A failed actuation may have done nothing, a part, or everything. *)
ActuateCandidate ==
    /\ stage = "act" /\ ActionTimeAdmits
    /\ \/ active' = call.candidate /\ Proceed("verify")
       \/ active' \in {active, Partial, call.candidate} /\ Proceed("rollback act")
    /\ UNCHANGED authoritative

(* A verification that passes found the candidate running. *)
VerifyCandidate ==
    /\ stage = "verify"
    /\ UNCHANGED backendVars
    /\ \/ active = call.candidate /\ Proceed("commit")
       \/ Proceed("rollback verify")

CommitFailsQuietly ==   \* mutant: a failed commit is not rolled back
    /\ stage = "commit"
    /\ UNCHANGED active
    /\ \/ /\ authoritative' = call.candidate
          /\ Finish(Committed(call.candidate))
       \/ /\ authoritative' \in {authoritative, call.candidate}
          /\ Finish(Refused("commit"))

CommitCandidate ==
    /\ stage = "commit"
    /\ UNCHANGED active
    /\ \/ /\ authoritative' = call.candidate
          /\ Finish(Committed(call.candidate))
       \/ /\ authoritative' \in {authoritative, call.candidate}
          /\ Proceed("rollback commit")

FailedAt == CASE stage = "rollback act" -> "act" [] stage = "rollback verify" -> "verify"
              [] stage = "rollback commit" -> "commit"

(* fail_after_possible_mutation: rollback is called once; if it fails, the *)
(* failure says so.                                                        *)
RollbackCandidate ==
    /\ stage \in {"rollback act", "rollback verify", "rollback commit"}
    /\ \/ /\ active' = before[1] /\ authoritative' = before[2]
          /\ Finish(Report("failed", FailedAt, TRUE, FALSE))
       \/ /\ UNCHANGED backendVars
          /\ Finish(Report("failed", FailedAt, TRUE, TRUE))

Next ==
    \/ Tick
    \/ \E v \in [Declared -> Value] : Probe(v)
    \/ \E outcome \in Outcome, traced \in BOOLEAN : Plan(outcome, traced)
    \/ \E guarded \in BOOLEAN : ExecuteThermal(guarded) \/ ExecuteKernel(guarded)
    \/ ExecuteBatch
    \/ \E c \in Declared : ExecuteBatchUnguarded(c)
    \/ ValidateCandidate
    \/ ActionTimeRefuses
    \/ ActuateCandidate
    \/ VerifyCandidate
    \/ CommitCandidate
    \/ RollbackCandidate

Spec == Init /\ [][Next]_vars

-----------------------------------------------------------------------------
Stage == {"idle", "validate", "act", "verify", "commit",
          "rollback act", "rollback verify", "rollback commit"}

(* Types; a partial configuration never becomes the committed one. *)
TypeOK ==
    /\ boundary \in Boundary /\ clock \in 0..MaxTime /\ calls \in 0..MaxCalls
    /\ snapshot \in Snapshot
    /\ trace = NoTrace \/ trace.outcome \in Outcome
    /\ record.outcome \in Outcome /\ record.value \in [Declared -> Value]
    /\ stage \in Stage /\ call.snapshot \in Snapshot
    /\ stage # "idle" => call.candidate \in Candidates
    /\ active \in BackendConfig /\ authoritative \in BackendConfig \ {Partial}
    /\ report.broken => report.rolledBack

(* What the caller is told is what happened to the backend: a commit       *)
(* switched it and made it authoritative, a block or a failure left it as  *)
(* it was before the call, unless the failure names a failed rollback.     *)
ReportIsTrue ==
    stage = "idle" =>
        /\ report.status \in Declared =>
              active = report.status /\ authoritative = report.status
        /\ report.status \notin Declared =>
              report.broken \/ backendVars = before

(* A guarded execution only carries out what planning would choose on the  *)
(* snapshot it was handed, however old the plan: no unknown rival, no      *)
(* better one.  The batch boundary judges that at the time of the call;    *)
(* the kernel boundary does not ask how old its snapshot is.               *)
CarriedOutIsChosen ==
    stage # "idle" /\ call.guarded =>
        call.candidate \in Outcomes(call.snapshot,
            IF boundary = "kernel" THEN call.snapshot.at ELSE call.now)

(* The thermal boundary never mutates on evidence that expired while the   *)
(* backend validated.                                                      *)
ActsInTime ==
    [][ boundary = "thermal" /\ stage = "act" /\ stage' \in {"verify", "rollback act"} =>
          /\ clock - call.snapshot.at <= MaxAge
          /\ \A k \in Declared : call.snapshot.value[k] = "good" ]_vars
=============================================================================

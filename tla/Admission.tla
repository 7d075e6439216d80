----------------------------- MODULE Admission ------------------------------
(***************************************************************************)
(* Capacity admission (elastic-runtime): three controllers that set the    *)
(* width of one pool of permits from a caller's request, each through one  *)
(* cycle of the runtime over the transactional handle.                     *)
(*                                                                         *)
(*   plain     CapacityAdmissionControllerV1: the width an observed        *)
(*             capacity has room for (capacity_admission.rs);              *)
(*   ram       the same behind a Boolean guard on the free memory          *)
(*             (ram_boolean_admission.rs);                                 *)
(*   headroom  a wanted width behind a guard on the permits in use         *)
(*             (concurrency_boolean_admission.rs).                         *)
(*                                                                         *)
(* permits() hands out clones of the handle, so the width may be resized   *)
(* by another control loop between any two critical sections of a call.    *)
(* The facts of a guard are derived and consumed inside one call, at one   *)
(* epoch and one generation: their freshness is never in doubt here.       *)
(***************************************************************************)
EXTENDS ReferenceAdapter

CONSTANTS
    Admitting,  \* the controllers that are called; the others run a loop
    Request,    \* the requests a caller may make
    MaxExact,   \* the largest integer an f64 holds exactly
    MaxCalls    \* bound: calls of one controller

Availability == {"available", "unknown", "unavailable"}
Screen == {"plain", "ram", "headroom"}

(* What validate lets through; plan and environment say whether the        *)
(* identities are the expected ones.                                       *)
WellFormed == [limit : Nat \ {0}, plan : BOOLEAN, environment : BOOLEAN,
               capacity : Availability, cpu : Nat, bytes : Nat, reserve : Nat,
               perTrial : Nat \ {0}, age : Nat, maxAge : Nat \ {0}]

ASSUME AdmissionAssumption ==
    /\ Admitting \subseteq Controller /\ MaxExact \in Nat /\ MaxCalls \in Nat
    /\ \A a \in Admitting : \A f \in Config[a] : f.mode = "Apply" /\ ~f.dryRun
    /\ Request \subseteq WellFormed
    /\ 1 .. MaxSize \subseteq Candidate
    /\ None \notin Admitting
    /\ None \notin [request : WellFormed \cup [limit : Nat], target : Nat, previous : Nat]

VARIABLES
    screen,      \* which controller this is; fixed
    call,        \* the running call of each controller, or None
    calls,       \* calls made: with a guard, the observation epoch
    generation,  \* resource_generation
    report,      \* what the last call returned, or None
    setter,      \* ghost: the admission whose cycle wrote the width last, if any
    found, left  \* ghost: the width a call first wrote over, and last wrote

callVars == <<screen, call, calls, generation, report>>
ghosts == <<setter, found, left>>
admissionVars == <<vars, callVars, ghosts>>

Unasked ==
    /\ call = [a \in Admitting |-> None]
    /\ generation = [a \in Admitting |-> 1]
    /\ report = [a \in Admitting |-> None]
    /\ setter = None
    /\ found = [a \in Admitting |-> None] /\ left = found

AdmissionInit ==
    /\ Init /\ kind = "permits" /\ Unasked
    /\ screen \in [Admitting -> Screen]
    /\ calls = [a \in Admitting |-> 0]

-----------------------------------------------------------------------------
(* What a request asks for.                                                *)

Least(S) == CHOOSE n \in S : \A m \in S : n <= m

(* The part of the free memory that is not reserved, in trials.            *)
MemoryWidth(r) ==
    IF r.bytes <= r.reserve THEN 0 ELSE (r.bytes - r.reserve) \div r.perTrial

TargetWithoutReserve(r) ==      \* mutant: the reserve is given away
    Least({r.limit, r.cpu, r.bytes \div r.perTrial})

TargetOf(r) == Least({r.limit, r.cpu, MemoryWidth(r)})

(* Why the plain controller would not act on a request; "act" if it would. *)
Verdict(r) ==
    IF ~r.plan THEN "plan-identity-mismatch"
    ELSE IF ~r.environment THEN "environment-identity-mismatch"
    ELSE IF r.age > r.maxAge THEN "stale-observation"
    ELSE IF r.capacity = "unknown" THEN "capacity-unknown"
    ELSE IF r.capacity = "unavailable" THEN "capacity-unavailable"
    ELSE IF TargetOf(r) = 0 THEN "insufficient-capacity" ELSE "act"

(* The guard of the ram screen: the free memory holds the reserve and one  *)
(* trial.  An observation that is not there, is too old, or whose number   *)
(* is beyond what an f64 holds leaves it unknown.                          *)
Required(r) == r.reserve + r.perTrial

RamTruthStrict(r) ==            \* mutant: exactly enough is not enough
    IF \/ Required(r) > MaxExact \/ r.capacity # "available"
       \/ r.bytes > MaxExact \/ r.age > r.maxAge THEN "U"
    ELSE IF r.bytes > Required(r) THEN "T" ELSE "F"

RamTruth(r) ==
    IF \/ Required(r) > MaxExact \/ r.capacity # "available"
       \/ r.bytes > MaxExact \/ r.age > r.maxAge THEN "U"
    ELSE IF r.bytes >= Required(r) THEN "T" ELSE "F"

-----------------------------------------------------------------------------
(* A call and its report.                                                  *)

(* A report without a cycle: the width it names is the one just read.      *)
Refused(a, r, how) ==
    /\ report' = [report EXCEPT ![a] =
          [request |-> r, reason |-> how, committed |-> "no",
           target |-> None, previous |-> size, final |-> size]]
    /\ UNCHANGED <<controlVars, call>>

(* The controller enters the runtime's cycle with its one candidate.       *)
Enter(a, r, width, before) ==
    /\ call' = [call EXCEPT ![a] =
          [request |-> r, target |-> width, previous |-> before]]
    /\ pc' = [pc EXCEPT ![a] = "validate"]
    /\ target' = [target EXCEPT ![a] = width]
    /\ UNCHANGED <<config, cycles, result, stop, cancelled, report>>

Idle(a) == pc[a] = "start" /\ call[a] = None /\ calls[a] < MaxCalls

NextEpoch(a) == calls' = [calls EXCEPT ![a] = @ + 1]

(* admit of the plain controller, up to the cycle: one read of the width.  *)
Admit(a, r) ==
    IF Verdict(r) = "act" THEN Enter(a, r, TargetOf(r), size)
                          ELSE Refused(a, r, Verdict(r))

(* A request above the immutable maximum is an error, before any read.     *)
BeginAdmission(a) ==
    /\ Idle(a) /\ screen[a] \in {"plain", "ram"}
    /\ \E r \in {q \in Request : q.limit <= MaxSize} :
          IF screen[a] = "plain" \/ ~r.plan \/ ~r.environment \/ RamTruth(r) = "T"
          THEN Admit(a, r)
          ELSE Refused(a, r, IF RamTruth(r) = "F" THEN "boolean-ram-capacity-false"
                                                  ELSE "boolean-ram-capacity-unknown")
    /\ NextEpoch(a)
    /\ found' = [found EXCEPT ![a] = None] /\ left' = [left EXCEPT ![a] = None]
    /\ UNCHANGED <<adapterVars, screen, generation, setter>>

(* resize reads the width and then, under the lock again, the permits in   *)
(* use; the observation may be older than a second when it is judged.      *)
BeginResize(a) ==
    /\ Idle(a) /\ screen[a] = "headroom"
    /\ \E w \in 1 .. MaxSize :
          call' = [call EXCEPT ![a] =
              [request |-> [limit |-> w], target |-> w, previous |-> size]]
    /\ pc' = [pc EXCEPT ![a] = "observe"]
    /\ NextEpoch(a)
    /\ found' = [found EXCEPT ![a] = None] /\ left' = [left EXCEPT ![a] = None]
    /\ UNCHANGED <<config, target, cycles, result, stop, cancelled, adapterVars,
                   screen, generation, report, setter>>

ScreenResize(a) ==
    /\ pc[a] = "observe" /\ call[a] # None
    /\ LET r == call[a].request
           width == call[a].previous
       IN  \E truth \in {IF held <= r.limit THEN "T" ELSE "F", "U"} :
             IF truth = "T" THEN Enter(a, r, r.limit, width)
             ELSE /\ report' = [report EXCEPT ![a] =
                        [request |-> r, committed |-> "no", target |-> None,
                         reason |-> IF truth = "F" THEN "boolean-concurrency-headroom-false"
                                                   ELSE "boolean-concurrency-headroom-unknown",
                         previous |-> width, final |-> width]]
                  /\ call' = [call EXCEPT ![a] = None]
                  /\ pc' = [pc EXCEPT ![a] = "start"]
                  /\ UNCHANGED <<config, target, cycles, result, stop, cancelled>>
    /\ UNCHANGED <<adapterVars, screen, calls, generation, ghosts>>

CommittedByWidth(a) ==          \* mutant: the width tells whether it was committed
    IF size = call[a].target THEN "yes" ELSE "no"

(* What the caller is told of the cycle: nothing for sure if it failed.    *)
Committed(a) ==
    IF result[a] = "committed" THEN "yes"
    ELSE IF result[a] = "error" THEN "unknown" ELSE "no"

Ended(a) == pc[a] \in {"between", "stopped"}

(* The guards' controllers count the changes of the width they reported.   *)
NextGeneration(a, done) ==
    generation' = [generation EXCEPT ![a] =
        IF screen[a] # "plain" /\ done /\ size # call[a].previous THEN @ + 1 ELSE @]

(* The cycle is over: the width is read again, and a committed width that  *)
(* is no longer there is an error, though the commit stands.               *)
Return(a) ==
    /\ call[a] # None /\ Ended(a)
    /\ LET lost == Committed(a) = "yes" /\ size # call[a].target
       IN  /\ report' = [report EXCEPT ![a] =
                 [request |-> call[a].request, target |-> call[a].target,
                  reason |-> IF lost THEN "disagrees" ELSE result[a],
                  committed |-> IF lost THEN "error" ELSE Committed(a),
                  previous |-> call[a].previous, final |-> size]]
           /\ NextGeneration(a, ~lost /\ Committed(a) = "yes")
    /\ call' = [call EXCEPT ![a] = None]
    /\ pc' = [pc EXCEPT ![a] = "start"]
    /\ cycles' = [cycles EXCEPT ![a] = 0]
    /\ result' = [result EXCEPT ![a] = "none"]
    /\ stop' = [stop EXCEPT ![a] = "running"]
    /\ UNCHANGED <<config, target, cancelled, adapterVars, screen, calls, ghosts>>

-----------------------------------------------------------------------------
(* One trusted call of a cycle, and what it writes.                        *)
Transact(c) ==
    /\ AdapterStep(c)
    /\ IF size' # size /\ c \in Admitting
       THEN /\ found' = [found EXCEPT ![c] = IF @ = None THEN size ELSE @]
            /\ left' = [left EXCEPT ![c] = size']
       ELSE UNCHANGED <<found, left>>
    /\ setter' = IF size' = size THEN setter ELSE IF c \in Admitting THEN c ELSE None
    /\ UNCHANGED callVars

Called(a) == BeginAdmission(a) \/ BeginResize(a)
Answering(a) == ScreenResize(a) \/ Transact(a) \/ Return(a)

Looping(c) ==
    \/ Transact(c)
    \/ LoopStep(c) /\ UNCHANGED <<adapterVars, callVars, ghosts>>

Around ==
    /\ \/ Acquire \/ Release
       \/ \E c \in Controller \ Admitting : Cancel(c) /\ UNCHANGED adapterVars
    /\ UNCHANGED <<callVars, ghosts>>

AdmissionNext ==
    \/ Around
    \/ \E a \in Admitting : Called(a) \/ Answering(a)
    \/ \E c \in Controller \ Admitting : Looping(c)

(* A call that was made runs on; so do the loops.                          *)
AdmissionSpec ==
    /\ AdmissionInit /\ [][AdmissionNext]_admissionVars
    /\ \A a \in Admitting : WF_admissionVars(Answering(a))
    /\ \A c \in Controller \ Admitting : WF_admissionVars(Looping(c))

-----------------------------------------------------------------------------
(* Properties.                                                             *)

Answered(a) == call[a] = None /\ report[a] # None

(* What a call reports as committed is within the immutable bound and the  *)
(* request's, was decided on a fresh observation of this plan and this     *)
(* environment, and leaves the reserve and the memory of every trial free. *)
AdmittedFits ==
    \A a \in Admitting : Answered(a) /\ report[a].committed \in {"yes", "error"} =>
        LET r == report[a].request
            width == report[a].target
        IN  /\ width \in 1 .. r.limit /\ r.limit <= MaxSize
            /\ screen[a] # "headroom" =>
                  /\ r.plan /\ r.environment /\ r.age <= r.maxAge
                  /\ r.capacity = "available" /\ width <= r.cpu
                  /\ width * r.perTrial + r.reserve <= r.bytes

(* The guard takes nothing away: a request it refuses is one the plain     *)
(* controller would refuse too, unless a number is beyond an exact f64.    *)
RefusedRightly ==
    \A a \in Admitting : Answered(a) /\ screen[a] = "ram" =>
        LET r == report[a].request
        IN  report[a].reason \in {"boolean-ram-capacity-false",
                                  "boolean-ram-capacity-unknown"} =>
               \/ Verdict(r) # "act"
               \/ r.bytes > MaxExact \/ Required(r) > MaxExact

(* What is admitted fits, and a refusal by the guard is justified.         *)
AdmissionIsExact == AdmittedFits /\ RefusedRightly

(* The report tells what the call itself left behind, whatever the other   *)
(* clones did: nothing when it says that nothing was committed or that it  *)
(* does not know, the target when it says that it was; and when it says    *)
(* that the committed width is gone, another clone resized after it.       *)
ReportIsHonest ==
    \A a \in Admitting : Answered(a) =>
        LET told == report[a].committed
        IN  /\ told \in {"no", "unknown"} => left[a] = found[a]
            /\ told \in {"yes", "error"} => left[a] \in {None, report[a].target}
            /\ told = "yes" => report[a].final = report[a].target
            /\ told = "error" => setter # a

(* Every call is answered and every loop ends, whatever their cycles met:  *)
(* cycles are bounded, and no call waits for another.                      *)
EveryoneEnds ==
    /\ \A a \in Admitting : call[a] # None ~> call[a] = None
    /\ \A c \in Controller \ Admitting : <>(pc[c] = "stopped")
=============================================================================

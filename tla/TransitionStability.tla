-------------------------- MODULE TransitionStability --------------------------
(***************************************************************************)
(* The anti-thrashing gate of elastic-runtime/src/transition_stability.rs: *)
(* a caller presents an observation and gets a single-use permit, acts,    *)
(* and records its commit later; in between the clock moves, the observed  *)
(* signal changes, and other permits are issued and recorded.              *)
(*                                                                         *)
(* Time is counted in whole units.  A signal value is one of three levels: *)
(* on the release side of the band, inside it, or on the trigger side, so  *)
(* rising and falling bands are the same.  An observation is the time it   *)
(* was taken, NoEvidence one that is missing, ambiguous, invalid or not    *)
(* finite.  The gate has one owner (its methods take &mut self), which     *)
(* reads `now` after its previous call returned: a check never comes with  *)
(* a time before that of an earlier call, but `now` may be old by the time *)
(* the observation is taken.  A commit is recorded with the time it        *)
(* happened, which may be long past.                                       *)
(***************************************************************************)
EXTENDS Integers, Sequences, FiniteSets, SequencesExt

CONSTANTS
    MaxAge,       \* how old the evidence of a permit may be
    Cooldown,     \* the least time between two commits
    Window,       \* the width of the rate limit's rolling window
    MaxCommits,   \* how many commits it may hold
    MaxTime,      \* bound: the clock stops here
    MaxPermits,   \* bound: permits outstanding at a time
    MaxGeneration \* bound: recorded commits, far below the u64 of the code

ASSUME DurationsArePositive ==
    /\ {MaxAge, Cooldown, Window, MaxCommits} \subseteq Nat \ {0}
    /\ {MaxTime, MaxPermits, MaxGeneration} \subseteq Nat

Level == {"release", "inside", "trigger"}
Rule == {"hysteresis", "cooldown", "rate"}
Time == 0..MaxTime
NoEvidence == -1
NoCommit == -1

VARIABLES
    policy,       \* the rules this gate enforces, at least one
    armed, generation, last, history,    \* the gate's own fields
    permits,      \* the permits callers hold
    clock, signal,     \* the time, and the signal's level at each past time
    lastNow,      \* the latest time a call came with
    commits       \* the times of all recorded commits, in order of recording

gateVars == <<armed, generation, last, history>>
worldVars == <<policy, clock, signal>>
vars == <<gateVars, worldVars, permits, lastNow, commits>>

Permit == [generation : Nat, checked : Time, evidence : Time \cup {NoEvidence}]

Init ==
    /\ policy \in (SUBSET Rule) \ {{}}
    /\ armed = TRUE /\ generation = 0 /\ last = NoCommit /\ history = <<>>
    /\ permits = {} /\ lastNow = 0 /\ commits = <<>>
    /\ clock = 0 /\ signal \in [{0} -> Level]

-----------------------------------------------------------------------------
(* How many commits are popped off the front: those before the first that  *)
(* is still inside the window at `now`.  There is exactly one such number. *)
Outdated(now) == {n \in 0..Len(history) :
    /\ \A i \in 1..n : now - history[i] >= Window
    /\ n < Len(history) => now - history[n + 1] < Window}

(* What pruning at `now` leaves: a set of one history. *)
Pruned(now) == {SubSeq(history, n + 1, Len(history)) : n \in Outdated(now)}

(* A retained commit that is later than `now` (no owner with a monotonic   *)
(* clock presents one, but the code tests for it).                         *)
Regressed(now) == \E kept \in Pruned(now) : kept # <<>> /\ Head(kept) > now

Fresh(obs, now) == obs # NoEvidence /\ obs <= now /\ now - obs <= MaxAge

RearmsOnStale(obs, now) ==   \* mutant: the age of the evidence is not checked
    /\ "hysteresis" \in policy
    /\ ~Regressed(now) /\ obs # NoEvidence /\ obs <= now /\ signal[obs] = "release"

(* What the hysteresis rule learns from an observation in a check. *)
Rearms(obs, now) ==
    /\ "hysteresis" \in policy
    /\ ~Regressed(now) /\ Fresh(obs, now) /\ signal[obs] = "release"

HysteresisAdmits(obs, now) ==
    "hysteresis" \in policy => armed /\ Fresh(obs, now) /\ signal[obs] = "trigger"

CooldownAdmitsEarly(at) ==   \* mutant: off by one
    "cooldown" \in policy /\ last # NoCommit => at - last + 1 >= Cooldown

CooldownAdmits(at) ==
    "cooldown" \in policy /\ last # NoCommit => at - last >= Cooldown

RateAdmits(now) ==
    "rate" \in policy => \E kept \in Pruned(now) : Len(kept) < MaxCommits

(* A check at `now`: it forgets old commits and may re-arm the band even   *)
(* when it refuses, and it issues a permit when every rule admits.         *)
Check(now, obs) ==
    /\ Cardinality(permits) < MaxPermits
    /\ now >= lastNow /\ lastNow' = now
    /\ history' \in Pruned(now)
    /\ armed' = (armed \/ Rearms(obs, now))
    /\ \/ /\ ~Regressed(now)
          /\ HysteresisAdmits(obs, now) /\ CooldownAdmits(now) /\ RateAdmits(now)
          /\ permits' = permits \cup {[generation |-> generation, checked |-> now,
               evidence |-> IF "hysteresis" \in policy THEN obs ELSE NoEvidence]}
       \/ /\ Regressed(now) \/ ~HysteresisAdmits(obs, now)
             \/ ~CooldownAdmits(now) \/ ~RateAdmits(now)
          /\ UNCHANGED permits
    /\ UNCHANGED <<generation, last, worldVars, commits>>

-----------------------------------------------------------------------------
PresentableAnyGeneration(p, at) ==   \* mutant: a stale permit is accepted
    /\ at >= p.checked
    /\ at >= last
    /\ "hysteresis" \in policy => at - p.evidence <= MaxAge

Later(s, t) == IF s < t THEN t ELSE s

(* The tests of record_commit before it touches the history. *)
Presentable(p, at) ==
    /\ p.generation = generation
    /\ at >= p.checked
    /\ at >= last
    /\ "hysteresis" \in policy => at - p.evidence <= MaxAge

(* The permit is consumed; the commit it stood for counts from now on. *)
RecordCommit(p, at) ==
    /\ generation < MaxGeneration
    /\ Presentable(p, at) /\ ~Regressed(at)
    /\ CooldownAdmits(at) /\ RateAdmits(at)
    /\ permits' = permits \ {p}
    /\ last' = at
    /\ history' \in IF "rate" \in policy THEN {Append(kept, at) : kept \in Pruned(at)}
                   ELSE {history}
    /\ armed' = (armed /\ "hysteresis" \notin policy)
    /\ generation' = generation + 1
    /\ commits' = Append(commits, at)
    /\ lastNow' = Later(lastNow, at)
    /\ UNCHANGED worldVars

(* A refused commit consumes the permit too, and may still prune. *)
RefuseCommit(p, at) ==
    /\ ~ (Presentable(p, at) /\ ~Regressed(at) /\ CooldownAdmits(at) /\ RateAdmits(at))
    /\ permits' = permits \ {p}
    /\ history' \in IF Presentable(p, at) THEN Pruned(at) ELSE {history}
    /\ lastNow' = Later(lastNow, at)
    /\ UNCHANGED <<armed, generation, last, worldVars, commits>>

(* The transition failed or was rolled back: nothing is recorded. *)
DropPermit(p) ==
    /\ permits' = permits \ {p}
    /\ UNCHANGED <<gateVars, worldVars, lastNow, commits>>

(* Time passes and the signal moves. *)
Tick(level) ==
    /\ clock < MaxTime
    /\ clock' = clock + 1
    /\ signal' = [t \in 0..clock' |-> IF t = clock' THEN level ELSE signal[t]]
    /\ UNCHANGED <<policy, gateVars, permits, lastNow, commits>>

Next ==
    \/ \E level \in Level : Tick(level)
    \/ \E now \in 0..clock, obs \in (0..clock) \cup {NoEvidence} : Check(now, obs)
    \/ \E p \in permits, at \in 0..clock : RecordCommit(p, at) \/ RefuseCommit(p, at)
    \/ \E p \in permits : DropPermit(p)

Spec == Init /\ [][Next]_vars

-----------------------------------------------------------------------------
(* Types; the generation counts the recorded commits, and the retained     *)
(* history never outgrows the limit its bound is derived from.             *)
TypeOK ==
    /\ policy \in SUBSET Rule /\ armed \in BOOLEAN /\ generation = Len(commits)
    /\ last = IF commits = <<>> THEN NoCommit ELSE Last(commits)
    /\ history = SubSeq(commits, Len(commits) - Len(history) + 1, Len(commits))
    /\ Len(history) <= MaxCommits
    /\ permits \subseteq Permit /\ clock \in Time /\ lastNow \in 0..clock
    /\ signal \in [0..clock -> Level]
    /\ \A i \in DOMAIN commits : commits[i] \in 0..clock

(* However late commits are recorded, and however many permits were out    *)
(* when they were, no rolling window holds more than MaxCommits of them:   *)
(* pruning for a later check never makes room for an earlier commit.       *)
RateKept ==
    "rate" \in policy =>
        \A i, j \in DOMAIN commits : j - i >= MaxCommits => commits[j] - commits[i] >= Window

(* Two recorded commits are at least the cooldown apart, whichever permits *)
(* they used.                                                              *)
CooldownKept ==
    "cooldown" \in policy =>
        \A i, j \in DOMAIN commits : i < j => commits[j] - commits[i] >= Cooldown

ReleasedFrom(t, i) ==
    \E r \in 0..clock : signal[r] = "release" /\ t <= r /\ r <= commits[i + 1]

(* Between two commits the signal was on the release side, at a time that  *)
(* was still fresh evidence when the first of them happened or later.      *)
HysteresisKept ==
    "hysteresis" \in policy =>
        \A i \in 1..(Len(commits) - 1) : ReleasedFrom(commits[i] - MaxAge, i)

(* What the report of a refusal and the language document say: a commit    *)
(* disarms the band until the signal crosses its release threshold after   *)
(* that commit.  A check re-arms on any fresh observation, so one that was *)
(* taken before the commit does it.                                        *)
ReleasedSinceCommit ==
    "hysteresis" \in policy =>
        \A i \in 1..(Len(commits) - 1) : ReleasedFrom(commits[i], i)
=============================================================================

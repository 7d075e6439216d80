----------------------- MODULE TransitionStabilityProofs -----------------------
(***************************************************************************)
(* TransitionStability for all durations, limits and bounds: the gate      *)
(* keeps its rolling rate limit, its cooldown and its hysteresis band,     *)
(* whatever permits are out and however late a commit is recorded.         *)
(*                                                                         *)
(* The rate limit cannot be read off the history when a commit is          *)
(* recorded, since a later check may have pruned it at a later time.  What *)
(* guards it is the permit: it was issued at a time from which the         *)
(* MaxCommits-th last commit was a whole window away (RoomInv), and it     *)
(* stands only while no other commit is recorded.  BandInv says the same   *)
(* of the release that re-armed the band.                                  *)
(*                                                                         *)
(* The second part is about Observers, whose facts the gate's signals are: *)
(* for every host, every change of it and every set of providers, a fact   *)
(* derived from a snapshot is about a value that one provider read, no     *)
(* longer ago than the predicate allows.                                   *)
(***************************************************************************)
EXTENDS TransitionStability, Observers, SequenceTheorems, WellFoundedInduction, TLAPS

(* A history h that was pruned no later than t is the end of the record,   *)
(* and the commits it forgot are a window away; without a rate limit       *)
(* nothing is kept.                                                        *)
Remembers(h, t) ==
    /\ h \in Seq(Nat) /\ Len(h) <= Len(commits) /\ Len(h) <= MaxCommits
    /\ "rate" \notin policy => Len(h) = 0
    /\ \A i \in 1..Len(h) : h[i] = commits[Len(commits) - Len(h) + i]
    /\ "rate" \in policy =>
          \A i \in 1..Len(commits) : i <= Len(commits) - Len(h) => t - commits[i] >= Window

(* The commits were recorded in order of time, none later than any call.   *)
HistoryInv ==
    /\ commits \in Seq(Nat)
    /\ \A i, j \in 1..Len(commits) : i <= j => commits[i] <= commits[j]
    /\ \A i \in 1..Len(commits) : commits[i] <= lastNow
    /\ Remembers(history, lastNow)

(* A permit that may still be used left room for one more commit. *)
RoomInv ==
    "rate" \in policy /\ Len(commits) >= MaxCommits =>
        \A p \in permits : p.generation = generation =>
            p.checked - commits[Len(commits) - MaxCommits + 1] >= Window

Released(from, to) == \E r \in 0..clock : signal[r] = "release" /\ from <= r /\ r <= to

(* An armed band, and a permit that may still be used, saw a release.      *)
BandInv ==
    "hysteresis" \in policy /\ commits # <<>> =>
        /\ armed => Released(last - MaxAge, lastNow)
        /\ \A p \in permits : p.generation = generation => Released(last - MaxAge, p.checked)

PermitInv == \A p \in permits : p.generation <= generation

IInv ==
    /\ TypeOK /\ HistoryInv /\ PermitInv /\ RoomInv /\ BandInv
    /\ RateKept /\ CooldownKept /\ HysteresisKept

-----------------------------------------------------------------------------
(* The history.                                                            *)

(* The constants are natural numbers, and times are.                       *)
LEMMA Naturals ==
    /\ MaxAge \in Nat /\ Cooldown \in Nat /\ Window \in Nat /\ MaxCommits \in Nat \ {0}
    /\ MaxTime \in Nat /\ Window > 0
BY DurationsArePositive

(* Pruning at a time keeps what is remembered by then.                     *)
LEMMA PruneRemembers ==
    ASSUME HistoryInv, lastNow \in Nat, NEW now \in Nat, NEW kept \in Pruned(now),
           NEW t \in Nat, lastNow <= t, now <= t
    PROVE  Remembers(kept, t)
<1>1. PICK n \in Outdated(now) : kept = SubSeq(history, n + 1, Len(history))
      BY DEF Pruned
<1>2. /\ history \in Seq(Nat) /\ commits \in Seq(Nat)
      /\ Len(history) <= Len(commits) /\ Len(history) <= MaxCommits
      /\ Len(history) \in Nat /\ Len(commits) \in Nat
      BY DEF HistoryInv, Remembers
<1>3. /\ n \in 0..Len(history) /\ \A i \in 1..n : now - history[i] >= Window
      BY DEF Outdated
<1>4. /\ kept \in Seq(Nat) /\ Len(kept) = Len(history) - n
      /\ \A i \in 1..Len(kept) : kept[i] = history[n + i]
  <2>1. n + 1 \in Int /\ Len(history) \in Int /\ n \in Nat BY <1>2, <1>3
  <2>2. \A i \in (n + 1)..Len(history) : history[i] \in Nat BY <1>2, <1>3
  <2>3. /\ kept \in Seq(Nat)
        /\ Len(kept) = IF n + 1 <= Len(history) THEN Len(history) - (n + 1) + 1 ELSE 0
        /\ \A i \in 1..(Len(history) - (n + 1) + 1) : kept[i] = history[(n + 1) + i - 1]
        BY <1>1, <2>1, <2>2, SubSeqProperties
  <2>4. Len(kept) = Len(history) - n BY <1>2, <1>3, <2>3
  <2>5. ASSUME NEW i \in 1..Len(kept) PROVE kept[i] = history[n + i]
    <3>1. i \in 1..(Len(history) - (n + 1) + 1) BY <2>1, <2>4
    <3>2. (n + 1) + i - 1 = n + i BY <2>1
    <3> QED BY <2>3, <3>1, <3>2
  <2> QED BY <2>3, <2>4, <2>5
<1>5. \A i \in 1..Len(kept) : kept[i] = commits[Len(commits) - Len(kept) + i]
  <2>1. SUFFICES ASSUME NEW i \in 1..Len(kept)
                 PROVE  kept[i] = commits[Len(commits) - Len(kept) + i]
        OBVIOUS
  <2>2. n + i \in 1..Len(history) BY <1>2, <1>3, <1>4
  <2>3. history[n + i] = commits[Len(commits) - Len(history) + (n + i)]
        BY <2>2 DEF HistoryInv, Remembers
  <2>4. Len(commits) - Len(history) + (n + i) = Len(commits) - Len(kept) + i
        BY <1>2, <1>3, <1>4
  <2> QED BY <1>4, <2>3, <2>4
<1>6. ASSUME "rate" \in policy, NEW i \in 1..Len(commits), i <= Len(commits) - Len(kept)
      PROVE  t - commits[i] >= Window
  <2>0. commits[i] \in Nat BY <1>2
  <2>1. CASE i <= Len(commits) - Len(history)
    <3>1. lastNow - commits[i] >= Window BY <1>6, <2>1 DEF HistoryInv, Remembers
    <3> QED BY <2>0, <3>1, Naturals
  <2>2. CASE i > Len(commits) - Len(history)
    <3> DEFINE j == i - (Len(commits) - Len(history))
    <3>1. j \in 1..n BY <1>2, <1>3, <1>4, <1>6, <2>2
    <3>2. now - history[j] >= Window BY <1>3, <3>1
    <3>3. j \in 1..Len(history) BY <1>3, <3>1
    <3>4. history[j] = commits[Len(commits) - Len(history) + j]
          BY <3>3 DEF HistoryInv, Remembers
    <3>5. Len(commits) - Len(history) + j = i BY <1>2
    <3> QED BY <2>0, <3>2, <3>4, <3>5, Naturals
  <2> QED BY <1>2, <2>1, <2>2
<1>7. Len(kept) <= Len(commits) /\ Len(kept) <= MaxCommits
      BY <1>2, <1>3, <1>4, Naturals
<1>9. "rate" \notin policy => Len(kept) = 0
      BY <1>2, <1>3, <1>4 DEF HistoryInv, Remembers
<1>8. "rate" \in policy =>
          \A i \in 1..Len(commits) : i <= Len(commits) - Len(kept) => t - commits[i] >= Window
      BY <1>6
<1> QED BY <1>4, <1>5, <1>7, <1>8, <1>9 DEF Remembers

(* What a history remembers, it remembers at every later time.             *)
LEMMA RemembersLater ==
    ASSUME commits \in Seq(Nat), NEW h, NEW s \in Nat, NEW t \in Nat, s <= t, Remembers(h, s)
    PROVE  Remembers(h, t)
<1>1. \A i \in 1..Len(commits) : commits[i] \in Nat
      OBVIOUS
<1> QED BY <1>1, Naturals DEF Remembers

(* Only one number of commits is outdated, so only one history is left.    *)
LEMMA PrunedOnce ==
    ASSUME history \in Seq(Nat), NEW now \in Nat, NEW k \in Pruned(now), NEW l \in Pruned(now)
    PROVE  k = l
<1>1. PICK n \in Outdated(now) : k = SubSeq(history, n + 1, Len(history)) BY DEF Pruned
<1>2. PICK m \in Outdated(now) : l = SubSeq(history, m + 1, Len(history)) BY DEF Pruned
<1>3. \A i \in 1..Len(history) : now - history[i] \in Int
      OBVIOUS
<1>4. ~(n < m)
  <2>1. SUFFICES ASSUME n < m PROVE FALSE
        OBVIOUS
  <2>2. n \in 0..Len(history) /\ m \in 0..Len(history) BY DEF Outdated
  <2>3. n + 1 \in 1..m /\ n < Len(history) BY <2>1, <2>2
  <2>4. now - history[n + 1] >= Window /\ now - history[n + 1] < Window
        BY <2>3 DEF Outdated
  <2>5. now - history[n + 1] \in Int BY <1>3, <2>2, <2>3
  <2> QED BY <2>4, <2>5, Naturals
<1>5. ~(m < n)
  <2>1. SUFFICES ASSUME m < n PROVE FALSE
        OBVIOUS
  <2>2. n \in 0..Len(history) /\ m \in 0..Len(history) BY DEF Outdated
  <2>3. m + 1 \in 1..n /\ m < Len(history) BY <2>1, <2>2
  <2>4. now - history[m + 1] >= Window /\ now - history[m + 1] < Window
        BY <2>3 DEF Outdated
  <2>5. now - history[m + 1] \in Int BY <1>3, <2>2, <2>3
  <2> QED BY <2>4, <2>5, Naturals
<1>6. n \in Nat /\ m \in Nat BY DEF Outdated
<1>7. n = m BY <1>4, <1>5, <1>6
<1> QED BY <1>1, <1>2, <1>7

(* A sequence that agrees with the end of another is a subsequence of it.  *)
LEMMA EndIsSubSeq ==
    ASSUME NEW c \in Seq(Nat), NEW h \in Seq(Nat), Len(h) <= Len(c),
           \A i \in 1..Len(h) : h[i] = c[Len(c) - Len(h) + i]
    PROVE  h = SubSeq(c, Len(c) - Len(h) + 1, Len(c))
<1> DEFINE m == Len(c) - Len(h) + 1
           s == SubSeq(c, m, Len(c))
<1>1. m \in Int /\ Len(c) \in Int /\ m >= 1 /\ \A i \in m..Len(c) : c[i] \in Nat
      OBVIOUS
<1>2. /\ s \in Seq(Nat) /\ Len(s) = IF m <= Len(c) THEN Len(c) - m + 1 ELSE 0
      /\ \A i \in 1..(Len(c) - m + 1) : s[i] = c[m + i - 1]
      BY <1>1, SubSeqProperties
<1>3. Len(s) = Len(h) BY <1>2
<1>4. ASSUME NEW i \in 1..Len(h) PROVE s[i] = h[i]
  <2>1. i \in 1..(Len(c) - m + 1) /\ m + i - 1 = Len(c) - Len(h) + i
        OBVIOUS
  <2> QED BY <1>2, <2>1
<1> HIDE DEF s
<1>5. s = h BY <1>2, <1>3, <1>4, SeqEqual
<1> QED BY <1>5 DEF s

-----------------------------------------------------------------------------
(* The steps that record nothing.                                          *)

(* Of a quiet step only the new permits and a re-armed band matter: the    *)
(* permits must leave room for a commit, and the release must be recent.   *)
LEMMA QuietStep ==
    ASSUME IInv, UNCHANGED <<policy, generation, last, commits>>,
           clock' \in Time, clock <= clock', lastNow' \in 0..clock', lastNow <= lastNow',
           signal' \in [0..clock' -> Level], \A t \in 0..clock : signal'[t] = signal[t],
           armed' \in BOOLEAN, permits' \subseteq Permit,
           Remembers(history', lastNow'),
           "hysteresis" \in policy /\ commits # <<>> /\ armed' /\ ~armed =>
               Released(last - MaxAge, lastNow'),
           \A p \in permits' \ permits :
               /\ p.generation = generation
               /\ "rate" \in policy /\ Len(commits) >= MaxCommits =>
                     p.checked - commits[Len(commits) - MaxCommits + 1] >= Window
               /\ "hysteresis" \in policy /\ commits # <<>> =>
                     Released(last - MaxAge, p.checked)
    PROVE  IInv'
<1>1. commits \in Seq(Nat) /\ clock \in Nat /\ clock' \in Nat /\ lastNow \in Nat /\ lastNow' \in Nat
      BY Naturals DEF IInv, HistoryInv, TypeOK, Time
<1>2. Remembers(history, lastNow)' BY DEF Remembers
<1>3. TypeOK'
  <2>1. history' = SubSeq(commits, Len(commits) - Len(history') + 1, Len(commits))
        BY <1>1, EndIsSubSeq DEF Remembers
  <2>2. Len(history') <= MaxCommits BY DEF Remembers
  <2>3. \A i \in DOMAIN commits : commits[i] \in 0..clock'
    <3>1. \A i \in DOMAIN commits : commits[i] \in 0..clock BY DEF IInv, TypeOK
    <3> QED BY <1>1, <3>1
  <2> QED BY <2>1, <2>2, <2>3 DEF IInv, TypeOK
<1>4. HistoryInv'
  <2>1. \A i \in 1..Len(commits) : commits[i] <= lastNow'
    <3>1. \A i \in 1..Len(commits) : commits[i] \in Nat /\ commits[i] <= lastNow
          BY <1>1 DEF IInv, HistoryInv
    <3> QED BY <1>1, <3>1
  <2> QED BY <1>2, <2>1 DEF IInv, HistoryInv
<1>5. generation \in Nat BY <1>1 DEF IInv, TypeOK
<1>6. PermitInv'
  <2>1. ASSUME NEW p \in permits' PROVE p.generation <= generation
    <3>1. CASE p \in permits BY <3>1 DEF IInv, PermitInv
    <3>2. CASE p \notin permits BY <1>5, <3>2
    <3> QED BY <3>1, <3>2
  <2> QED BY <2>1 DEF PermitInv
<1>7. RoomInv'
  <2>1. SUFFICES ASSUME "rate" \in policy, Len(commits) >= MaxCommits,
                        NEW p \in permits', p.generation = generation
                 PROVE  p.checked - commits[Len(commits) - MaxCommits + 1] >= Window
        BY DEF RoomInv
  <2>2. CASE p \in permits BY <2>1, <2>2 DEF IInv, RoomInv
  <2>3. CASE p \notin permits BY <2>1, <2>3
  <2> QED BY <2>2, <2>3
<1>8. \A from : \A to \in Int, later \in Int : to <= later /\ Released(from, to) =>
          \E r \in 0..clock' : signal'[r] = "release" /\ from <= r /\ r <= later
  <2>1. SUFFICES ASSUME NEW from, NEW to \in Int, NEW later \in Int, to <= later, Released(from, to)
                 PROVE  \E r \in 0..clock' : signal'[r] = "release" /\ from <= r /\ r <= later
        OBVIOUS
  <2>2. PICK r \in 0..clock : signal[r] = "release" /\ from <= r /\ r <= to
        BY <2>1 DEF Released
  <2>3. r \in 0..clock' /\ r <= later /\ signal'[r] = "release" BY <1>1, <2>1, <2>2
  <2> QED BY <2>2, <2>3
<1>9. BandInv'
  <2>1. SUFFICES ASSUME "hysteresis" \in policy, commits # <<>>
                 PROVE  /\ armed' => Released(last - MaxAge, lastNow)'
                        /\ \A p \in permits' : p.generation = generation =>
                              \E r \in 0..clock' : /\ signal'[r] = "release"
                                                   /\ last - MaxAge <= r /\ r <= p.checked
        BY DEF BandInv, Released
  <2>2. ASSUME armed' PROVE Released(last - MaxAge, lastNow)'
    <3>1. armed \in BOOLEAN BY DEF IInv, TypeOK
    <3>2. Released(last - MaxAge, lastNow) \/ Released(last - MaxAge, lastNow')
          BY <2>1, <2>2, <3>1 DEF IInv, BandInv
    <3>3. \E r \in 0..clock' : /\ signal'[r] = "release"
                               /\ last - MaxAge <= r /\ r <= lastNow'
          BY <1>1, <1>8, <3>2
    <3> QED BY <3>3 DEF Released
  <2>3. ASSUME NEW p \in permits', p.generation = generation
        PROVE  \E r \in 0..clock' : /\ signal'[r] = "release"
                                    /\ last - MaxAge <= r /\ r <= p.checked
    <3>1. Released(last - MaxAge, p.checked) BY <2>1, <2>3 DEF IInv, BandInv
    <3>2. p.checked \in Int /\ p.checked <= p.checked BY Naturals DEF Permit, Time
    <3> QED BY <1>8, <3>1, <3>2
  <2> QED BY <2>2, <2>3
<1>10. RateKept' /\ CooldownKept' BY DEF IInv, RateKept, CooldownKept
<1>11. HysteresisKept'
  <2>1. SUFFICES ASSUME "hysteresis" \in policy, NEW i \in 1..(Len(commits) - 1)
                 PROVE  \E r \in 0..clock' : /\ signal'[r] = "release"
                                             /\ commits[i] - MaxAge <= r /\ r <= commits[i + 1]
        BY DEF HysteresisKept, ReleasedFrom
  <2>2. Released(commits[i] - MaxAge, commits[i + 1])
        BY <2>1 DEF IInv, HysteresisKept, ReleasedFrom, Released
  <2>3. i + 1 \in 1..Len(commits) BY <1>1
  <2>4. commits[i + 1] \in Int /\ commits[i + 1] <= commits[i + 1] BY <1>1, <2>3
  <2> QED BY <1>8, <2>2, <2>4
<1> QED BY <1>3, <1>4, <1>6, <1>7, <1>9, <1>10, <1>11 DEF IInv

(* The types that every step needs.                                        *)
LEMMA Typed ==
    ASSUME IInv
    PROVE  /\ commits \in Seq(Nat) /\ history \in Seq(Nat)
           /\ clock \in Nat /\ clock \in Time /\ lastNow \in Nat /\ lastNow <= clock
           /\ 0..clock \subseteq Time /\ generation \in Nat
           /\ signal \in [0..clock -> Level] /\ armed \in BOOLEAN
           /\ permits \subseteq Permit /\ Remembers(history, lastNow)
<1>1. clock \in Nat /\ clock <= MaxTime /\ lastNow \in 0..clock
      BY Naturals DEF IInv, TypeOK, Time
<1>2. 0..clock \subseteq Time BY <1>1, Naturals DEF Time
<1>3. commits \in Seq(Nat) /\ history \in Seq(Nat) /\ Remembers(history, lastNow)
      BY DEF IInv, HistoryInv, Remembers
<1>4. generation = Len(commits) /\ signal \in [0..clock -> Level] /\ armed \in BOOLEAN
      /\ permits \subseteq Permit /\ clock \in Time
      BY DEF IInv, TypeOK
<1> QED BY <1>1, <1>2, <1>3, <1>4

(* Time passes, and a permit is dropped.                                   *)
LEMMA TickKeeps ==
    ASSUME IInv, NEW level \in Level, Tick(level)
    PROVE  IInv'
<1>1. clock' \in Time /\ clock' = clock + 1 BY Typed, Naturals DEF Tick, Time
<1>2. /\ signal' \in [0..clock' -> Level]
      /\ \A t \in 0..clock : signal'[t] = signal[t]
  <2>1. signal' = [t \in 0..clock' |-> IF t = clock' THEN level ELSE signal[t]] BY DEF Tick
  <2>2. \A t \in 0..clock' : t # clock' => t \in 0..clock BY <1>1, Typed
  <2>3. \A t \in 0..clock : t \in 0..clock' /\ t # clock' BY <1>1, Typed
  <2> QED BY <2>1, <2>2, <2>3, Typed
<1>3. /\ UNCHANGED <<policy, armed, generation, last, history, permits, lastNow, commits>>
      BY DEF Tick, gateVars
<1>4. clock <= clock' /\ lastNow' \in 0..clock' /\ lastNow <= lastNow'
      BY <1>1, <1>3, Typed
<1> QED BY <1>1, <1>2, <1>3, <1>4, Typed, QuietStep

LEMMA DropKeeps ==
    ASSUME IInv, NEW p \in permits, DropPermit(p)
    PROVE  IInv'
<1>1. UNCHANGED <<policy, clock, signal, armed, generation, last, history, lastNow, commits>>
      /\ permits' = permits \ {p}
      BY DEF DropPermit, gateVars, worldVars
<1>2. lastNow' \in 0..clock' /\ lastNow <= lastNow' /\ clock <= clock' BY <1>1, Typed
<1> QED BY <1>1, <1>2, Typed, QuietStep

(* A refused commit prunes at most.                                        *)
LEMMA RefuseKeeps ==
    ASSUME IInv, NEW p \in permits, NEW at \in 0..clock, RefuseCommit(p, at)
    PROVE  IInv'
<1>1. /\ UNCHANGED <<policy, clock, signal, armed, generation, last, commits>>
      /\ permits' = permits \ {p} /\ lastNow' = Later(lastNow, at)
      BY DEF RefuseCommit, worldVars
<1>2. /\ lastNow' \in 0..clock' /\ lastNow' \in Nat
      /\ lastNow <= lastNow' /\ at <= lastNow' /\ at \in Nat /\ clock <= clock'
      BY <1>1, Typed DEF Later
<1>3. Remembers(history', lastNow')
  <2>1. CASE history' \in Pruned(at)
        BY <1>2, <2>1, Typed, PruneRemembers DEF IInv
  <2>2. CASE history' = history
        BY <1>2, <2>2, Typed, RemembersLater
  <2> QED BY <2>1, <2>2 DEF RefuseCommit
<1> QED BY <1>1, <1>2, <1>3, Typed, QuietStep

(* A check issues a permit only if the commits that its history still      *)
(* counts are fewer than the limit, and only if an armed band saw a        *)
(* release.                                                                *)
LEMMA CheckKeeps ==
    ASSUME IInv, NEW now \in 0..clock, NEW obs \in (0..clock) \cup {NoEvidence}, Check(now, obs)
    PROVE  IInv'
<1>1. /\ UNCHANGED <<policy, clock, signal, generation, last, commits>>
      /\ lastNow' = now /\ now >= lastNow /\ history' \in Pruned(now)
      /\ armed' = (armed \/ Rearms(obs, now))
      BY DEF Check, worldVars
<1>2. now \in Nat /\ lastNow' \in 0..clock' /\ lastNow <= lastNow' /\ clock <= clock'
      BY <1>1, Typed
<1>3. Remembers(history', lastNow')
      BY <1>1, <1>2, Typed, PruneRemembers DEF IInv
<1>4. armed' \in BOOLEAN
  <2>1. Rearms(obs, now) \in BOOLEAN BY DEF Rearms
  <2> QED BY <1>1, <2>1, Typed
<1>5. commits # <<>> => last \in Nat /\ last <= lastNow
  <2>1. SUFFICES ASSUME commits # <<>> PROVE last \in Nat /\ last <= lastNow
        OBVIOUS
  <2>2. last = commits[Len(commits)] BY <2>1 DEF IInv, TypeOK, Last
  <2>3. Len(commits) \in 1..Len(commits) BY <2>1, Typed, EmptySeq
  <2>4. commits[Len(commits)] \in Nat BY <2>3, Typed
  <2> QED BY <2>2, <2>3, <2>4 DEF IInv, HistoryInv
<1>6. "hysteresis" \in policy /\ commits # <<>> /\ armed' /\ ~armed =>
          Released(last - MaxAge, lastNow')
  <2>1. SUFFICES ASSUME commits # <<>>, Rearms(obs, now) PROVE Released(last - MaxAge, now)
        BY <1>1
  <2>2. obs # NoEvidence /\ obs <= now /\ now - obs <= MaxAge /\ signal[obs] = "release"
        BY <2>1 DEF Rearms, Fresh
  <2>3. obs \in 0..clock BY <2>2
  <2>4. last - MaxAge <= obs BY <1>1, <1>2, <1>5, <2>1, <2>2, <2>3, Typed, Naturals
  <2> QED BY <2>2, <2>3, <2>4 DEF Released
<1>7. ASSUME NEW p \in permits' \ permits
      PROVE  /\ p \in Permit /\ p.generation = generation
             /\ "rate" \in policy /\ Len(commits) >= MaxCommits =>
                   p.checked - commits[Len(commits) - MaxCommits + 1] >= Window
             /\ "hysteresis" \in policy /\ commits # <<>> =>
                   Released(last - MaxAge, p.checked)
  <2>1. /\ HysteresisAdmits(obs, now) /\ RateAdmits(now)
        /\ p = [generation |-> generation, checked |-> now,
                evidence |-> IF "hysteresis" \in policy THEN obs ELSE NoEvidence]
        BY <1>7 DEF Check
  <2>2. p \in Permit /\ p.generation = generation /\ p.checked = now
        BY <2>1, Typed DEF Permit
  <2>3. ASSUME "rate" \in policy, Len(commits) >= MaxCommits
        PROVE  now - commits[Len(commits) - MaxCommits + 1] >= Window
    <3>1. PICK kept \in Pruned(now) : Len(kept) < MaxCommits
          BY <2>1, <2>3 DEF RateAdmits
    <3>2. Remembers(kept, now)
          BY <1>1, <1>2, Typed, PruneRemembers DEF IInv
    <3> DEFINE i == Len(commits) - MaxCommits + 1
    <3>3. Len(kept) \in Nat BY <3>2 DEF Remembers
    <3>4. i \in 1..Len(commits) /\ i <= Len(commits) - Len(kept)
          BY <2>3, <3>1, <3>3, Typed, Naturals
    <3> HIDE DEF i
    <3>5. now - commits[i] >= Window BY <2>3, <3>2, <3>4 DEF Remembers
    <3> QED BY <3>5 DEF i
  <2>4. ASSUME "hysteresis" \in policy, commits # <<>>
        PROVE  Released(last - MaxAge, now)
    <3>1. armed BY <2>1, <2>4 DEF HysteresisAdmits
    <3>2. Released(last - MaxAge, lastNow) BY <2>4, <3>1 DEF IInv, BandInv
    <3>3. PICK r \in 0..clock : signal[r] = "release" /\ last - MaxAge <= r /\ r <= lastNow
          BY <3>2 DEF Released
    <3>4. r <= now BY <1>1, <1>2, <3>3, Typed
    <3> QED BY <3>3, <3>4 DEF Released
  <2> QED BY <2>2, <2>3, <2>4
<1>8. permits' \subseteq Permit BY <1>7, Typed
<1> QED BY <1>1, <1>2, <1>3, <1>4, <1>6, <1>7, <1>8, Typed, QuietStep

-----------------------------------------------------------------------------
(* A recorded commit.                                                      *)

(* Every earlier commit comes before the end of the record.                *)
LEMMA RecordGrows ==
    ASSUME IInv, NEW p \in permits, NEW at \in 0..clock, RecordCommit(p, at)
    PROVE  /\ commits' \in Seq(Nat) /\ Len(commits') = Len(commits) + 1
           /\ \A i \in 1..Len(commits) : commits'[i] = commits[i] /\ commits[i] <= at
           /\ commits'[Len(commits')] = at /\ at \in Nat /\ commits' # <<>>
<1>1. commits' = Append(commits, at) /\ at >= last BY DEF RecordCommit, Presentable
<1>2. at \in Nat /\ commits \in Seq(Nat) BY Typed
<1>3. /\ commits' \in Seq(Nat) /\ Len(commits') = Len(commits) + 1
      /\ \A i \in 1..Len(commits) : commits'[i] = commits[i]
      /\ commits'[Len(commits) + 1] = at /\ commits' # <<>>
      BY <1>1, <1>2, AppendProperties
<1>4. ASSUME NEW i \in 1..Len(commits) PROVE commits[i] <= at
  <2>1. commits # <<>> BY <1>2, <1>4
  <2>2. last = commits[Len(commits)] BY <2>1 DEF IInv, TypeOK, Last
  <2>3. Len(commits) \in 1..Len(commits) /\ i <= Len(commits) BY <1>2, <1>4
  <2>4. commits[i] <= commits[Len(commits)] BY <2>3 DEF IInv, HistoryInv
  <2>5. commits[i] \in Nat /\ commits[Len(commits)] \in Nat BY <1>2, <2>3
  <2> QED BY <1>1, <1>2, <2>2, <2>4, <2>5
<1> QED BY <1>2, <1>3, <1>4

(* The permit left room for this commit.                                   *)
LEMMA RoomForCommit ==
    ASSUME IInv, NEW p \in permits, NEW at \in 0..clock, RecordCommit(p, at),
           "rate" \in policy, Len(commits) >= MaxCommits
    PROVE  at - commits[Len(commits) - MaxCommits + 1] >= Window
<1>1. p.generation = generation /\ at >= p.checked BY DEF RecordCommit, Presentable
<1>2. p.checked - commits[Len(commits) - MaxCommits + 1] >= Window
      BY <1>1 DEF IInv, RoomInv
<1>3. Len(commits) - MaxCommits + 1 \in 1..Len(commits) BY Typed, Naturals
<1>4. commits[Len(commits) - MaxCommits + 1] \in Nat BY <1>3, Typed
<1>5. p.checked \in Nat /\ at \in Nat BY Typed, Naturals DEF Permit, Time
<1> QED BY <1>1, <1>2, <1>4, <1>5, Naturals

(* The history after it still is the end of the record.                    *)
LEMMA CommitRemembered ==
    ASSUME IInv, NEW p \in permits, NEW at \in 0..clock, RecordCommit(p, at)
    PROVE  Remembers(history, lastNow)'
<1>0. /\ commits' \in Seq(Nat) /\ Len(commits') = Len(commits) + 1 /\ Len(commits) \in Nat
      /\ \A i \in 1..Len(commits) : commits'[i] = commits[i]
      /\ commits'[Len(commits')] = at
      BY RecordGrows, Typed
<1>t. /\ at \in Nat /\ lastNow \in Nat /\ history \in Seq(Nat) /\ commits \in Seq(Nat)
      /\ Remembers(history, lastNow) /\ HistoryInv
      BY Typed DEF IInv
<1>1. lastNow' = Later(lastNow, at) /\ policy' = policy BY DEF RecordCommit, worldVars
<1>2. lastNow' \in Nat /\ lastNow <= lastNow' /\ at <= lastNow' BY <1>t, <1>1 DEF Later
<1>3. CASE "rate" \in policy
  <2>1. PICK kept \in Pruned(at) : history' = Append(kept, at)
        BY <1>3 DEF RecordCommit
  <2>2. Remembers(kept, lastNow') BY <1>t, <1>2, <2>1, PruneRemembers
  <2>3. PICK k \in Pruned(at) : Len(k) < MaxCommits
        BY <1>3 DEF RecordCommit, RateAdmits
  <2>4. k = kept BY <1>t, <2>1, <2>3, PrunedOnce
  <2>5. /\ kept \in Seq(Nat) /\ Len(kept) < MaxCommits /\ Len(kept) <= Len(commits)
        /\ Len(kept) \in Nat
        BY <2>2, <2>3, <2>4 DEF Remembers
  <2>6. /\ history' \in Seq(Nat) /\ Len(history') = Len(kept) + 1
        /\ \A i \in 1..Len(kept) : history'[i] = kept[i]
        /\ history'[Len(kept) + 1] = at
        BY <1>t, <2>1, <2>5, AppendProperties
  <2>7. Len(commits') - Len(history') = Len(commits) - Len(kept) BY <1>0, <2>5, <2>6
  <2>8. ASSUME NEW i \in 1..Len(history')
        PROVE  history'[i] = commits'[Len(commits') - Len(history') + i]
    <3>1. CASE i = Len(kept) + 1
      <4>1. Len(commits') - Len(history') + i = Len(commits') BY <1>0, <2>5, <2>6, <3>1
      <4> QED BY <1>0, <2>6, <3>1, <4>1
    <3>2. CASE i # Len(kept) + 1
      <4>1. i \in 1..Len(kept) BY <2>5, <2>6, <3>2
      <4>2. kept[i] = commits[Len(commits) - Len(kept) + i] BY <2>2, <4>1 DEF Remembers
      <4>3. Len(commits) - Len(kept) + i \in 1..Len(commits) BY <1>0, <2>5, <4>1
      <4> QED BY <1>0, <2>6, <2>7, <4>1, <4>2, <4>3
    <3> QED BY <3>1, <3>2
  <2>9. ASSUME NEW i \in 1..Len(commits'), i <= Len(commits') - Len(history')
        PROVE  lastNow' - commits'[i] >= Window
    <3>1. i \in Nat /\ i >= 1 /\ i <= Len(commits) - Len(kept) BY <1>0, <2>7, <2>9
    <3>2. i \in 1..Len(commits) BY <1>0, <2>5, <3>1
    <3>3. lastNow' - commits[i] >= Window BY <1>3, <2>2, <3>1, <3>2 DEF Remembers
    <3> QED BY <1>0, <3>2, <3>3
  <2>10. Len(history') <= MaxCommits /\ Len(history') <= Len(commits')
         BY <1>0, <2>5, <2>6, Naturals
  <2> QED BY <1>1, <1>3, <2>6, <2>8, <2>9, <2>10 DEF Remembers
<1>4. CASE "rate" \notin policy
  <2>1. history' = history /\ Len(history) = 0 BY <1>t, <1>4 DEF RecordCommit, Remembers
  <2>2. Len(history') <= Len(commits') /\ Len(history') <= MaxCommits
        BY <1>0, <2>1, Naturals
  <2> QED BY <1>t, <1>1, <1>4, <2>1, <2>2 DEF Remembers
<1> QED BY <1>3, <1>4

(* The limits hold of the longer record, and no older permit survives.     *)
LEMMA RecordKeeps ==
    ASSUME IInv, NEW p \in permits, NEW at \in 0..clock, RecordCommit(p, at)
    PROVE  IInv'
<1> DEFINE L == Len(commits)
<1>1. /\ UNCHANGED <<policy, clock, signal>> /\ permits' = permits \ {p}
      /\ last' = at /\ generation' = generation + 1 /\ lastNow' = Later(lastNow, at)
      /\ armed' = (armed /\ "hysteresis" \notin policy)
      BY DEF RecordCommit, worldVars
<1>2. /\ commits' \in Seq(Nat) /\ Len(commits') = L + 1 /\ L \in Nat
      /\ \A i \in 1..L : commits'[i] = commits[i] /\ commits[i] <= at /\ commits[i] \in Nat
      /\ commits'[L + 1] = at /\ at \in Nat /\ commits' # <<>>
  <2>1. /\ commits' \in Seq(Nat) /\ Len(commits') = L + 1 /\ commits'[Len(commits')] = at
        /\ \A i \in 1..L : commits'[i] = commits[i] /\ commits[i] <= at
        /\ at \in Nat /\ commits' # <<>>
        BY RecordGrows
  <2>2. commits \in Seq(Nat) BY Typed
  <2> QED BY <2>1, <2>2
<1>3. /\ lastNow' \in 0..clock /\ lastNow <= lastNow' /\ at <= lastNow'
      BY <1>1, <1>2, Typed DEF Later
<1>4. Remembers(history, lastNow)' BY CommitRemembered
<1>r. /\ RateKept => ("rate" \in policy =>
            \A i, j \in 1..L : j - i >= MaxCommits => commits[j] - commits[i] >= Window)
      /\ CooldownKept => ("cooldown" \in policy =>
            \A i, j \in 1..L : i < j => commits[j] - commits[i] >= Cooldown)
  <2>1. DOMAIN commits = 1..L BY Typed
  <2> QED BY <2>1 DEF RateKept, CooldownKept
<1>k. RateKept /\ CooldownKept BY DEF IInv
<1> HIDE DEF L
<1>5. TypeOK'
  <2>1. history' = SubSeq(commits', Len(commits') - Len(history') + 1, Len(commits'))
    <3>1. /\ history' \in Seq(Nat) /\ Len(history') <= Len(commits')
          /\ \A i \in 1..Len(history') :
                history'[i] = commits'[Len(commits') - Len(history') + i]
          BY <1>4 DEF Remembers
    <3> QED BY <1>2, <3>1, EndIsSubSeq
  <2>2. Len(history') <= MaxCommits BY <1>4 DEF Remembers
  <2>3. \A i \in DOMAIN commits' : commits'[i] \in 0..clock
    <3>1. SUFFICES ASSUME NEW i \in DOMAIN commits' PROVE commits'[i] \in 0..clock
          OBVIOUS
    <3>2. i \in 1..L \/ i = L + 1 BY <1>2
    <3>3. CASE i \in 1..L BY <1>2, <3>3 DEF IInv, TypeOK, L
    <3>4. CASE i = L + 1 BY <1>2, <3>4
    <3> QED BY <3>2, <3>3, <3>4
  <2>4. generation' = Len(commits') BY <1>1, <1>2 DEF IInv, TypeOK, L
  <2>5. last' = IF commits' = <<>> THEN NoCommit ELSE Last(commits')
        BY <1>1, <1>2 DEF Last
  <2>6. armed' \in BOOLEAN BY <1>1, Typed
  <2>7. permits' \subseteq Permit /\ clock' \in Time /\ lastNow' \in 0..clock'
        /\ policy' \in SUBSET Rule /\ signal' \in [0..clock' -> Level]
        BY <1>1, <1>3, Typed DEF IInv, TypeOK
  <2> QED BY <1>1, <2>1, <2>2, <2>3, <2>4, <2>5, <2>6, <2>7 DEF TypeOK
<1>6. \A i, j \in 1..(L + 1) : i <= j => commits'[i] <= commits'[j]
  <2>1. SUFFICES ASSUME NEW i \in 1..(L + 1), NEW j \in 1..(L + 1), i <= j
                 PROVE  commits'[i] <= commits'[j]
        OBVIOUS
  <2>2. CASE j = L + 1
    <3>1. CASE i = L + 1 BY <1>2, <2>2, <3>1
    <3>2. CASE i # L + 1
      <4>1. i \in 1..L BY <1>2, <3>2
      <4> QED BY <1>2, <2>2, <4>1
    <3> QED BY <3>1, <3>2
  <2>3. CASE j # L + 1
    <3>1. i \in 1..L /\ j \in 1..L BY <1>2, <2>1, <2>3
    <3>2. commits[i] <= commits[j] BY <2>1, <3>1 DEF IInv, HistoryInv, L
    <3> QED BY <1>2, <3>1, <3>2
  <2> QED BY <2>2, <2>3
<1>7. HistoryInv'
  <2>1. \A i \in 1..(L + 1) : commits'[i] <= at
        BY <1>2, <1>6
  <2>2. \A i \in 1..(L + 1) : commits'[i] \in Nat BY <1>2
  <2>3. \A i \in 1..(L + 1) : commits'[i] <= lastNow' BY <1>2, <1>3, <2>1, <2>2
  <2> QED BY <1>2, <1>4, <1>6, <2>3 DEF HistoryInv
<1>8. \A q \in permits' : q.generation <= generation /\ q.generation # generation'
  <2>1. SUFFICES ASSUME NEW q \in permits
                 PROVE  q.generation <= generation /\ q.generation # generation'
        BY <1>1
  <2>2. q.generation <= generation BY DEF IInv, PermitInv
  <2>3. q.generation \in Nat /\ generation \in Nat BY Typed DEF Permit
  <2> QED BY <1>1, <2>2, <2>3
<1>9. PermitInv'
  <2>1. ASSUME NEW q \in permits' PROVE q.generation <= generation'
    <3>1. q.generation <= generation BY <1>8
    <3>2. q.generation \in Nat /\ generation \in Nat BY <1>1, Typed DEF Permit
    <3> QED BY <1>1, <3>1, <3>2
  <2> QED BY <2>1 DEF PermitInv
<1>10. RoomInv' /\ BandInv' BY <1>1, <1>8 DEF RoomInv, BandInv
<1>11. RateKept'
  <2>1. SUFFICES ASSUME "rate" \in policy, NEW i \in 1..(L + 1), NEW j \in 1..(L + 1),
                        j - i >= MaxCommits
                 PROVE  commits'[j] - commits'[i] >= Window
        BY <1>1, <1>2 DEF RateKept
  <2>2. CASE j = L + 1
    <3>1. i \in 1..L /\ i <= L - MaxCommits + 1 /\ L >= MaxCommits
          /\ L - MaxCommits + 1 \in 1..L
          BY <1>2, <2>1, <2>2, Naturals
    <3>2. at - commits[L - MaxCommits + 1] >= Window BY <2>1, <3>1, RoomForCommit DEF L
    <3>3. commits[i] <= commits[L - MaxCommits + 1] BY <3>1 DEF IInv, HistoryInv, L
    <3>4. commits[i] \in Nat /\ commits[L - MaxCommits + 1] \in Nat BY <1>2, <3>1
    <3>5. at - commits[i] >= Window BY <1>2, <3>2, <3>3, <3>4, Naturals
    <3> QED BY <1>2, <2>2, <3>1, <3>5
  <2>3. CASE j # L + 1
    <3>1. i \in 1..L /\ j \in 1..L BY <1>2, <2>1, <2>3, Naturals
    <3>2. commits[j] - commits[i] >= Window BY <1>r, <1>k, <2>1, <3>1
    <3> QED BY <1>2, <3>1, <3>2
  <2> QED BY <2>2, <2>3
<1>12. CooldownKept'
  <2>1. SUFFICES ASSUME "cooldown" \in policy, NEW i \in 1..(L + 1), NEW j \in 1..(L + 1), i < j
                 PROVE  commits'[j] - commits'[i] >= Cooldown
        BY <1>1, <1>2 DEF CooldownKept
  <2>2. CASE j = L + 1
    <3>1. i \in 1..L /\ i <= L /\ L \in 1..L BY <1>2, <2>1, <2>2
    <3>2. last = commits[L] /\ commits # <<>>
          BY <1>2, <3>1 DEF IInv, TypeOK, Last, L
    <3>3. commits[L] \in Nat /\ commits[i] \in Nat /\ commits[i] <= commits[L]
          BY <1>2, <3>1 DEF IInv, HistoryInv, L
    <3>4. last # NoCommit BY <3>2, <3>3 DEF NoCommit
    <3>5. at - last >= Cooldown BY <2>1, <3>4 DEF RecordCommit, CooldownAdmits
    <3>6. at - commits[i] >= Cooldown BY <1>2, <3>2, <3>3, <3>5, Naturals
    <3> QED BY <1>2, <2>2, <3>1, <3>6
  <2>3. CASE j # L + 1
    <3>1. i \in 1..L /\ j \in 1..L BY <1>2, <2>1, <2>3
    <3>2. commits[j] - commits[i] >= Cooldown BY <1>r, <1>k, <2>1, <3>1
    <3> QED BY <1>2, <3>1, <3>2
  <2> QED BY <2>2, <2>3
<1>13. HysteresisKept'
  <2>1. SUFFICES ASSUME "hysteresis" \in policy, NEW i \in 1..L
                 PROVE  \E r \in 0..clock : /\ signal[r] = "release"
                                            /\ commits'[i] - MaxAge <= r /\ r <= commits'[i + 1]
    <3>1. 1..(Len(commits') - 1) = 1..L BY <1>2
    <3> QED BY <1>1, <3>1 DEF HysteresisKept, ReleasedFrom
  <2>2. CASE i = L
    <3>1. /\ commits # <<>> /\ last = commits[L] /\ L \in 1..L
          BY <1>2, <2>2 DEF IInv, TypeOK, Last, L
    <3>2. p.generation = generation /\ at >= p.checked BY DEF RecordCommit, Presentable
    <3>3. PICK r \in 0..clock :
              signal[r] = "release" /\ last - MaxAge <= r /\ r <= p.checked
          BY <2>1, <3>1, <3>2 DEF IInv, BandInv, Released
    <3>4. p.checked \in Nat /\ r \in Nat BY Typed, Naturals DEF Permit, Time
    <3>5. r <= at BY <1>2, <3>2, <3>3, <3>4
    <3> QED BY <1>2, <2>2, <3>1, <3>3, <3>5
  <2>3. CASE i # L
    <3>1. i \in 1..(L - 1) /\ i + 1 \in 1..L BY <1>2, <2>3
    <3>2. \E r \in 0..clock : /\ signal[r] = "release"
                              /\ commits[i] - MaxAge <= r /\ r <= commits[i + 1]
          BY <2>1, <3>1 DEF IInv, HysteresisKept, ReleasedFrom, L
    <3> QED BY <1>2, <3>1, <3>2
  <2> QED BY <2>2, <2>3
<1> QED BY <1>5, <1>7, <1>9, <1>10, <1>11, <1>12, <1>13 DEF IInv

-----------------------------------------------------------------------------
(* The invariant, and the limits.                                          *)

(* A new gate has recorded nothing.                                        *)
LEMMA InitialInvariant == Init => IInv
<1> SUFFICES ASSUME Init PROVE IInv
    OBVIOUS
<1>1. commits = <<>> /\ history = <<>> /\ permits = {} /\ last = NoCommit /\ generation = 0
      /\ clock = 0 /\ lastNow = 0 /\ armed = TRUE
      BY DEF Init
<1>2. Len(commits) = 0 /\ Len(history) = 0 /\ commits \in Seq(Nat) /\ history \in Seq(Nat)
      BY <1>1
<1>3. Remembers(history, lastNow) BY <1>2, Naturals DEF Remembers
<1>4. TypeOK
  <2>1. history = SubSeq(commits, Len(commits) - Len(history) + 1, Len(commits))
        BY <1>2, <1>3, EndIsSubSeq DEF Remembers
  <2>2. 0 \in Time /\ 0 \in 0..clock BY <1>1, Naturals DEF Time
  <2>3. 0..clock = {0} BY <1>1
  <2>4. signal \in [0..clock -> Level] BY <2>3 DEF Init
  <2>5. DOMAIN commits = {} BY <1>1
  <2> QED BY <1>1, <1>2, <1>3, <2>1, <2>2, <2>4, <2>5 DEF TypeOK, Init, Remembers
<1>5. HistoryInv /\ PermitInv /\ RoomInv /\ BandInv
      BY <1>1, <1>2, <1>3 DEF HistoryInv, PermitInv, RoomInv, BandInv
<1>6. RateKept /\ CooldownKept /\ HysteresisKept
      BY <1>1, <1>2 DEF RateKept, CooldownKept, HysteresisKept
<1> QED BY <1>4, <1>5, <1>6 DEF IInv

(* Every step of the gate, its owner and the clock keeps it.               *)
LEMMA InvariantKept == IInv /\ [Next]_vars => IInv'
<1> SUFFICES ASSUME IInv, [Next]_vars PROVE IInv'
    OBVIOUS
<1>1. CASE Next
  <2>1. CASE \E level \in Level : Tick(level) BY <2>1, TickKeeps
  <2>2. CASE \E now \in 0..clock, obs \in (0..clock) \cup {NoEvidence} : Check(now, obs)
        BY <2>2, CheckKeeps
  <2>3. CASE \E p \in permits, at \in 0..clock : RecordCommit(p, at)
        BY <2>3, RecordKeeps
  <2>4. CASE \E p \in permits, at \in 0..clock : RefuseCommit(p, at)
        BY <2>4, RefuseKeeps
  <2>5. CASE \E p \in permits : DropPermit(p) BY <2>5, DropKeeps
  <2> QED BY <1>1, <2>1, <2>2, <2>3, <2>4, <2>5 DEF Next
<1>2. CASE UNCHANGED vars
  <2>1. UNCHANGED <<policy, clock, signal, armed, generation, last, history,
                    permits, lastNow, commits>>
        BY <1>2 DEF vars, gateVars, worldVars
  <2>2. lastNow' \in 0..clock' /\ lastNow <= lastNow' /\ clock <= clock' BY <2>1, Typed
  <2> QED BY <2>1, <2>2, Typed, QuietStep
<1> QED BY <1>1, <1>2

(* The invariant holds in every state of every execution.                  *)
THEOREM Invariant == Spec => []IInv
BY InitialInvariant, InvariantKept, PTL DEF Spec

(* The types; the retained history is the end of the record, and never     *)
(* outgrows the limit.                                                     *)
THEOREM TypeCorrect == Spec => []TypeOK
<1>1. IInv => TypeOK BY DEF IInv
<1> QED BY <1>1, Invariant, PTL

(* No rolling window holds more than MaxCommits commits, although pruning  *)
(* for a later check may have forgotten some that an earlier commit would  *)
(* have to count.                                                          *)
THEOREM RateIsKept == Spec => []RateKept
<1>1. IInv => RateKept BY DEF IInv
<1> QED BY <1>1, Invariant, PTL

(* Any two commits are a cooldown apart.                                   *)
THEOREM CooldownIsKept == Spec => []CooldownKept
<1>1. IInv => CooldownKept BY DEF IInv
<1> QED BY <1>1, Invariant, PTL

(* Between two commits the signal was on the release side of the band, no  *)
(* earlier than MaxAge before the first of them.                           *)
THEOREM HysteresisIsKept == Spec => []HysteresisKept
<1>1. IInv => HysteresisKept BY DEF IInv
<1> QED BY <1>1, Invariant, PTL

-----------------------------------------------------------------------------
(* Observers.  Values come from the context and ages from the observations *)
(* of a snapshot, so what makes a fact true of the host is that both were  *)
(* decided by the same reading (Accounted): of the first observation of a  *)
(* signal the context has the value, and its provider has read every file  *)
(* since it was asked, at the time the observation is stamped with.  An    *)
(* earlier provider of the signal that had no value of it would break this *)
(* but for the observation it leaves, which is first and is not valid.     *)

(* The first observation of its signal. *)
Leads(os, i) == \A j \in 1 .. i - 1 : os[j].signal # os[i].signal
Tells(os, s) == \E i \in DOMAIN os : os[i].signal = s

(* What a provider reports, known or not. *)
Signals(p) ==
    CASE p[1] = "thermal" -> {"margin"}
      [] p[1] = "power" -> {"power"}
      [] p[1] = "cpu" -> {"cpus", "quota", "unlimited", "some", "full"}
      [] p[1] = "memory" -> {"total", "available", "used", "utilization"}
      [] p[1] = "timing" -> {"uptime"}

LimitedOrNot(context) ==
    "quota" \in DOMAIN context <=> "unlimited" \in DOMAIN context /\ context["unlimited"] = 0

(* What decides a signal has its value in the context, and was read no     *)
(* earlier than it says.                                                   *)
Decides(o, context, took) ==
    /\ o.valid => o.signal \in DOMAIN context /\ context[o.signal] = o.value
    /\ o.at \in Nat /\ o.source \in DOMAIN took
    /\ \A r \in DOMAIN took[o.source] : took[o.source][r] \in Nat /\ o.at <= took[o.source][r]
Accounted(context, os, took) ==
    /\ os \in Seq(Range(os))
    /\ \A i \in DOMAIN os : Leads(os, i) => Decides(os[i], context, took)
    /\ \A s \in DOMAIN context : Tells(os, s)
    /\ \A p \in DOMAIN took : \A s \in Signals(p) : Tells(os, s)
    /\ LimitedOrNot(context)

HostInv ==
    /\ moment \in Nat
    /\ \A f \in DOMAIN host : f[1] = "max" => host[f] \in QuotaText
ObservingInv ==
    observing # None =>
        /\ observing = [set |-> observing.set, done |-> observing.done, stamp |-> observing.stamp,
                        got |-> observing.got, at |-> observing.at,
                        context |-> observing.context, observations |-> observing.observations,
                        took |-> observing.took]
        /\ observing.set \in ObserverSets /\ observing.done \in 0 .. Len(observing.set)
        /\ observing.stamp \in Nat /\ observing.stamp <= moment
        /\ \A r \in DOMAIN observing.at :
              observing.at[r] \in Nat /\ observing.stamp <= observing.at[r]
        /\ \A r \in DOMAIN observing.got : r[1] = "max" => observing.got[r] \in QuotaText
        /\ Accounted(observing.context, observing.observations, observing.took)
        /\ "unlimited" \in DOMAIN observing.context =>
              \E i \in 1 .. observing.done : observing.set[i][1] = "cpu"
SnapshotInv ==
    snapshot # None => Accounted(snapshot.context, snapshot.observations, snapshot.took)
ObserversInv == HostInv /\ ObservingInv /\ SnapshotInv

-----------------------------------------------------------------------------
(* The least of a set of numbers is in it and no other is less. *)
LEMMA LeastPlace ==
    ASSUME NEW T \in SUBSET Nat, T # {}
    PROVE  Min(T) \in T /\ \A j \in T : Min(T) <= j
<1>1. PICK i \in T : \A j \in T : ~ (<<j, i>> \in OpToRel(<, Nat))
      BY NatLessThanWellFounded, WFMin
<1>2. ASSUME NEW j \in T PROVE i <= j
  <2>1. i \in Nat /\ j \in Nat OBVIOUS
  <2>2. ~ (j < i) BY <1>1, <2>1 DEF OpToRel
  <2> QED BY <2>1, <2>2
<1> QED BY <1>1, <1>2 DEF Min

(* What a snapshot answers for a signal is the first observation of it. *)
LEMMA FirstLeads ==
    ASSUME NEW S, NEW os \in Seq(S), NEW s, FirstReported(os, s) # None
    PROVE  \E i \in DOMAIN os :
              FirstReported(os, s) = os[i] /\ os[i].signal = s /\ Leads(os, i)
<1> DEFINE found == {i \in DOMAIN os : os[i].signal = s}
           i == Min(found)
<1>1. found # {} /\ FirstReported(os, s) = os[i] BY DEF FirstReported
<1>2. found \in SUBSET Nat BY DEF found
<1>3. i \in found /\ \A j \in found : i <= j BY <1>1, <1>2, LeastPlace
<1>4. ASSUME NEW j \in 1 .. i - 1, os[j].signal = os[i].signal PROVE FALSE
  <2>1. i \in DOMAIN os /\ i \in 1 .. Len(os) BY <1>3
  <2>2. j \in found BY <1>3, <1>4, <2>1
  <2>3. i \in Nat /\ i <= j BY <1>2, <1>3, <2>2
  <2> HIDE DEF i
  <2> QED BY <1>4, <2>3
<1> QED BY <1>1, <1>3, <1>4 DEF Leads

(* What decides a fact decides it with the value of the context and the    *)
(* age of the reading, so the invariant of the snapshot is enough.         *)
LEMMA FactsFollow ==
    ASSUME HostInv, SnapshotInv
    PROVE  FactsAreOfTheHost
<1>1. SUFFICES ASSUME snapshot # None PROVE FactsAreOfTheHost BY DEF FactsAreOfTheHost
<1> DEFINE os == snapshot.observations
           context == snapshot.context
           took == snapshot.took
<1>2. Accounted(context, os, took) BY <1>1 DEF SnapshotInv
<1>3. LimitedOrNot(context) BY <1>2 DEF Accounted
<1>4. ASSUME NEW ev \in Evaluators, ev.kind = "threshold",
             PredicateValue(ev, context, Observed(ev), moment) # "U"
      PROVE  LET o == Observed(ev)[ev.signal]
             IN /\ PredicateValue(ev, context, Observed(ev), moment)
                     = ToTruth(Compared(ev.comparison, o.value, ev.threshold))
                /\ \A r \in DOMAIN took[o.source] : moment - took[o.source][r] <= ev.maxAge
  <2> DEFINE o == Observed(ev)[ev.signal]
  <2>1. o = FirstReported(os, ev.signal) BY DEF Observed
  <2>2. /\ PredicateValue(ev, context, Observed(ev), moment)
             = Threshold(ev, context, Observed(ev), moment)
        BY <1>4 DEF PredicateValue
  <2>3. /\ Aged(o, moment) /\ ev.signal \in DOMAIN context
        /\ ~ (moment - o.at > ev.maxAge)
        /\ Threshold(ev, context, Observed(ev), moment)
             = ToTruth(Compared(ev.comparison, context[ev.signal], ev.threshold))
        BY <1>4, <2>2 DEF Threshold
  <2>4. FirstReported(os, ev.signal) # None /\ o.valid BY <2>1, <2>3 DEF Aged
  <2>5. PICK i \in DOMAIN os : o = os[i] /\ os[i].signal = ev.signal /\ Leads(os, i)
        BY <1>2, <2>1, <2>4, FirstLeads DEF Accounted
  <2>6. Decides(o, context, took) BY <1>2, <2>5 DEF Accounted
  <2>7. context[ev.signal] = o.value BY <2>4, <2>5, <2>6 DEF Decides
  <2>8. ASSUME NEW r \in DOMAIN took[o.source]
        PROVE  moment - took[o.source][r] <= ev.maxAge
    <3>1. took[o.source][r] \in Nat /\ o.at \in Nat /\ o.at <= took[o.source][r]
          BY <2>6 DEF Decides
    <3>2. moment \in Nat /\ ev.maxAge \in Nat BY ObserversAssumption DEF HostInv
    <3> QED BY <2>3, <3>1, <3>2
  <2> QED BY <2>2, <2>3, <2>7, <2>8
<1> QED BY <1>3, <1>4 DEF FactsAreOfTheHost, LimitedOrNot

-----------------------------------------------------------------------------
(* What a provider reports is a sequence with one reading of each of its signals. *)
OneOfEach(rs, signals) ==
    /\ \E n \in Nat : DOMAIN rs = 1 .. n
    /\ \A i, j \in DOMAIN rs : rs[i].signal = rs[j].signal => i = j
    /\ \A i \in DOMAIN rs : rs[i].signal \in signals
    /\ \A s \in signals : Tells(rs, s)

LEMMA OneReading ==
    ASSUME NEW s, NEW v
    PROVE  OneOfEach(<<Reading(s, v)>>, {s})
<1> DEFINE rs == <<Reading(s, v)>>
<1>1. DOMAIN rs = 1 .. 1 /\ rs[1].signal = s BY DEF Reading
<1> QED BY <1>1 DEF OneOfEach, Tells

LEMMA FourReadings ==
    ASSUME NEW t, NEW a, NEW u, NEW w
    PROVE  OneOfEach(<<Reading("total", t), Reading("available", a), Reading("used", u),
                       Reading("utilization", w)>>, {"total", "available", "used", "utilization"})
<1> DEFINE rs == <<Reading("total", t), Reading("available", a), Reading("used", u),
                   Reading("utilization", w)>>
<1>1. /\ DOMAIN rs = 1 .. 4
      /\ rs[1].signal = "total" /\ rs[2].signal = "available"
      /\ rs[3].signal = "used" /\ rs[4].signal = "utilization"
      BY DEF Reading
<1> HIDE DEF rs
<1>2. DOMAIN rs = {1, 2, 3, 4} BY <1>1
<1>3. \A i, j \in DOMAIN rs : rs[i].signal = rs[j].signal => i = j BY <1>1, <1>2
<1>4. \A i \in DOMAIN rs : rs[i].signal \in {"total", "available", "used", "utilization"}
      BY <1>1, <1>2
<1>5. \A s \in {"total", "available", "used", "utilization"} : Tells(rs, s)
      BY <1>1, <1>2 DEF Tells
<1> QED BY <1>1, <1>3, <1>4, <1>5 DEF OneOfEach, rs

LEMMA FiveReadings ==
    ASSUME NEW c, NEW q, NEW u, NEW h, NEW f
    PROVE  OneOfEach(<<Reading("cpus", c), Reading("quota", q), Reading("unlimited", u),
                       Reading("some", h), Reading("full", f)>>,
                     {"cpus", "quota", "unlimited", "some", "full"})
<1> DEFINE rs == <<Reading("cpus", c), Reading("quota", q), Reading("unlimited", u),
                   Reading("some", h), Reading("full", f)>>
<1>1. /\ DOMAIN rs = 1 .. 5
      /\ rs[1].signal = "cpus" /\ rs[2].signal = "quota" /\ rs[3].signal = "unlimited"
      /\ rs[4].signal = "some" /\ rs[5].signal = "full"
      BY DEF Reading
<1> HIDE DEF rs
<1>2. DOMAIN rs = {1, 2, 3, 4, 5} BY <1>1
<1>3. \A i, j \in DOMAIN rs : rs[i].signal = rs[j].signal => i = j BY <1>1, <1>2
<1>4. \A i \in DOMAIN rs : rs[i].signal \in {"cpus", "quota", "unlimited", "some", "full"}
      BY <1>1, <1>2
<1>5. \A s \in {"cpus", "quota", "unlimited", "some", "full"} : Tells(rs, s)
      BY <1>1, <1>2 DEF Tells
<1> QED BY <1>1, <1>3, <1>4, <1>5 DEF OneOfEach, rs

(* A provider reports each of its signals once, and no other. *)
LEMMA ReadingsOfEach ==
    ASSUME NEW p, p[1] \in Kind, NEW got, NEW now
    PROVE  OneOfEach(Readings(p, got, now), Signals(p))
<1>1. CASE p[1] = "thermal" BY <1>1, OneReading DEF Readings, Signals
<1>2. CASE p[1] = "power" BY <1>2, OneReading DEF Readings, Signals
<1>3. CASE p[1] = "cpu"
  <2>1. OneOfEach(CpuReadings(got), {"cpus", "quota", "unlimited", "some", "full"})
        BY FiveReadings DEF CpuReadings
  <2> QED BY <1>3, <2>1 DEF Readings, Signals
<1>4. CASE p[1] = "memory"
  <2>1. OneOfEach(MemoryReadings(got[<<"meminfo">>]),
                  {"total", "available", "used", "utilization"})
        BY FourReadings DEF MemoryReadings
  <2> QED BY <1>4, <2>1 DEF Readings, Signals
<1>5. CASE p[1] = "timing" BY <1>5, OneReading DEF Readings, Signals
<1> QED BY <1>1, <1>2, <1>3, <1>4, <1>5 DEF Kind

(* So does its report, which names it and the time it was asked. *)
LEMMA ReportOfEach ==
    ASSUME NEW p, p[1] \in Kind, NEW got, NEW stamp, NEW now
    PROVE  LET report == Reported(p, got, stamp, now)
           IN /\ OneOfEach(report, Signals(p))
              /\ report \in Seq(Range(report))
              /\ \A i \in DOMAIN report : report[i].source = p /\ report[i].at = stamp
<1> DEFINE readings == Readings(p, got, stamp)
           report == Reported(p, got, stamp, now)
<1>1. OneOfEach(readings, Signals(p)) BY ReadingsOfEach
<1>2. /\ report = [i \in DOMAIN readings |-> Told(readings[i], p, stamp)]
      /\ \A i \in DOMAIN report : /\ report[i].signal = readings[i].signal
                                 /\ report[i].source = p /\ report[i].at = stamp
      BY DEF Reported, Told
<1> HIDE DEF readings
<1>3. DOMAIN report = DOMAIN readings BY <1>2
<1> HIDE DEF report
<1>4. OneOfEach(report, Signals(p)) BY <1>1, <1>2, <1>3 DEF OneOfEach, Tells
<1>5. report \in Seq(Range(report))
  <2>1. PICK n \in Nat : DOMAIN report = 1 .. n BY <1>4 DEF OneOfEach
  <2>2. report = [i \in 1 .. n |-> report[i]] BY <1>2, <1>3, <2>1
  <2>3. \A i \in 1 .. n : report[i] \in Range(report) BY <2>1 DEF Range
  <2> QED BY <2>1, <2>2, <2>3
<1> QED BY <1>2, <1>4, <1>5 DEF report

(* The context of a report has the value of each signal that is known. *)
LEMMA ContextOfReport ==
    ASSUME NEW report, NEW signals, OneOfEach(report, signals)
    PROVE  /\ \A i \in DOMAIN report : report[i].valid =>
                 /\ report[i].signal \in DOMAIN ContextOf(report)
                 /\ ContextOf(report)[report[i].signal] = report[i].value
           /\ \A s \in DOMAIN ContextOf(report) :
                 \E i \in DOMAIN report : report[i].valid /\ report[i].signal = s
<1> DEFINE valid == {o \in Range(report) : o.valid}
<1>1. ASSUME NEW i \in DOMAIN report, report[i].valid
      PROVE  /\ report[i].signal \in DOMAIN ContextOf(report)
             /\ ContextOf(report)[report[i].signal] = report[i].value
  <2> DEFINE s == report[i].signal
             o == CHOOSE x \in valid : x.signal = s
  <2>1. report[i] \in valid BY <1>1 DEF Range
  <2>2. o \in valid /\ o.signal = s BY <2>1
  <2>3. PICK j \in DOMAIN report : o = report[j] BY <2>2 DEF Range
  <2>4. i = j BY <2>2, <2>3 DEF OneOfEach
  <2>5. s \in DOMAIN ContextOf(report) /\ ContextOf(report)[s] = o.value
        BY <2>1 DEF ContextOf
  <2> QED BY <2>3, <2>4, <2>5
<1>2. ASSUME NEW s \in DOMAIN ContextOf(report)
      PROVE  \E i \in DOMAIN report : report[i].valid /\ report[i].signal = s
  <2>1. PICK x \in valid : x.signal = s BY DEF ContextOf
  <2> QED BY <2>1 DEF Range
<1> QED BY <1>1, <1>2

(* The CPU environment answers when it has read its quota, if it has a group. *)
LEMMA QuotaIsRead ==
    ASSUME NEW got, CpuReads(got) = {},
           \A r \in DOMAIN got : r[1] = "max" => got[r] \in QuotaText
    PROVE  Quota(got) \in {None} \cup [quota : Int, period : Nat \ {0}]
<1>1. CASE Group(1, got) = None BY <1>1 DEF Quota
<1>2. CASE Group(1, got) # None
  <2> DEFINE file == <<"max", Group(1, got)>>
             reads == <<file, <<"cgroup", 2>>>>
  <2>1. InTurn(reads, got) = {} BY <1>2 DEF CpuReads
  <2>2. file \in DOMAIN got
    <3>1. SUFFICES ASSUME file \notin DOMAIN got PROVE FALSE OBVIOUS
    <3> DEFINE left == {i \in DOMAIN reads : reads[i] \notin DOMAIN got}
    <3>2. DOMAIN reads = {1, 2} /\ reads[1] = file OBVIOUS
    <3> HIDE DEF reads
    <3>3. 1 \in left /\ \A j \in left : 1 <= j BY <3>1, <3>2
    <3>4. reads[1] \in InTurn(reads, got) BY <3>3 DEF InTurn
    <3> QED BY <2>1, <3>4
  <2>3. file[1] = "max" OBVIOUS
  <2>4. got[file] \in QuotaText BY <2>2, <2>3
  <2> QED BY <1>2, <2>4 DEF Quota, QuotaText
<1> QED BY <1>1, <1>2

(* A reading is told with its signal and its value, valid if it is known. *)
LEMMA ToldReading ==
    ASSUME NEW s, NEW v, NEW p, NEW t
    PROVE  LET o == Told(Reading(s, v), p, t)
           IN o.signal = s /\ o.value = v /\ (o.valid <=> v # None)
BY DEF Told, Reading

(* In one report a quota is known just when the flag says it is not        *)
(* unlimited.                                                              *)
LEMMA ReportIsLimitedOrNot ==
    ASSUME NEW p, p[1] \in Kind, NEW got, NextReads(p, got) = {}, NEW stamp, NEW now,
           \A r \in DOMAIN got : r[1] = "max" => got[r] \in QuotaText
    PROVE  LimitedOrNot(ContextOf(Reported(p, got, stamp, now)))
<1> DEFINE report == Reported(p, got, stamp, now)
           context == ContextOf(report)
<1>1. OneOfEach(report, Signals(p)) BY ReportOfEach
<1>2. CASE p[1] # "cpu"
  <2>1. "quota" \notin Signals(p) /\ "unlimited" \notin Signals(p)
        BY <1>2 DEF Signals, Kind
  <2>2. "quota" \notin DOMAIN context /\ "unlimited" \notin DOMAIN context
        BY <1>1, <2>1, ContextOfReport DEF OneOfEach
  <2> QED BY <2>2 DEF LimitedOrNot
<1>3. CASE p[1] = "cpu"
  <2> DEFINE readings == CpuReadings(got)
             quota == Quota(got)
             unlimited == quota # None /\ quota.quota = NoQuota
             limit == IF quota = None \/ unlimited THEN None
                      ELSE (quota.quota * Unity) \div quota.period
             flag == IF quota = None THEN None ELSE IF unlimited THEN 1 ELSE 0
  <2>1. quota \in {None} \cup [quota : Int, period : Nat \ {0}]
        BY <1>3, QuotaIsRead DEF NextReads
  <2>2. /\ DOMAIN readings = {1, 2, 3, 4, 5}
        /\ readings[2] = Reading("quota", limit) /\ readings[3] = Reading("unlimited", flag)
        BY DEF CpuReadings
  <2>3. report = [i \in DOMAIN readings |-> Told(readings[i], p, stamp)]
        BY <1>3 DEF Reported, Readings
  <2> HIDE DEF readings, report, limit, flag, quota
  <2>4. /\ DOMAIN report = {1, 2, 3, 4, 5}
        /\ report[2].signal = "quota" /\ (report[2].valid <=> limit # None)
        /\ report[3].signal = "unlimited" /\ (report[3].valid <=> flag # None)
        /\ report[3].value = flag
    <3>1. /\ DOMAIN report = {1, 2, 3, 4, 5}
          /\ report[2] = Told(Reading("quota", limit), p, stamp)
          /\ report[3] = Told(Reading("unlimited", flag), p, stamp)
          BY <2>2, <2>3
    <3> QED BY <3>1, ToldReading
  <2>5. \A i \in DOMAIN report :
           /\ report[i].signal = "quota" => i = 2
           /\ report[i].signal = "unlimited" => i = 3
        BY <1>1, <2>4 DEF OneOfEach
  <2>0. /\ \A i \in DOMAIN report : report[i].valid =>
              /\ report[i].signal \in DOMAIN context
              /\ context[report[i].signal] = report[i].value
        /\ \A s \in DOMAIN context :
              \E i \in DOMAIN report : report[i].valid /\ report[i].signal = s
        BY <1>1, ContextOfReport
  <2> HIDE DEF context
  <2>6. "quota" \in DOMAIN context <=> limit # None
    <3>1. limit # None => "quota" \in DOMAIN context BY <2>0, <2>4
    <3>2. ASSUME "quota" \in DOMAIN context PROVE limit # None
      <4>1. PICK i \in DOMAIN report : report[i].valid /\ report[i].signal = "quota"
            BY <2>0, <3>2
      <4>2. report[2].valid BY <2>5, <4>1
      <4> QED BY <2>4, <4>2
    <3> QED BY <3>1, <3>2
  <2>7. /\ "unlimited" \in DOMAIN context <=> flag # None
        /\ "unlimited" \in DOMAIN context => context["unlimited"] = flag
    <3>1. flag # None => "unlimited" \in DOMAIN context /\ context["unlimited"] = flag
          BY <2>0, <2>4
    <3>2. ASSUME "unlimited" \in DOMAIN context PROVE flag # None
      <4>1. PICK i \in DOMAIN report : report[i].valid /\ report[i].signal = "unlimited"
            BY <2>0, <3>2
      <4>2. report[3].valid BY <2>5, <4>1
      <4> QED BY <2>4, <4>2
    <3> QED BY <3>1, <3>2
  <2>8. limit # None <=> flag # None /\ flag = 0
    <3>1. None \notin Int /\ Unity \in Nat BY ObserversAssumption
    <3>2. CASE quota = None BY <3>2 DEF limit, flag
    <3>3. CASE quota # None /\ unlimited BY <3>3 DEF limit, flag
    <3>4. CASE quota # None /\ ~unlimited
      <4>1. quota.quota \in Int /\ quota.period \in Nat \ {0} BY <2>1, <3>4
      <4>2. (quota.quota * Unity) \div quota.period \in Int BY <3>1, <4>1
      <4>3. limit = (quota.quota * Unity) \div quota.period /\ flag = 0
            BY <3>4 DEF limit, flag
      <4> QED BY <3>1, <4>2, <4>3
    <3> QED BY <3>2, <3>3, <3>4
  <2>9. "quota" \in DOMAIN context <=> "unlimited" \in DOMAIN context /\ context["unlimited"] = 0
    <3>1. CASE flag = None BY <2>6, <2>7, <2>8, <3>1
    <3>2. CASE flag # None
      <4>1. "unlimited" \in DOMAIN context /\ context["unlimited"] = flag BY <2>7, <3>2
      <4>2. "quota" \in DOMAIN context <=> flag = 0 BY <2>6, <2>8, <3>2
      <4> QED BY <4>1, <4>2
    <3> QED BY <3>1, <3>2
  <2> QED BY <2>9 DEF LimitedOrNot, context, report
<1> QED BY <1>2, <1>3

(* Beside keeps all of the first and adds what only the second has. *)
LEMMA BesideKeeps ==
    ASSUME NEW f, NEW g
    PROVE  /\ \A x \in DOMAIN f : x \in DOMAIN Beside(f, g) /\ Beside(f, g)[x] = f[x]
           /\ \A x \in DOMAIN g :
                 x \notin DOMAIN f => x \in DOMAIN Beside(f, g) /\ Beside(f, g)[x] = g[x]
           /\ \A x \in DOMAIN Beside(f, g) : x \in DOMAIN f \/ x \in DOMAIN g
BY DEF Beside

(* One more answer, put behind what was told before. *)
LEMMA AnswerAccounted ==
    ASSUME NEW c, NEW os, NEW t, Accounted(c, os, t), NEW p, p[1] \in Kind,
           NEW got, NextReads(p, got) = {}, NEW stamp \in Nat, NEW now, NEW at,
           \A r \in DOMAIN got : r[1] = "max" => got[r] \in QuotaText,
           \A r \in DOMAIN at : at[r] \in Nat /\ stamp <= at[r],
           "unlimited" \in DOMAIN c => p[1] # "cpu"
    PROVE  LET report == Reported(p, got, stamp, now)
               claimed == Claims(c, ContextOf(report))
           IN /\ Accounted(claimed, os \o report, Beside(t, [q \in {p} |-> at]))
              /\ "unlimited" \in DOMAIN claimed => "unlimited" \in DOMAIN c \/ p[1] = "cpu"
<1> DEFINE report == Reported(p, got, stamp, now)
           more == ContextOf(report)
           claimed == Claims(c, more)
           joined == os \o report
           took == Beside(t, [q \in {p} |-> at])
<1>1. /\ OneOfEach(report, Signals(p)) /\ report \in Seq(Range(report))
      /\ \A i \in DOMAIN report : report[i].source = p /\ report[i].at = stamp
      BY ReportOfEach
<1>2. /\ \A i \in DOMAIN report : report[i].valid =>
            report[i].signal \in DOMAIN more /\ more[report[i].signal] = report[i].value
      /\ \A s \in DOMAIN more : \E i \in DOMAIN report : report[i].valid /\ report[i].signal = s
      BY <1>1, ContextOfReport
<1>3. LimitedOrNot(more) BY ReportIsLimitedOrNot
<1>4. /\ \A s \in DOMAIN c : s \in DOMAIN claimed /\ claimed[s] = c[s]
      /\ \A s \in DOMAIN more :
            s \notin DOMAIN c => s \in DOMAIN claimed /\ claimed[s] = more[s]
      /\ \A s \in DOMAIN claimed : s \in DOMAIN c \/ s \in DOMAIN more
      BY BesideKeeps DEF Claims
<1>5. /\ \A q \in DOMAIN t : q \in DOMAIN took /\ took[q] = t[q]
      /\ p \notin DOMAIN t => took[p] = at
      /\ p \in DOMAIN took /\ \A q \in DOMAIN took : q \in DOMAIN t \/ q = p
      BY BesideKeeps
<1> HIDE DEF report, more, claimed, took
<1> DEFINE n == Len(os)
           m == Len(report)
           S == Range(os) \cup Range(report)
<1>6. os \in Seq(S) /\ report \in Seq(S) /\ n \in Nat /\ m \in Nat
      /\ DOMAIN os = 1 .. n /\ DOMAIN report = 1 .. m
  <2>1. os \in Seq(Range(os)) BY DEF Accounted
  <2>2. \A i \in 1 .. Len(os) : os[i] \in S BY <2>1
  <2>3. \A i \in 1 .. Len(report) : report[i] \in S BY <1>1
  <2> QED BY <1>1, <2>1, <2>2, <2>3
<1>7. /\ joined \in Seq(S) /\ DOMAIN joined = 1 .. n + m
      /\ \A i \in 1 .. n : joined[i] = os[i]
      /\ \A i \in 1 .. m : joined[n + i] = report[i]
  <2>1. /\ joined \in Seq(S) /\ Len(joined) = n + m
        /\ \A i \in 1 .. n + m : joined[i] = IF i <= n THEN os[i] ELSE report[i - n]
        BY <1>6, ConcatProperties
  <2> HIDE DEF joined
  <2>2. ASSUME NEW i \in 1 .. m PROVE joined[n + i] = report[i]
    <3>1. n + i \in 1 .. n + m /\ ~ (n + i <= n) /\ n + i - n = i BY <1>6
    <3> QED BY <2>1, <3>1
  <2>3. \A i \in 1 .. n : i \in 1 .. n + m /\ i <= n BY <1>6
  <2> QED BY <1>6, <2>1, <2>2, <2>3
<1> HIDE DEF joined, S, n, m
<1>8. joined \in Seq(Range(joined))
  <2>1. \A i \in 1 .. n + m : joined[i] \in Range(joined) BY <1>7 DEF Range
  <2>2. joined = [i \in 1 .. n + m |-> joined[i]] BY <1>7
  <2>3. n + m \in Nat BY <1>6
  <2> QED BY <2>1, <2>2, <2>3
<1>9. \A s : Tells(os, s) \/ Tells(report, s) => Tells(joined, s)
  <2>1. \A i \in 1 .. n : i \in 1 .. n + m BY <1>6
  <2>2. \A i \in 1 .. m : n + i \in 1 .. n + m BY <1>6
  <2> QED BY <1>6, <1>7, <2>1, <2>2 DEF Tells
<1>10. ASSUME NEW i \in DOMAIN joined, Leads(joined, i)
       PROVE  Decides(joined[i], claimed, took)
  <2>0. i \in 1 .. n + m /\ n \in Nat /\ m \in Nat BY <1>6, <1>7
  <2>1. CASE i <= n
    <3>1. i \in DOMAIN os /\ joined[i] = os[i] BY <1>6, <1>7, <2>0, <2>1
    <3>2. ASSUME NEW j \in 1 .. i - 1 PROVE os[j].signal # os[i].signal
      <4>1. j \in 1 .. n BY <2>0, <2>1
      <4>2. joined[j].signal # joined[i].signal BY <1>10 DEF Leads
      <4> QED BY <1>7, <3>1, <4>1, <4>2
    <3>3. Decides(os[i], c, t) BY <3>1, <3>2 DEF Accounted, Leads
    <3> QED BY <1>4, <1>5, <3>1, <3>3 DEF Decides
  <2>2. CASE i > n
    <3> DEFINE k == i - n
               s == report[k].signal
    <3>1. k \in 1 .. m /\ n + k = i BY <2>0, <2>2
    <3>2. k \in DOMAIN report /\ joined[i] = report[k] BY <1>6, <1>7, <3>1
    <3>3. ~ Tells(os, s)
      <4>1. SUFFICES ASSUME NEW j \in DOMAIN os, os[j].signal = s PROVE FALSE BY DEF Tells
      <4>2. j \in 1 .. n /\ j \in 1 .. i - 1 BY <1>6, <2>0, <2>2
      <4>3. joined[j].signal # joined[i].signal BY <1>10, <4>2 DEF Leads
      <4> QED BY <1>7, <3>2, <4>1, <4>2, <4>3
    <3>4. s \notin DOMAIN c /\ (p \notin DOMAIN t)
      <4>1. s \in Signals(p) BY <1>1, <3>2 DEF OneOfEach
      <4> QED BY <3>3, <4>1 DEF Accounted
    <3>5. took[p] = at /\ p \in DOMAIN took BY <1>5, <3>4
    <3>6. report[k].source = p /\ report[k].at = stamp BY <1>1, <3>2
    <3>7. report[k].valid => s \in DOMAIN claimed /\ claimed[s] = report[k].value
          BY <1>2, <1>4, <3>2, <3>4
    <3> QED BY <3>2, <3>5, <3>6, <3>7 DEF Decides
  <2> QED BY <2>0, <2>1, <2>2
<1>11. \A s \in DOMAIN claimed : Tells(joined, s)
  <2>1. \A s \in DOMAIN c : Tells(os, s) BY DEF Accounted
  <2>2. \A s \in DOMAIN more : Tells(report, s) BY <1>2 DEF Tells
  <2> QED BY <1>4, <1>9, <2>1, <2>2
<1>12. \A q \in DOMAIN took : \A s \in Signals(q) : Tells(joined, s)
  <2>1. \A q \in DOMAIN t : \A s \in Signals(q) : Tells(os, s) BY DEF Accounted
  <2>2. \A s \in Signals(p) : Tells(report, s) BY <1>1 DEF OneOfEach
  <2> QED BY <1>5, <1>9, <2>1, <2>2
<1>13. "unlimited" \in DOMAIN claimed => "unlimited" \in DOMAIN c \/ p[1] = "cpu"
  <2>1. "unlimited" \in DOMAIN more => "unlimited" \in Signals(p)
        BY <1>1, <1>2 DEF OneOfEach
  <2>2. "unlimited" \in Signals(p) => p[1] = "cpu" BY DEF Signals, Kind
  <2> QED BY <1>4, <2>1, <2>2
<1>14. LimitedOrNot(claimed)
  <2>1. LimitedOrNot(c) BY DEF Accounted
  <2>2. CASE "unlimited" \in DOMAIN c
    <3>1. "quota" \notin Signals(p) BY <2>2 DEF Signals, Kind
    <3>2. "quota" \notin DOMAIN more BY <1>1, <1>2, <3>1 DEF OneOfEach
    <3> QED BY <1>4, <2>1, <2>2, <3>2 DEF LimitedOrNot
  <2>3. CASE "unlimited" \notin DOMAIN c
    <3>1. "quota" \notin DOMAIN c BY <2>1, <2>3 DEF LimitedOrNot
    <3>2. "quota" \in DOMAIN claimed <=> "quota" \in DOMAIN more BY <1>4, <3>1
    <3>3. /\ "unlimited" \in DOMAIN claimed <=> "unlimited" \in DOMAIN more
          /\ "unlimited" \in DOMAIN more => claimed["unlimited"] = more["unlimited"]
          BY <1>4, <2>3
    <3> QED BY <1>3, <3>2, <3>3 DEF LimitedOrNot
  <2> QED BY <2>2, <2>3
<1>15. Accounted(claimed, joined, took) BY <1>8, <1>10, <1>11, <1>12, <1>14 DEF Accounted
<1> QED BY <1>13, <1>15 DEF claimed, joined, took, report, more

-----------------------------------------------------------------------------
(* The provider that is asked next has read nothing yet. *)
LEMMA AskedStands ==
    ASSUME moment \in Nat, UNCHANGED moment, NEW set \in ObserverSets,
           NEW done \in 0 .. Len(set), NEW c, NEW os, NEW t, Accounted(c, os, t),
           "unlimited" \in DOMAIN c => \E i \in 1 .. done : set[i][1] = "cpu",
           observing' = Asked(set, done, c, os, t)
    PROVE  ObservingInv'
<1> DEFINE next == observing'
<1>1. next = [set |-> set, done |-> done, stamp |-> moment, got |-> <<>>, at |-> <<>>,
              context |-> c, observations |-> os, took |-> t]
      BY DEF Asked
<1>2. /\ next.set = set /\ next.done = done /\ next.stamp = moment
      /\ next.got = <<>> /\ next.at = <<>>
      /\ next.context = c /\ next.observations = os /\ next.took = t
      BY <1>1
<1>3. next = [set |-> next.set, done |-> next.done, stamp |-> next.stamp, got |-> next.got,
              at |-> next.at, context |-> next.context, observations |-> next.observations,
              took |-> next.took]
      BY <1>1, <1>2
<1> HIDE DEF next
<1>4. DOMAIN next.got = {} /\ DOMAIN next.at = {} BY <1>2
<1>5. next.stamp \in Nat /\ next.stamp <= moment' BY <1>2
<1>6. Accounted(next.context, next.observations, next.took) BY <1>2
<1>7. "unlimited" \in DOMAIN next.context =>
         \E i \in 1 .. next.done : next.set[i][1] = "cpu"
      BY <1>2
<1>8. next.set \in ObserverSets /\ next.done \in 0 .. Len(next.set) BY <1>2
<1> QED BY <1>3, <1>4, <1>5, <1>6, <1>7, <1>8 DEF ObservingInv, next, Accounted, LimitedOrNot,
           Decides, Leads, Tells

(* Before any provider has answered there is nothing to account for. *)
LEMMA NothingAccounted == Accounted(<<>>, <<>>, <<>>)
<1>1. DOMAIN <<>> = {} /\ <<>> \in Seq(Range(<<>>)) OBVIOUS
<1> QED BY <1>1 DEF Accounted, LimitedOrNot

LEMMA ObserversStart == ObserversInit => ObserversInv
<1> SUFFICES ASSUME ObserversInit PROVE ObserversInv OBVIOUS
<1>1. HostInv BY ObserversAssumption DEF ObserversInit, HostInv
<1>2. ObservingInv /\ SnapshotInv BY DEF ObserversInit, ObservingInv, SnapshotInv
<1> QED BY <1>1, <1>2 DEF ObserversInv

LEMMA TimePassesStep == ObserversInv /\ TimePasses => ObserversInv'
<1> SUFFICES ASSUME ObserversInv, TimePasses PROVE ObserversInv' OBVIOUS
<1>1. moment \in Nat /\ moment' = moment + 1 BY DEF ObserversInv, HostInv, TimePasses
<1>2. UNCHANGED <<host, observing, snapshot>> BY DEF TimePasses
<1>3. HostInv' BY <1>1, <1>2 DEF ObserversInv, HostInv, QuotaText
<1>4. ObservingInv'
  <2>1. SUFFICES ASSUME observing # None, ObservingInv PROVE ObservingInv'
        BY <1>2 DEF ObserversInv, ObservingInv
  <2>2. observing.stamp \in Nat /\ observing.stamp <= moment BY <2>1 DEF ObservingInv
  <2>3. observing.stamp <= moment' BY <1>1, <2>2
  <2> QED BY <1>2, <2>1, <2>3 DEF ObservingInv, Accounted, LimitedOrNot, Decides, Leads, Tells
<1>5. SnapshotInv'
      BY <1>2 DEF ObserversInv, SnapshotInv, Accounted, LimitedOrNot, Decides, Leads, Tells
<1> QED BY <1>3, <1>4, <1>5 DEF ObserversInv

LEMMA HostChangesStep ==
    ASSUME ObserversInv, NEW c \in Changes, HostChanges(c[1], c[2])
    PROVE  ObserversInv'
<1>1. /\ c[1] \in DOMAIN host /\ host' = [host EXCEPT ![c[1]] = c[2]]
      /\ UNCHANGED <<moment, observing, snapshot>>
      BY DEF HostChanges
<1>2. c[1][1] = "max" => c[2] \in QuotaText BY ObserversAssumption
<1>3. HostInv'
  <2>1. moment \in Nat /\ \A f \in DOMAIN host : f[1] = "max" => host[f] \in QuotaText
        BY DEF ObserversInv, HostInv
  <2>2. \A f \in DOMAIN host' : f[1] = "max" => host'[f] \in QuotaText
        BY <1>1, <1>2, <2>1
  <2> QED BY <1>1, <2>1, <2>2 DEF HostInv, QuotaText
<1>4. ObservingInv' /\ SnapshotInv'
      BY <1>1 DEF ObserversInv, ObservingInv, SnapshotInv, Accounted, LimitedOrNot, Decides,
                  Leads, Tells
<1> QED BY <1>3, <1>4 DEF ObserversInv

LEMMA ObserveStep ==
    ASSUME ObserversInv, NEW set \in ObserverSets, Observe(set)
    PROVE  ObserversInv'
<1>1. /\ observing' = Asked(set, 0, <<>>, <<>>, <<>>) /\ snapshot' = None
      /\ UNCHANGED <<host, moment, changed>>
      BY DEF Observe
<1>2. HostInv' BY <1>1 DEF ObserversInv, HostInv, QuotaText
<1>3. ObservingInv'
  <2>1. set \in Seq(Range(set)) BY ObserversAssumption
  <2>2. 0 \in 0 .. Len(set) BY <2>1
  <2>3. "unlimited" \notin DOMAIN <<>> OBVIOUS
  <2>4. moment \in Nat BY DEF ObserversInv, HostInv
  <2> QED BY <1>1, <2>2, <2>3, <2>4, NothingAccounted, AskedStands
<1>4. SnapshotInv' BY <1>1 DEF SnapshotInv
<1> QED BY <1>2, <1>3, <1>4 DEF ObserversInv

(* A file is read after the provider was asked, and a quota parses or is not known. *)
LEMMA ReadFileStep == ObserversInv /\ ReadFile => ObserversInv'
<1> SUFFICES ASSUME ObserversInv, ReadFile PROVE ObserversInv' OBVIOUS
<1>1. PICK r \in NextReads(Provider, observing.got) :
         observing' = [observing EXCEPT !.got = Beside(@, [x \in {r} |-> ReadNow(r)]),
                                        !.at = Beside(@, [x \in {r} |-> moment])]
      BY DEF ReadFile
<1>2. observing # None /\ UNCHANGED <<host, moment, changed, snapshot>> BY DEF ReadFile
<1>3. HostInv' BY <1>2 DEF ObserversInv, HostInv, QuotaText
<1>4. SnapshotInv'
      BY <1>2 DEF ObserversInv, SnapshotInv, Accounted, LimitedOrNot, Decides, Leads, Tells
<1>5. ObservingInv'
  <2> DEFINE old == observing
             next == observing'
             got == Beside(old.got, [x \in {r} |-> ReadNow(r)])
             at == Beside(old.at, [x \in {r} |-> moment])
  <2>1. /\ old = [set |-> old.set, done |-> old.done, stamp |-> old.stamp, got |-> old.got,
                  at |-> old.at, context |-> old.context, observations |-> old.observations,
                  took |-> old.took]
        /\ old.set \in ObserverSets /\ old.done \in 0 .. Len(old.set)
        /\ old.stamp \in Nat /\ old.stamp <= moment
        /\ \A x \in DOMAIN old.at : old.at[x] \in Nat /\ old.stamp <= old.at[x]
        /\ \A x \in DOMAIN old.got : x[1] = "max" => old.got[x] \in QuotaText
        /\ Accounted(old.context, old.observations, old.took)
        /\ "unlimited" \in DOMAIN old.context => \E i \in 1 .. old.done : old.set[i][1] = "cpu"
        BY <1>2 DEF ObserversInv, ObservingInv
  <2>2. next = [old EXCEPT !.got = got, !.at = at] BY <1>1
  <2>3. \A x \in DOMAIN at : at[x] \in Nat /\ old.stamp <= at[x]
    <3>1. moment \in Nat BY DEF ObserversInv, HostInv
    <3>2. /\ \A x \in DOMAIN old.at : at[x] = old.at[x]
          /\ r \notin DOMAIN old.at => at[r] = moment
          /\ \A x \in DOMAIN at : x \in DOMAIN old.at \/ x = r
          BY BesideKeeps
    <3> HIDE DEF at
    <3> QED BY <2>1, <3>1, <3>2
  <2>4. \A x \in DOMAIN got : x[1] = "max" => got[x] \in QuotaText
    <3>1. /\ \A x \in DOMAIN old.got : got[x] = old.got[x]
          /\ r \notin DOMAIN old.got => got[r] = ReadNow(r)
          /\ \A x \in DOMAIN got : x \in DOMAIN old.got \/ x = r
          BY BesideKeeps
    <3>2. r[1] = "max" => ReadNow(r) \in QuotaText
      <4>1. SUFFICES ASSUME r[1] = "max" PROVE ReadNow(r) \in QuotaText OBVIOUS
      <4>2. FileOf(r) = r BY <4>1 DEF FileOf
      <4>3. ReadNow(r) = Content(r) BY <4>1, <4>2 DEF ReadNow
      <4> QED BY <4>1, <4>3 DEF Content, ObserversInv, HostInv, QuotaText
    <3> HIDE DEF got
    <3> QED BY <2>1, <3>1, <3>2
  <2> HIDE DEF got, at
  <2>5. next = [set |-> old.set, done |-> old.done, stamp |-> old.stamp, got |-> got,
                at |-> at, context |-> old.context, observations |-> old.observations,
                took |-> old.took]
        BY <2>1, <2>2
  <2> HIDE DEF old, next
  <2>6. /\ next.set = old.set /\ next.done = old.done /\ next.stamp = old.stamp
        /\ next.got = got /\ next.at = at /\ next.context = old.context
        /\ next.observations = old.observations /\ next.took = old.took
        BY <2>5
  <2>7. next = [set |-> next.set, done |-> next.done, stamp |-> next.stamp, got |-> next.got,
                at |-> next.at, context |-> next.context, observations |-> next.observations,
                took |-> next.took]
        BY <2>5, <2>6
  <2>8. next.set \in ObserverSets /\ next.done \in 0 .. Len(next.set)
        BY <2>1, <2>6
  <2>9. next.stamp \in Nat /\ next.stamp <= moment' BY <1>2, <2>1, <2>6
  <2>10. \A x \in DOMAIN next.at : next.at[x] \in Nat /\ next.stamp <= next.at[x]
         BY <2>3, <2>6
  <2>11. \A x \in DOMAIN next.got : x[1] = "max" => next.got[x] \in QuotaText
         BY <2>4, <2>6
  <2>12. Accounted(next.context, next.observations, next.took) BY <2>1, <2>6
  <2>13. "unlimited" \in DOMAIN next.context =>
            \E i \in 1 .. next.done : next.set[i][1] = "cpu"
         BY <2>1, <2>6
  <2> QED BY <2>7, <2>8, <2>9, <2>10, <2>11, <2>12, <2>13
          DEF ObservingInv, next, Accounted, LimitedOrNot, Decides, Leads, Tells, QuotaText
<1> QED BY <1>3, <1>4, <1>5 DEF ObserversInv

(* At most one provider of a set is the CPU environment, so no flag is     *)
(* known before it answers.                                                *)
LEMMA AnswerStep == ObserversInv /\ Answer => ObserversInv'
<1> SUFFICES ASSUME ObserversInv, Answer PROVE ObserversInv' OBVIOUS
<1> DEFINE p == Provider
           set == observing.set
           done == observing.done
           report == Reported(p, observing.got, observing.stamp, moment)
           claimed == Claims(observing.context, ContextOf(report))
           os == observing.observations \o report
           took == Beside(observing.took, [q \in {p} |-> observing.at])
<1>1. /\ observing # None /\ done < Len(set) /\ NextReads(p, observing.got) = {}
      /\ observing' = Asked(set, done + 1, claimed, os, took)
      /\ UNCHANGED <<host, moment, changed, snapshot>>
      BY DEF Answer
<1>2. HostInv' BY <1>1 DEF ObserversInv, HostInv, QuotaText
<1>3. SnapshotInv'
      BY <1>1 DEF ObserversInv, SnapshotInv, Accounted, LimitedOrNot, Decides, Leads, Tells
<1>4. ObservingInv'
  <2>1. /\ set \in ObserverSets /\ done \in 0 .. Len(set)
        /\ observing.stamp \in Nat
        /\ \A r \in DOMAIN observing.at :
              observing.at[r] \in Nat /\ observing.stamp <= observing.at[r]
        /\ \A r \in DOMAIN observing.got : r[1] = "max" => observing.got[r] \in QuotaText
        /\ Accounted(observing.context, observing.observations, observing.took)
        /\ "unlimited" \in DOMAIN observing.context => \E i \in 1 .. done : set[i][1] = "cpu"
        BY <1>1 DEF ObserversInv, ObservingInv
  <2>2. /\ set \in Seq(Range(set)) /\ \A q \in Range(set) : q[1] \in Kind
        /\ \A i, j \in DOMAIN set : set[i][1] = "cpu" /\ set[j][1] = "cpu" => i = j
        BY <2>1, ObserversAssumption
  <2>3. /\ Len(set) \in Nat /\ DOMAIN set = 1 .. Len(set)
        /\ done \in Nat /\ done + 1 \in 0 .. Len(set) /\ done + 1 \in DOMAIN set
        BY <1>1, <2>1, <2>2
  <2>4. p = set[done + 1] /\ p[1] \in Kind
    <3>1. set[done + 1] \in Range(set) BY <2>3 DEF Range
    <3> QED BY <2>2, <3>1 DEF Provider
  <2>5. "unlimited" \in DOMAIN observing.context => p[1] # "cpu"
    <3>1. SUFFICES ASSUME NEW i \in 1 .. done, set[i][1] = "cpu", p[1] = "cpu" PROVE FALSE
          BY <2>1
    <3>2. i \in DOMAIN set /\ i # done + 1 BY <2>3
    <3> QED BY <2>2, <2>3, <2>4, <3>1, <3>2
  <2>6. moment \in Nat BY DEF ObserversInv, HostInv
  <2>7. /\ Accounted(claimed, os, took)
        /\ "unlimited" \in DOMAIN claimed =>
              "unlimited" \in DOMAIN observing.context \/ p[1] = "cpu"
    <3> DEFINE c == observing.context
               told == observing.observations
               t == observing.took
               got == observing.got
               at == observing.at
               stamp == observing.stamp
    <3>1. /\ Accounted(c, told, t) /\ NextReads(p, got) = {} /\ p[1] \in Kind /\ stamp \in Nat
          /\ \A r \in DOMAIN got : r[1] = "max" => got[r] \in QuotaText
          /\ \A r \in DOMAIN at : at[r] \in Nat /\ stamp <= at[r]
          /\ "unlimited" \in DOMAIN c => p[1] # "cpu"
          BY <1>1, <2>1, <2>4, <2>5
    <3> HIDE DEF c, told, t, got, at, stamp, p
    <3>2. LET new == Reported(p, got, stamp, moment)
              all == Claims(c, ContextOf(new))
          IN /\ Accounted(all, told \o new, Beside(t, [q \in {p} |-> at]))
             /\ "unlimited" \in DOMAIN all => "unlimited" \in DOMAIN c \/ p[1] = "cpu"
          BY <3>1, AnswerAccounted
    <3> QED BY <3>2 DEF c, told, t, got, at, stamp
  <2> HIDE DEF p, claimed, os, took
  <2>8. "unlimited" \in DOMAIN claimed => \E i \in 1 .. done + 1 : set[i][1] = "cpu"
    <3>1. done + 1 \in 1 .. done + 1 /\ \A i \in 1 .. done : i \in 1 .. done + 1 BY <2>3
    <3> QED BY <2>1, <2>4, <2>7, <3>1
  <2> QED BY <1>1, <2>1, <2>3, <2>6, <2>7, <2>8, AskedStands
<1> QED BY <1>2, <1>3, <1>4 DEF ObserversInv

LEMMA TakeSnapshotStep == ObserversInv /\ TakeSnapshot => ObserversInv'
<1> SUFFICES ASSUME ObserversInv, TakeSnapshot PROVE ObserversInv' OBVIOUS
<1>1. /\ observing # None /\ observing' = None /\ UNCHANGED <<host, moment, changed>>
      /\ snapshot' = [context |-> observing.context, observations |-> observing.observations,
                      took |-> observing.took]
      BY DEF TakeSnapshot
<1>2. HostInv' BY <1>1 DEF ObserversInv, HostInv, QuotaText
<1>3. ObservingInv' BY <1>1 DEF ObservingInv
<1>4. Accounted(observing.context, observing.observations, observing.took)
      BY <1>1 DEF ObserversInv, ObservingInv
<1>5. /\ snapshot'.context = observing.context
      /\ snapshot'.observations = observing.observations /\ snapshot'.took = observing.took
      BY <1>1
<1>6. Accounted(snapshot'.context, snapshot'.observations, snapshot'.took) BY <1>4, <1>5
<1>7. SnapshotInv'
      BY <1>6 DEF SnapshotInv, Accounted, LimitedOrNot, Decides, Leads, Tells
<1> QED BY <1>2, <1>3, <1>7 DEF ObserversInv

(* The invariant is inductive: one lemma for each action above. *)
LEMMA ObserversStand == ObserversSpec => []ObserversInv
<1>1. ObserversInit => ObserversInv BY ObserversStart
<1>2. ObserversInv /\ [ObserversNext]_observerVars => ObserversInv'
  <2> SUFFICES ASSUME ObserversInv, [ObserversNext]_observerVars PROVE ObserversInv' OBVIOUS
  <2>1. CASE TimePasses BY <2>1, TimePassesStep
  <2>2. CASE \E c \in Changes : HostChanges(c[1], c[2]) BY <2>2, HostChangesStep
  <2>3. CASE \E set \in ObserverSets : Observe(set) BY <2>3, ObserveStep
  <2>4. CASE ReadFile BY <2>4, ReadFileStep
  <2>5. CASE Answer BY <2>5, AnswerStep
  <2>6. CASE TakeSnapshot BY <2>6, TakeSnapshotStep
  <2>7. CASE UNCHANGED observerVars
        BY <2>7 DEF observerVars, ObserversInv, HostInv, ObservingInv, SnapshotInv, Accounted,
                    LimitedOrNot, Decides, Leads, Tells, QuotaText
  <2> QED BY <2>1, <2>2, <2>3, <2>4, <2>5, <2>6, <2>7 DEF ObserversNext
<1> QED BY <1>1, <1>2, PTL DEF ObserversSpec

(* A fact derived from a snapshot compares one value of one provider, all  *)
(* of whose files said so no longer ago than the predicate allows, and a   *)
(* CPU quota is known just when it is known not to be unlimited - whatever *)
(* the host does between the reads (observers.rs, ObserverSet::observe and *)
(* the providers; decision_facts.rs, the threshold evaluator).             *)
THEOREM FactsStand == ObserversSpec => []FactsAreOfTheHost
<1>1. ObserversInv => FactsAreOfTheHost BY FactsFollow DEF ObserversInv
<1> QED BY <1>1, ObserversStand, PTL
=============================================================================

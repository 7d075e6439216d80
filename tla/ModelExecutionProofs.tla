------------------------- MODULE ModelExecutionProofs -------------------------
(***************************************************************************)
(* The safety properties of ModelExecution, for any number of loops, any   *)
(* set of profiles and any policies.                                       *)
(*                                                                         *)
(* None of them is inductive.  That the slot follows its transaction needs *)
(* SlotInv: the target of a controller stays a profile until its cycle is  *)
(* over, and the preparation in the slot was allowed live.  That the       *)
(* evidence is true needs to say what the evidence will be built from      *)
(* while the run still goes on: SoleInv compares the observation and the   *)
(* log with the settled profile, and RunInv keeps a run that lost its      *)
(* model from ever completing its evidence.                                *)
(***************************************************************************)
EXTENDS ModelExecution, SequenceTheorems, TLAPS

Active(c) == pc[c] \in Acting
Targeting(c) == pc[c] \in {"validate", "prepare"} \/ Active(c)

(* Who has the slot, and what for.                                         *)
SlotInv ==
    /\ \A c \in Controller : Active(c) => owner = c /\ ~wedged /\ Matches(c)
    /\ prepared # None =>
          /\ owner \in acted /\ (wedged \/ Active(owner))
          /\ <<prepared.previous, prepared.target>> \in Live
    /\ prepared = None => rank \in Rank
    /\ wedged => prepared # None
    /\ \A c \in Controller : Targeting(c) => target[c] \in Rank

(* A run has no evidence before it has ended, and the run that could not   *)
(* restore the model ends in failure.                                      *)
RunOf(c) ==
    /\ pc[c] # "stopped" => evidence[c] = "none" /\ stop[c] = "running"
    /\ evidence[c] = "complete" => Representable(c)
    /\ wedged /\ owner = c => evidence[c] = "failed"
RunInv == \A c \in Controller \ Guarded : RunOf(c)

(* What a run that acts alone observed and recorded is the settled profile.*)
SoleOf(c) ==
    /\ seen[c].rank \in {None, Settled}
    /\ log[c] # <<>> => Last(log[c]).actual = Settled
    /\ \A i \in 1 .. Len(log[c]) : log[c][i].final \in {None, log[c][i].actual}
    /\ \A i \in 2 .. Len(log[c]) : log[c][i].initial \in {None, log[c][i - 1].actual}
SoleInv == \A c \in Controller \ Guarded : acted \subseteq {c} => SoleOf(c)

IInv == TypeOK /\ SlotInv /\ RunInv /\ SoleInv

-----------------------------------------------------------------------------
(* The slot.                                                               *)

(* Every other controller is where it was in its transaction.              *)
LEMMA OthersStay ==
    ASSUME ControlTypeOK, NEW c \in Controller, Moves(c)
    PROVE  \A d \in Controller \ {c} :
              /\ pc'[d] = pc[d] /\ target'[d] = target[d]
              /\ Active(d)' <=> Active(d)
              /\ Targeting(d)' <=> Targeting(d)
BY DEF Moves, Active, Targeting

(* A step outside of the transaction leaves the slot as it is.             *)
LEMMA OutsideSlot ==
    ASSUME TypeOK, SlotInv, NEW c \in Controller, Moves(c),
           UNCHANGED <<modelVars, ghostVars>>, ~Active(c), ~Active(c)',
           Targeting(c)' => target'[c] \in Rank
    PROVE  SlotInv'
<1>1. ControlTypeOK BY DEF TypeOK
<1>2. \A d \in Controller : Active(d)' <=> Active(d) BY <1>1, OthersStay
<1>3. \A d \in Controller : Active(d) => d # c /\ target'[d] = target[d]
      BY <1>1, OthersStay
<1>4. UNCHANGED <<rank, prepared, owner, acted, wedged>> BY DEF modelVars, ghostVars
<1>5. \A d \in Controller : Active(d)' => owner' = d /\ ~wedged' /\ Matches(d)'
      BY <1>2, <1>3, <1>4 DEF SlotInv, Matches
<1>6. \A d \in Controller : Targeting(d)' => target'[d] \in Rank
      BY <1>1, OthersStay DEF SlotInv
<1>7. prepared # None /\ ~wedged => owner \in Controller /\ Active(owner)
      BY DEF SlotInv, TypeOK
<1>8. prepared' # None => /\ owner' \in acted' /\ (wedged' \/ Active(owner)')
                          /\ <<prepared'.previous, prepared'.target>> \in Live
      BY <1>2, <1>4, <1>7 DEF SlotInv, Active
<1> QED BY <1>4, <1>5, <1>6, <1>8 DEF SlotInv

(* A step within the transaction, which keeps what is prepared.            *)
LEMMA InsideSlot ==
    ASSUME TypeOK, SlotInv, NEW c \in Controller, Moves(c), target' = target,
           UNCHANGED <<prepared, ghostVars>>, Active(c), Active(c)'
    PROVE  SlotInv' /\ prepared # None
<1>1. ControlTypeOK BY DEF TypeOK
<1>2. \A d \in Controller : Active(d)' <=> Active(d) BY <1>1, OthersStay
<1>3. UNCHANGED <<owner, acted, wedged>> BY DEF ghostVars
<1>4. owner = c /\ prepared # None BY DEF SlotInv, Matches
<1>5. \A d \in Controller : Active(d)' => owner' = d /\ ~wedged' /\ Matches(d)'
      BY <1>2, <1>3 DEF SlotInv, Matches
<1>6. \A d \in Controller : Targeting(d)' => target'[d] \in Rank
  <2>1. SUFFICES ASSUME NEW d \in Controller, Targeting(d)' PROVE Targeting(d)
        BY <2>1 DEF SlotInv
  <2>2. CASE d = c BY <2>2 DEF Targeting
  <2>3. CASE d # c BY <1>1, <2>1, <2>3, OthersStay
  <2> QED BY <2>2, <2>3
<1>7. owner' \in acted' /\ Active(owner)' BY <1>3, <1>4 DEF SlotInv, Active
<1>8. <<prepared'.previous, prepared'.target>> \in Live BY <1>4 DEF SlotInv
<1> QED BY <1>3, <1>4, <1>5, <1>6, <1>7, <1>8 DEF SlotInv

(* A controller takes the free slot.                                       *)
LEMMA TakeSlot ==
    ASSUME ModelAssumption, TypeOK, SlotInv, NEW c \in Controller, Moves(c),
           target' = target, pc[c] = "prepare", pc'[c] = "actuate",
           prepared = None, Acceptable(target[c]),
           prepared' = [previous |-> rank, target |-> target[c]],
           owner' = c, acted' = acted \cup {c}, UNCHANGED <<rank, wedged>>
    PROVE  SlotInv' /\ prepared' \in Transaction /\ Settled' = Settled
<1>1. ControlTypeOK BY DEF TypeOK
<1>2. rank \in Rank /\ target[c] \in Rank /\ <<rank, target[c]>> \in Live
      BY DEF Acceptable, Published, SlotInv, Targeting
<1>3. prepared' \in Transaction /\ prepared' # None
      /\ prepared'.previous = rank /\ prepared'.target = target[c]
      BY <1>2 DEF Transaction, ModelAssumption
<1>4. Settled' = Settled BY <1>3 DEF Settled
<1>5. ~wedged BY DEF SlotInv
<1>6. \A d \in Controller : ~Active(d) BY DEF SlotInv, Matches
<1>7. \A d \in Controller : Active(d)' => d = c BY <1>1, <1>6, OthersStay
<1>8. \A d \in Controller : Active(d)' => owner' = d /\ ~wedged' /\ Matches(d)'
      BY <1>3, <1>5, <1>7 DEF Matches
<1>9. Active(c)' BY DEF Active, Acting
<1>10. \A d \in Controller : Targeting(d)' => target'[d] \in Rank
  <2>1. Targeting(c) BY DEF Targeting
  <2> QED BY <1>1, <2>1, OthersStay DEF SlotInv
<1> QED BY <1>2, <1>3, <1>4, <1>5, <1>8, <1>9, <1>10 DEF SlotInv, Active

(* Its transaction ends with the slot free.                                *)
LEMMA FreeSlot ==
    ASSUME TypeOK, SlotInv, NEW c \in Controller, Moves(c), Active(c),
           ~Targeting(c)', prepared' = None, rank' \in Rank,
           UNCHANGED <<owner, acted, wedged>>
    PROVE  SlotInv'
<1>1. ControlTypeOK BY DEF TypeOK
<1>2. ~wedged /\ owner = c BY DEF SlotInv
<1>3. \A d \in Controller : ~Active(d)'
  <2>1. \A d \in Controller \ {c} : ~Active(d)' BY <1>1, <1>2, OthersStay DEF SlotInv
  <2> QED BY <2>1 DEF Targeting
<1>4. \A d \in Controller : Targeting(d)' => target'[d] \in Rank
      BY <1>1, OthersStay DEF SlotInv
<1> QED BY <1>2, <1>3, <1>4 DEF SlotInv

(* Or it ends with a failed restoration, and keeps the slot for good.      *)
LEMMA LeaveSlot ==
    ASSUME TypeOK, SlotInv, NEW c \in Controller, Moves(c), Active(c),
           ~Targeting(c)', wedged' = TRUE, UNCHANGED <<prepared, owner, acted>>
    PROVE  SlotInv' /\ prepared # None /\ owner = c
<1>1. ControlTypeOK BY DEF TypeOK
<1>2. prepared # None /\ owner = c BY DEF SlotInv, Matches
<1>3. \A d \in Controller : ~Active(d)'
  <2>1. \A d \in Controller \ {c} : ~Active(d)' BY <1>1, <1>2, OthersStay DEF SlotInv
  <2> QED BY <2>1 DEF Targeting
<1>4. \A d \in Controller : Targeting(d)' => target'[d] \in Rank
      BY <1>1, OthersStay DEF SlotInv
<1> QED BY <1>2, <1>3, <1>4 DEF SlotInv

-----------------------------------------------------------------------------
(* The account of a step.                                                  *)

(* The types of all that the account does not touch.                       *)
Typed ==
    /\ rank \in Rank \cup {Broken} /\ prepared \in Transaction \cup {None}
    /\ epoch \in [Controller -> 1 .. MaxEpoch] /\ generation \in [Controller -> Nat]
    /\ owner \in Controller \cup {None} /\ acted \subseteq Controller
    /\ wedged \in BOOLEAN /\ moves \in [Controller -> Nat]

(* What a step may do to the standing of the controllers: others may have  *)
(* acted only if it acts, and only its own failed restoration can leave    *)
(* the slot behind, which ends its run in an error.                        *)
Standing(c) ==
    /\ acted \subseteq acted'
    /\ \A d \in Controller : wedged' /\ owner' = d =>
          \/ wedged /\ owner = d
          \/ d = c /\ pc'[c] = "stopped" /\ stop'[c] = "error"

(* What it does to the settled profile: only a committed cycle may move    *)
(* it, to the target, and its controller has acted.                        *)
Settles(c) ==
    \/ Settled' = Settled /\ ~Completes(c, "committed")
    \/ Completes(c, "committed") /\ c \in acted /\ target[c] = Settled'

(* The settled profile is always a published one.                          *)
LEMMA SettledIsRank ==
    ASSUME Typed', SlotInv'
    PROVE  Settled' \in Rank
BY DEF Typed, SlotInv, Settled, Transaction

(* A step that is none of the model's keeps both.                          *)
LEMMA QuietStands ==
    ASSUME TypeOK, NEW c \in Controller, UNCHANGED <<modelVars, ghostVars>>
    PROVE  Standing(c) /\ Settled' = Settled
BY DEF Standing, Settled, modelVars, ghostVars

(* The last entry of a log that grows, and the ones before it.             *)
LEMMA LogGrows ==
    ASSUME NEW s \in Seq(Entry), NEW e \in Entry
    PROVE  LET t == Append(s, e)
           IN  /\ t \in Seq(Entry) /\ t # <<>> /\ Len(t) = Len(s) + 1 /\ Last(t) = e
               /\ \A i \in 1 .. Len(s) : t[i] = s[i]
BY DEF Last

(* The account keeps its types.                                            *)
LEMMA AccountTyped ==
    ASSUME ModelAssumption, TypeOK, NEW c \in Controller, Moves(c), Account(c),
           Settled' \in Rank
    PROVE  /\ seen' \in [Controller -> [rank : Rank \cup {None}, load : Load \cup {None}]]
           /\ log' \in [Controller -> Seq(Entry)]
           /\ evidence' \in [Controller -> {"none", "due", "complete", "failed"}]
           /\ EntryOf(c, result'[c]) \in Entry
<1>1. seen \in [Controller -> [rank : Rank \cup {None}, load : Load \cup {None}]]
      /\ Unseen \in [rank : Rank \cup {None}, load : Load \cup {None}]
      BY DEF TypeOK, Unseen
<1>2. seen' \in [Controller -> [rank : Rank \cup {None}, load : Load \cup {None}]]
      BY <1>1 DEF Account, Settle
<1>3. evidence' \in [Controller -> {"none", "due", "complete", "failed"}]
      BY DEF Account, TypeOK
<1>4. target[c] \in Rank \cup {None} /\ seen[c].rank \in Rank \cup {None}
      BY <1>1 DEF TypeOK, ControlTypeOK, ModelAssumption
<1>5. EntryOf(c, result'[c]) \in Entry
      BY <1>4 DEF EntryOf, Entry, Terminal, Outcome
<1>6. log \in [Controller -> Seq(Entry)] BY DEF TypeOK
<1>7. Append(log[c], EntryOf(c, result'[c])) \in Seq(Entry) BY <1>5, <1>6
<1>8. log' \in [Controller -> Seq(Entry)] BY <1>6, <1>7 DEF Account, Record
<1> QED BY <1>2, <1>3, <1>5, <1>8

(* The loops that do not step keep their reports.                          *)
LEMMA OthersKept ==
    ASSUME TypeOK, RunInv, SoleInv, NEW c \in Controller, NEW d \in Controller \ Guarded,
           d # c, Moves(c), Standing(c), Settled' = Settled \/ c \in acted,
           seen'[d] = seen[d], log'[d] = log[d], evidence'[d] = evidence[d]
    PROVE  RunOf(d)' /\ (acted' \subseteq {d} => SoleOf(d)')
<1>1. pc'[d] = pc[d] /\ stop'[d] = stop[d] BY DEF Moves
<1>2. RunOf(d) BY DEF RunInv
<1>3. RunOf(d)' BY <1>1, <1>2 DEF RunOf, Representable, Standing
<1>4. ASSUME acted' \subseteq {d} PROVE SoleOf(d)'
  <2>1. acted \subseteq {d} /\ SoleOf(d) BY <1>4 DEF Standing, SoleInv
  <2>2. Settled' = Settled BY <2>1
  <2> QED BY <2>1, <2>2 DEF SoleOf
<1> QED BY <1>3, <1>4

(* The loop that steps has no evidence until it stops.                     *)
LEMMA OwnRun ==
    ASSUME TypeOK, RunInv, NEW c \in Controller \ Guarded, pc[c] # "stopped",
           Account(c), Standing(c), pc'[c] # "stopped" => UNCHANGED stop
    PROVE  RunOf(c)'
<1>1. evidence[c] = "none" /\ stop[c] = "running" /\ ~(wedged /\ owner = c)
      BY DEF RunInv, RunOf
<1>2. evidence'[c] = IF stop'[c] = "error" THEN "failed"
                     ELSE IF pc'[c] = "stopped" THEN "due" ELSE "none"
      BY <1>1 DEF Account, TypeOK
<1>3. wedged' /\ owner' = c => pc'[c] = "stopped" /\ stop'[c] = "error"
      BY <1>1 DEF Standing
<1> QED BY <1>1, <1>2, <1>3 DEF RunOf

(* A cycle that goes on records nothing.                                   *)
LEMMA SoleGoes ==
    ASSUME TypeOK, NEW c \in Controller \ Guarded, SoleOf(c), Settled' = Settled,
           UNCHANGED log, seen'[c] = seen[c] \/ seen'[c] = Unseen
    PROVE  SoleOf(c)'
BY DEF SoleOf, Unseen

(* A completed cycle is recorded as it was.                                *)
LEMMA SoleCompletes ==
    ASSUME ModelAssumption, TypeOK, NEW c \in Controller \ Guarded, NEW how,
           SoleOf(c), Completes(c, how), Account(c), Settled' \in Rank, Settles(c)
    PROVE  SoleOf(c)'
<1> DEFINE s == log[c]
           e == EntryOf(c, how)
<1>1. s \in Seq(Entry) /\ e \in Entry
  <2>1. result'[c] = how /\ Moves(c) BY DEF Completes
  <2> QED BY <2>1, AccountTyped DEF TypeOK
<1>2. log'[c] = Append(s, e) BY DEF Completes, Account, Record, TypeOK
<1>3. seen'[c].rank = None
  <2>1. seen'[c] = Unseen BY DEF Completes, Account, Settle, TypeOK
  <2> QED BY <2>1 DEF Unseen
<1>4. e.actual = Settled' /\ e.initial = seen[c].rank /\ e.final = Terminal(c, how)
      BY DEF EntryOf
<1>5. e.final \in {None, e.actual}
  <2>1. CASE how = "committed"
    <3>1. target[c] = Settled' BY <2>1 DEF Settles
    <3> QED BY <2>1, <3>1, <1>4 DEF Terminal
  <2>2. CASE how # "committed"
    <3>1. Settled' = Settled BY <2>2 DEF Settles, Completes
    <3> QED BY <2>2, <3>1, <1>4 DEF Terminal, SoleOf
  <2> QED BY <2>1, <2>2
<1>6. s # <<>> => e.initial \in {None, s[Len(s)].actual}
      BY <1>4 DEF SoleOf, Last
<1> DEFINE t == Append(s, e)
<1>7. /\ t # <<>> /\ Len(t) = Len(s) + 1 /\ t[Len(s) + 1] = e /\ Last(t) = e
      /\ \A i \in 1 .. Len(s) : t[i] = s[i]
  <2> HIDE DEF s, e
  <2> QED BY <1>1 DEF Last
<1>8. Len(s) \in Nat /\ (Len(s) # 0 => s # <<>>) BY <1>1
<1>9. \A i \in 1 .. Len(t) : t[i].final \in {None, t[i].actual}
  <2>1. \A i \in 1 .. Len(s) : s[i].final \in {None, s[i].actual} BY DEF SoleOf
  <2> HIDE DEF s, e, t
  <2> QED BY <1>5, <1>7, <1>8, <2>1
<1>10. \A i \in 2 .. Len(t) : t[i].initial \in {None, t[i - 1].actual}
  <2>1. \A i \in 2 .. Len(s) : s[i].initial \in {None, s[i - 1].actual} BY DEF SoleOf
  <2> HIDE DEF s, e, t
  <2>2. SUFFICES ASSUME NEW i \in 2 .. Len(t)
                 PROVE  t[i].initial \in {None, t[i - 1].actual}
        OBVIOUS
  <2>3. CASE i = Len(s) + 1
    <3>1. i - 1 = Len(s) /\ i - 1 \in 1 .. Len(s) /\ Len(s) # 0 BY <1>8, <2>3
    <3>2. t[i] = e /\ t[i - 1] = s[Len(s)] BY <1>7, <2>3, <3>1
    <3> QED BY <1>6, <1>8, <3>1, <3>2
  <2>4. CASE i # Len(s) + 1
    <3>1. i \in 2 .. Len(s) /\ i \in 1 .. Len(s) /\ i - 1 \in 1 .. Len(s)
          BY <1>7, <1>8, <2>4
    <3> QED BY <1>7, <2>1, <3>1
  <2> QED BY <2>3, <2>4
<1> QED BY <1>2, <1>3, <1>4, <1>7, <1>9, <1>10 DEF SoleOf

(* The invariant after a step that keeps its account.                      *)
LEMMA Accounted ==
    ASSUME ModelAssumption, IInv, NEW c \in Controller, pc[c] # "stopped",
           Goes(c) \/ Ends(c) \/ (\E how : Completes(c, how)),
           Account(c), SlotInv', Typed', Standing(c), Settles(c)
    PROVE  IInv'
<1>1. TypeOK /\ RunInv /\ SoleInv BY DEF IInv
<1>2. Moves(c) BY DEF Goes, Ends, Completes
<1>3. Settled' \in Rank BY SettledIsRank
<1>4. TypeOK' BY <1>1, <1>2, <1>3, AccountTyped DEF Moves, TypeOK, Typed
<1>5. Settled' = Settled \/ c \in acted BY DEF Settles
<1>6. ASSUME NEW d \in Controller \ Guarded
      PROVE  RunOf(d)' /\ (acted' \subseteq {d} => SoleOf(d)')
  <2>1. CASE d # c
    <3>1. seen'[d] = seen[d] /\ log'[d] = log[d] /\ evidence'[d] = evidence[d]
          BY <1>1, <2>1 DEF Account, Record, Settle, TypeOK
    <3> QED BY <1>1, <1>2, <1>5, <2>1, <3>1, OthersKept
  <2>2. CASE d = c
    <3>1. pc'[c] # "stopped" => UNCHANGED stop BY DEF Goes, Ends, Completes
    <3>2. RunOf(c)' BY <1>1, <2>2, <3>1, OwnRun
    <3>3. ASSUME acted' \subseteq {c} PROVE SoleOf(c)'
      <4>1. SoleOf(c) BY <1>1, <2>2, <3>3 DEF Standing, SoleInv
      <4>2. CASE Goes(c) \/ Ends(c)
        <5>1. UNCHANGED log BY <4>2 DEF Goes, Ends, Account, Record
        <5>2. Settled' = Settled BY <4>2 DEF Settles, Goes, Ends, Completes
        <5>3. seen'[c] = seen[c] \/ seen'[c] = Unseen
              BY <1>1 DEF Account, Settle, TypeOK
        <5> QED BY <1>1, <2>2, <4>1, <5>1, <5>2, <5>3, SoleGoes
      <4>3. CASE \E how : Completes(c, how)
            BY <1>1, <1>3, <2>2, <4>1, <4>3, SoleCompletes
      <4> QED BY <4>2, <4>3
    <3> QED BY <2>2, <3>2, <3>3
  <2> QED BY <2>1, <2>2
<1> QED BY <1>4, <1>6 DEF IInv, RunInv, SoleInv

-----------------------------------------------------------------------------
(* Observation, planning and validation.                                   *)

(* A step outside of the transaction that keeps its account.               *)
LEMMA QuietAccounted ==
    ASSUME ModelAssumption, IInv, NEW c \in Controller, pc[c] # "stopped",
           \/ Goes(c) \/ Ends(c)
           \/ \E how : how # "committed" /\ Completes(c, how),
           ~Active(c), ~Active(c)', Targeting(c)' => target'[c] \in Rank,
           UNCHANGED <<modelVars, ghostVars>>, Typed', Account(c)
    PROVE  IInv'
<1>1. TypeOK /\ SlotInv BY DEF IInv
<1>2. Moves(c) BY DEF Goes, Ends, Completes
<1>3. SlotInv' BY <1>1, <1>2, OutsideSlot
<1>4. Standing(c) /\ Settled' = Settled BY <1>1, QuietStands
<1>5. ~Completes(c, "committed") BY DEF Goes, Ends, Completes
<1>6. Settles(c) BY <1>4, <1>5 DEF Settles
<1> QED BY <1>3, <1>4, <1>6, Accounted

(* A step of a guarded controller, whose account is no run's.              *)
LEMMA GuardedStep ==
    ASSUME IInv, NEW c \in Guarded, c \in Controller, Moves(c),
           UNCHANGED <<modelVars, ghostVars>>, ~Active(c), ~Active(c)', ~Targeting(c)',
           \A d \in Controller \ {c} :
              seen'[d] = seen[d] /\ log'[d] = log[d] /\ evidence'[d] = evidence[d],
           TypeOK'
    PROVE  IInv'
<1>1. TypeOK /\ SlotInv /\ RunInv /\ SoleInv BY DEF IInv
<1>2. SlotInv' BY <1>1, OutsideSlot
<1>3. Standing(c) /\ Settled' = Settled BY <1>1, QuietStands
<1>4. ASSUME NEW d \in Controller \ Guarded
      PROVE  RunOf(d)' /\ (acted' \subseteq {d} => SoleOf(d)')
  <2>1. d # c OBVIOUS
  <2> QED BY <1>1, <1>3, <2>1, OthersKept
<1> QED BY <1>2, <1>4 DEF IInv, RunInv, SoleInv

(* Types that a quiet step keeps.                                          *)
LEMMA QuietTyped ==
    ASSUME TypeOK, UNCHANGED <<modelVars, ghostVars, epoch, generation>>
    PROVE  Typed'
BY DEF TypeOK, Typed, modelVars, ghostVars

(* A plan is a published profile, or the cycle is over.                    *)
LEMMA PlanMoves ==
    ASSUME ModelAssumption, TypeOK, NEW c \in Controller, NEW basis \in Forecasts,
           PlanFrom(c, basis)
    PROVE  /\ Goes(c) \/ Completes(c, "planned") \/ Completes(c, "noCandidate")
           /\ ~Active(c)' /\ (Targeting(c)' => target'[c] \in Rank)
<1>1. ControlTypeOK BY DEF TypeOK
<1>2. CASE CompleteCycle(c, "planned") \/ CompleteCycle(c, "noCandidate")
  <2>1. Completes(c, "planned") \/ Completes(c, "noCandidate")
        BY <1>1, <1>2, CompleteMoves DEF CycleResult
  <2>2. pc'[c] = "between" BY <2>1 DEF Completes
  <2> QED BY <2>1, <2>2 DEF Active, Acting, Targeting
<1>3. CASE /\ Proposal(basis) # None
           /\ pc' = [pc EXCEPT ![c] = "validate"]
           /\ target' = [target EXCEPT ![c] = Proposal(basis)]
           /\ UNCHANGED <<config, cycles, result, stop, cancelled>>
  <2>1. Proposal(basis) \in Rank BY <1>3 DEF Proposal, Forecasts, ModelAssumption
  <2>2. Proposal(basis) \in Candidate BY <2>1 DEF ModelAssumption
  <2>3. Goes(c) /\ pc'[c] = "validate" /\ target'[c] = Proposal(basis)
        BY <1>1, <1>3, <2>2, PlanGoes
  <2> QED BY <2>1, <2>3 DEF Active, Acting
<1> QED BY <1>2, <1>3 DEF PlanFrom

(* The steps of a loop around its cycles.                                  *)
LEMMA LoopInv ==
    ASSUME ModelAssumption, IInv, NEW c \in Controller, StartLoop(c) \/ Continue(c)
    PROVE  IInv'
<1>1. TypeOK /\ ControlTypeOK BY DEF IInv, TypeOK
<1>2. /\ pc[c] \in {"start", "between"} /\ pc'[c] \in {"stopped", "top"}
      /\ Goes(c) \/ Ends(c)
      BY <1>1, StartMoves, BetweenMoves DEF StartLoop, Continue
<1>3. UNCHANGED <<modelVars, ghostVars, epoch, generation>> /\ Account(c)
      BY DEF StartLoop, Continue, Quiet
<1>4. Typed' BY <1>1, <1>3, QuietTyped
<1>5. ~Active(c) /\ ~Active(c)' /\ ~Targeting(c)'
      BY <1>2 DEF Active, Acting, Targeting
<1> QED BY <1>2, <1>3, <1>4, <1>5, QuietAccounted

(* An observation that a lone run makes is of the settled profile: had the *)
(* run left the slot behind, it would have ended.                          *)
LEMMA ObserveInv ==
    ASSUME ModelAssumption, IInv, NEW c \in Controller, Observe(c)
    PROVE  IInv'
<1>1. TypeOK /\ ControlTypeOK /\ SlotInv /\ RunInv /\ SoleInv BY DEF IInv, TypeOK
<1>2. /\ Moves(c) /\ pc[c] = "top" /\ pc'[c] \in {"stopped", "observe"}
      /\ IF cancelled[c] THEN Ends(c) ELSE Goes(c)
      BY <1>1, BeginMoves DEF Observe
<1>3. UNCHANGED <<modelVars, ghostVars, epoch, generation>> BY DEF Observe, Quiet
<1>4. Typed' BY <1>1, <1>3, QuietTyped
<1>5. ~Active(c) /\ ~Active(c)' /\ ~Targeting(c)'
      BY <1>2 DEF Active, Acting, Targeting
<1>6. CASE cancelled[c]
  <2>1. Account(c) BY <1>6 DEF Observe
  <2> QED BY <1>2, <1>3, <1>4, <1>5, <1>6, <2>1, QuietAccounted
<1>7. CASE ~cancelled[c]
  <2>1. PICK r \in {rank, None} \cap (Rank \cup {None}), l \in Observable(c) :
           seen' = [seen EXCEPT ![c] = [rank |-> r, load |-> l]]
        BY <1>7 DEF Observe
  <2>2. UNCHANGED <<log, evidence>> BY <1>7 DEF Observe
  <2>3. l \in Load \cup {None} BY DEF Observable
  <2>4. TypeOK' BY <1>1, <1>2, <1>4, <2>1, <2>2, <2>3 DEF TypeOK, Typed, Moves
  <2>5. SlotInv' BY <1>1, <1>2, <1>3, <1>5, OutsideSlot
  <2>6. Standing(c) /\ Settled' = Settled BY <1>1, <1>3, QuietStands
  <2>7. ASSUME NEW d \in Controller \ Guarded
        PROVE  RunOf(d)' /\ (acted' \subseteq {d} => SoleOf(d)')
    <3>1. CASE d # c
      <4>1. seen'[d] = seen[d] BY <1>1, <2>1, <3>1 DEF TypeOK
      <4> QED BY <1>1, <1>2, <2>2, <2>6, <3>1, <4>1, OthersKept
    <3>2. CASE d = c
      <4>1. evidence[c] = "none" /\ stop[c] = "running" /\ ~(wedged /\ owner = c)
            BY <1>1, <1>2, <3>2 DEF RunInv, RunOf
      <4>2. UNCHANGED <<wedged, owner, acted, rank, prepared>>
            BY <1>3 DEF modelVars, ghostVars
      <4>3. RunOf(c)' BY <1>2, <1>7, <2>2, <4>1, <4>2 DEF RunOf, Goes
      <4>4. ASSUME acted' \subseteq {c} PROVE SoleOf(c)'
        <5>1. SoleOf(c) BY <1>1, <3>2, <4>2, <4>4 DEF SoleInv
        <5>2. prepared = None
          <6>1. SUFFICES ASSUME prepared # None PROVE FALSE OBVIOUS
          <6>2. owner = c BY <1>1, <4>2, <4>4, <6>1 DEF SlotInv
          <6> QED BY <1>1, <1>5, <4>1, <6>1, <6>2 DEF SlotInv
        <5>3. Settled = rank BY <5>2 DEF Settled
        <5>4. seen'[c].rank \in {None, Settled}
          <6>1. seen'[c] = [rank |-> r, load |-> l] BY <1>1, <2>1 DEF TypeOK
          <6> QED BY <5>3, <6>1
        <5> QED BY <2>2, <2>6, <5>1, <5>4 DEF SoleOf
      <4> QED BY <3>2, <4>3, <4>4
    <3> QED BY <3>1, <3>2
  <2> QED BY <2>4, <2>5, <2>7 DEF IInv, RunInv, SoleInv
<1> QED BY <1>6, <1>7

(* A run plans from a forecast.                                            *)
LEMMA ForecastInv ==
    ASSUME ModelAssumption, IInv, NEW c \in Controller, ForecastAndPlan(c)
    PROVE  IInv'
<1>1. TypeOK /\ ControlTypeOK BY DEF IInv, TypeOK
<1>2. UNCHANGED <<modelVars, ghostVars, epoch, generation>> /\ Account(c)
      BY DEF ForecastAndPlan, Quiet
<1>3. pc[c] = "observe" /\ ~Active(c) BY DEF ForecastAndPlan, Active, Acting
<1>4. Typed' BY <1>1, <1>2, QuietTyped
<1>5. /\ \/ Goes(c) \/ Ends(c)
         \/ \E how : how # "committed" /\ Completes(c, how)
      /\ ~Active(c)' /\ (Targeting(c)' => target'[c] \in Rank)
  <2>1. CASE CompleteCycle(c, "observed")
    <3>1. Completes(c, "observed") /\ pc'[c] = "between"
          BY <1>1, <2>1, CompleteMoves DEF CycleResult
    <3> QED BY <3>1 DEF Active, Acting, Targeting
  <2>2. CASE CycleError(c)
    <3>1. Ends(c) /\ pc'[c] = "stopped" BY <1>1, <2>2, ErrorMoves
    <3> QED BY <3>1 DEF Active, Acting, Targeting
  <2>3. CASE \E basis \in Forecasts : PlanFrom(c, basis) BY <1>1, <2>3, PlanMoves
  <2> QED BY <2>1, <2>2, <2>3 DEF ForecastAndPlan
<1> QED BY <1>2, <1>3, <1>4, <1>5, QuietAccounted

(* A guarded call plans from what it observed, or is blocked.              *)
LEMMA GuardInv ==
    ASSUME ModelAssumption, IInv, NEW c \in Controller, GuardAndPlan(c)
    PROVE  IInv'
<1>1. TypeOK /\ ControlTypeOK BY DEF IInv, TypeOK
<1>2. UNCHANGED <<modelVars, ghostVars, generation>> BY DEF GuardAndPlan
<1>3. pc[c] = "observe" /\ ~Active(c) /\ c \in Guarded
      BY DEF GuardAndPlan, Active, Acting
<1>4. CASE Exhausted(c)
  <2>1. CycleError(c) /\ UNCHANGED epoch /\ Account(c) BY <1>4 DEF GuardAndPlan
  <2>2. Ends(c) /\ pc'[c] = "stopped" BY <1>1, <2>1, ErrorMoves
  <2>3. ~Active(c)' /\ ~Targeting(c)' BY <2>2 DEF Active, Acting, Targeting
  <2>4. Typed' BY <1>1, <1>2, <2>1, QuietTyped
  <2> QED BY <1>2, <1>3, <2>1, <2>2, <2>3, <2>4, QuietAccounted
<1>5. CASE ~Exhausted(c)
  <2>1. epoch' = [epoch EXCEPT ![c] = @ + 1] BY <1>5 DEF GuardAndPlan
  <2>2. epoch' \in [Controller -> 1 .. MaxEpoch]
    <3>1. epoch[c] \in 1 .. MaxEpoch /\ epoch[c] # MaxEpoch
          BY <1>1, <1>5 DEF Exhausted, TypeOK
    <3>2. epoch[c] + 1 \in 1 .. MaxEpoch BY <3>1 DEF ModelAssumption
    <3> QED BY <1>1, <2>1, <3>2 DEF TypeOK
  <2>3. Typed' BY <1>1, <1>2, <2>2 DEF TypeOK, Typed, modelVars, ghostVars
  <2>4. CASE PlanFrom(c, seen[c]) /\ Account(c)
    <3>1. seen[c] \in Forecasts BY <1>1 DEF TypeOK, Forecasts
    <3>2. /\ Goes(c) \/ Completes(c, "planned") \/ Completes(c, "noCandidate")
          /\ ~Active(c)' /\ (Targeting(c)' => target'[c] \in Rank)
          BY <1>1, <2>4, <3>1, PlanMoves
    <3> QED BY <1>2, <1>3, <2>3, <2>4, <3>2, QuietAccounted
  <2>5. CASE /\ CompleteCycle(c, "rejected") /\ Settle(c) /\ UNCHANGED log
             /\ evidence' = [evidence EXCEPT ![c] = "complete"]
    <3>1. Moves(c) /\ pc'[c] = "between" BY <1>1, <2>5, CompleteMoves DEF CycleResult
    <3>2. ~Active(c)' /\ ~Targeting(c)' BY <3>1 DEF Active, Acting, Targeting
    <3>3. \A d \in Controller \ {c} :
             seen'[d] = seen[d] /\ log'[d] = log[d] /\ evidence'[d] = evidence[d]
          BY <1>1, <2>5 DEF Settle, TypeOK
    <3>4. TypeOK'
      <4>1. Unseen \in [rank : Rank \cup {None}, load : Load \cup {None}] BY DEF Unseen
      <4>2. seen' \in [Controller -> [rank : Rank \cup {None}, load : Load \cup {None}]]
            BY <1>1, <2>5, <4>1 DEF Settle, TypeOK
      <4>3. evidence' \in [Controller -> {"none", "due", "complete", "failed"}]
            BY <1>1, <2>5 DEF TypeOK
      <4> QED BY <1>1, <2>3, <2>5, <3>1, <4>2, <4>3 DEF TypeOK, Typed, Moves
    <3> QED BY <1>2, <1>3, <3>1, <3>2, <3>3, <3>4, GuardedStep
  <2> QED BY <1>5, <2>4, <2>5 DEF GuardAndPlan
<1> QED BY <1>4, <1>5

(* Validation keeps the target.                                            *)
LEMMA ValidateInv ==
    ASSUME ModelAssumption, IInv, NEW c \in Controller, Validate(c)
    PROVE  IInv'
<1>1. TypeOK /\ ControlTypeOK /\ SlotInv BY DEF IInv, TypeOK
<1>2. UNCHANGED <<modelVars, ghostVars, epoch, generation>> /\ Account(c)
      BY DEF Validate, Quiet
<1>3. pc[c] = "validate" /\ ~Active(c) /\ Targeting(c)
      BY DEF Validate, Active, Acting, Targeting
<1>4. Typed' BY <1>1, <1>2, QuietTyped
<1>5. /\ pc'[c] \in {"stopped", "between", "prepare"}
      /\ pc'[c] = "prepare" => target' = target
      /\ Goes(c) \/ Ends(c) \/ Completes(c, "rejected") \/ Completes(c, "dryRun")
      BY <1>1, ValidateMoves DEF Validate
<1>6. ~Active(c)' BY <1>5 DEF Active, Acting
<1>7. Targeting(c)' => target'[c] \in Rank
      BY <1>1, <1>3, <1>5, <1>6 DEF Targeting, SlotInv
<1> QED BY <1>2, <1>3, <1>4, <1>5, <1>6, <1>7, QuietAccounted

-----------------------------------------------------------------------------
(* The transaction.                                                        *)

(* prepare takes the free slot, or ends the run.                           *)
LEMMA PrepareInv ==
    ASSUME ModelAssumption, IInv, NEW c \in Controller, Prepare(c)
    PROVE  IInv'
<1>1. TypeOK /\ ControlTypeOK /\ SlotInv BY DEF IInv, TypeOK
<1>2. /\ pc[c] = "prepare" /\ ~Active(c) /\ Account(c)
      /\ UNCHANGED <<rank, wedged, moves, epoch, generation>>
      BY DEF Prepare, Quiet, Active, Acting
<1>3. CASE /\ prepared = None /\ Acceptable(target[c])
           /\ prepared' = [previous |-> rank, target |-> target[c]]
           /\ owner' = c /\ acted' = acted \cup {c} /\ AfterPrepare(c, "ok")
  <2>1. Goes(c) /\ Moves(c) /\ pc'[c] = "actuate" /\ target' = target
        BY <1>1, <1>3, GotoGoes DEF AfterPrepare, Step, Goes
  <2>2. SlotInv' /\ prepared' \in Transaction /\ Settled' = Settled
        BY <1>1, <1>2, <1>3, <2>1, TakeSlot
  <2>3. Typed' BY <1>1, <1>2, <1>3, <2>2 DEF TypeOK, Typed
  <2>4. ~wedged' BY <1>1, <1>2, <1>3 DEF SlotInv
  <2>5. Standing(c) BY <1>3, <2>4 DEF Standing
  <2>6. Settles(c) BY <2>1, <2>2 DEF Settles, Goes, Completes
  <2> QED BY <1>2, <2>1, <2>2, <2>3, <2>5, <2>6, Accounted
<1>4. CASE AfterPrepare(c, "error") /\ UNCHANGED <<prepared, owner, acted>>
  <2>1. Ends(c) /\ pc'[c] = "stopped" BY <1>1, <1>4, ErrorMoves DEF AfterPrepare
  <2>2. ~Active(c)' /\ ~Targeting(c)' BY <2>1 DEF Active, Acting, Targeting
  <2>3. UNCHANGED <<modelVars, ghostVars, epoch, generation>>
        BY <1>2, <1>4 DEF modelVars, ghostVars
  <2>4. Typed' BY <1>1, <2>3, QuietTyped
  <2> QED BY <1>2, <2>1, <2>2, <2>3, <2>4, QuietAccounted
<1> QED BY <1>3, <1>4 DEF Prepare

(* Within the transaction the settled profile is the one to restore.       *)
LEMMA InsideInv ==
    ASSUME ModelAssumption, IInv, NEW c \in Controller, Goes(c), target' = target,
           Active(c), Active(c)', UNCHANGED <<prepared, ghostVars, epoch, generation>>,
           rank' \in Rank \cup {Broken}, Account(c)
    PROVE  IInv'
<1>1. TypeOK /\ SlotInv BY DEF IInv
<1>2. pc[c] # "stopped" /\ Moves(c) BY DEF Active, Acting, Goes
<1>3. SlotInv' /\ prepared # None BY <1>1, <1>2, InsideSlot
<1>4. Settled' = Settled BY <1>3 DEF Settled
<1>5. Settles(c) BY <1>4 DEF Settles, Goes, Completes
<1>6. Typed' BY <1>1 DEF TypeOK, Typed, ghostVars
<1>7. Standing(c) BY DEF Standing, ghostVars
<1> QED BY <1>2, <1>3, <1>5, <1>6, <1>7, Accounted

(* actuate and verify stay within the transaction.                         *)
LEMMA ActuateInv ==
    ASSUME ModelAssumption, IInv, NEW c \in Controller, Actuate(c) \/ Verify(c)
    PROVE  IInv'
<1>1. TypeOK /\ ControlTypeOK /\ SlotInv BY DEF IInv, TypeOK
<1>2. Active(c) /\ target[c] \in Rank /\ rank \in Rank \cup {Broken}
      BY <1>1 DEF Actuate, Verify, Active, Acting, SlotInv, Targeting, TypeOK
<1>3. PICK s \in {"verify", "commit", "rollback"} : Goto(c, s)
      BY DEF Actuate, Verify, AfterActuate, AfterVerify
<1>4. Goes(c) /\ pc'[c] = s /\ target' = target BY <1>1, <1>3, GotoGoes DEF Step
<1>5. Active(c)' BY <1>4 DEF Active, Acting
<1>6. rank' \in Rank \cup {Broken} BY <1>2 DEF Actuate, Verify, modelVars
<1>7. Account(c) /\ UNCHANGED <<prepared, ghostVars, epoch, generation>>
      BY DEF Actuate, Verify, Quiet, modelVars
<1> QED BY <1>2, <1>4, <1>5, <1>6, <1>7, InsideInv

(* commit settles the target.                                              *)
LEMMA CommitInv ==
    ASSUME ModelAssumption, IInv, NEW c \in Controller, Commit(c)
    PROVE  IInv'
<1>1. TypeOK /\ ControlTypeOK /\ SlotInv BY DEF IInv, TypeOK
<1>2. /\ pc[c] = "commit" /\ Active(c) /\ target[c] \in Rank /\ Account(c)
      /\ UNCHANGED <<rank, owner, acted, wedged, epoch, generation>>
      BY <1>1 DEF Commit, Active, Acting, SlotInv, Targeting, Quiet
<1>3. CASE /\ Matches(c) /\ rank = target[c] /\ prepared' = None
           /\ moves' = [moves EXCEPT ![c] = IF prepared.previous = rank THEN @ ELSE @ + 1]
           /\ AfterCommit(c, "ok")
  <2>1. Completes(c, "committed") /\ Moves(c) /\ pc'[c] = "between"
        BY <1>1, <1>3, CompleteMoves DEF AfterCommit, CycleResult
  <2>2. ~Targeting(c)' BY <2>1 DEF Targeting, Active, Acting
  <2>3. SlotInv' BY <1>1, <1>2, <1>3, <2>1, <2>2, FreeSlot
  <2>4. Settled' = target[c] BY <1>2, <1>3 DEF Settled
  <2>5. c \in acted BY <1>1, <1>2 DEF SlotInv, Matches
  <2>6. Settles(c) BY <2>1, <2>4, <2>5 DEF Settles
  <2>7. Typed' BY <1>1, <1>2, <1>3 DEF TypeOK, Typed
  <2>8. Standing(c) BY <1>2 DEF Standing
  <2> QED BY <1>2, <2>1, <2>3, <2>6, <2>7, <2>8, Accounted
<1>4. CASE AfterCommit(c, "error") /\ UNCHANGED <<prepared, moves>>
  <2>1. Goes(c) /\ pc'[c] = "rollback" /\ target' = target
        BY <1>1, <1>4, GotoGoes DEF AfterCommit, Step
  <2>2. Active(c)' BY <2>1 DEF Active, Acting
  <2>3. rank' \in Rank \cup {Broken} BY <1>1, <1>2 DEF TypeOK
  <2>4. UNCHANGED <<prepared, ghostVars, epoch, generation>>
        BY <1>2, <1>4 DEF ghostVars
  <2> QED BY <1>2, <2>1, <2>2, <2>3, <2>4, InsideInv
<1> QED BY <1>3, <1>4 DEF Commit

(* rollback restores the settled profile, or leaves the slot behind.       *)
LEMMA RollbackInv ==
    ASSUME ModelAssumption, IInv, NEW c \in Controller, Rollback(c)
    PROVE  IInv'
<1>1. TypeOK /\ ControlTypeOK /\ SlotInv BY DEF IInv, TypeOK
<1>2. /\ pc[c] = "rollback" /\ Active(c) /\ Account(c) /\ Matches(c)
      /\ UNCHANGED <<owner, acted, moves, epoch, generation>>
      BY <1>1 DEF Rollback, Active, Acting, SlotInv, Quiet
<1>3. prepared # None /\ prepared.previous \in Rank
      BY <1>1, <1>2 DEF Matches, TypeOK, Transaction
<1>4. CASE /\ rank' = prepared.previous /\ prepared' = None
           /\ AfterRollback(c, "ok") /\ UNCHANGED wedged
  <2>1. Completes(c, "rolledBack") /\ Moves(c) /\ pc'[c] = "between"
        BY <1>1, <1>4, CompleteMoves DEF AfterRollback, CycleResult
  <2>2. ~Targeting(c)' BY <2>1 DEF Targeting, Active, Acting
  <2>3. SlotInv' BY <1>1, <1>2, <1>3, <1>4, <2>1, <2>2, FreeSlot
  <2>4. Settled' = Settled BY <1>3, <1>4 DEF Settled
  <2>5. Settles(c) BY <2>1, <2>4 DEF Settles, Completes
  <2>6. Typed' BY <1>1, <1>2, <1>3, <1>4 DEF TypeOK, Typed
  <2>7. Standing(c) BY <1>2, <1>4 DEF Standing
  <2> QED BY <1>2, <2>1, <2>3, <2>5, <2>6, <2>7, Accounted
<1>5. CASE /\ rank' \in {rank, prepared.previous, Broken} /\ wedged' = TRUE
           /\ UNCHANGED prepared /\ AfterRollback(c, "error")
  <2>1. Ends(c) /\ Moves(c) /\ pc'[c] = "stopped" /\ stop'[c] = "error"
        BY <1>1, <1>5, ErrorMoves DEF AfterRollback
  <2>2. ~Targeting(c)' BY <2>1 DEF Targeting, Active, Acting
  <2>3. SlotInv' /\ owner = c BY <1>1, <1>2, <1>5, <2>1, <2>2, LeaveSlot
  <2>4. Settled' = Settled BY <1>3, <1>5 DEF Settled
  <2>5. Settles(c) BY <2>1, <2>4 DEF Settles, Ends, Completes
  <2>6. Typed' BY <1>1, <1>2, <1>3, <1>5 DEF TypeOK, Typed
  <2>7. Standing(c) BY <1>2, <2>1, <2>3 DEF Standing
  <2> QED BY <1>2, <2>1, <2>3, <2>5, <2>6, <2>7, Accounted
<1> QED BY <1>2, <1>4, <1>5 DEF Rollback

-----------------------------------------------------------------------------
(* The end of a cycle and of a run.                                        *)

(* The report of a guarded call.                                           *)
LEMMA CaptureInv ==
    ASSUME ModelAssumption, IInv, NEW c \in Controller, CaptureReport(c)
    PROVE  IInv'
<1>1. TypeOK /\ ControlTypeOK BY DEF IInv, TypeOK
<1>2. /\ c \in Guarded /\ pc[c] = "between"
      /\ UNCHANGED <<modelVars, seen, epoch, ghostVars>>
      BY DEF CaptureReport
<1>3. Moves(c) /\ pc'[c] \in {"between", "stopped"}
      /\ generation' \in [Controller -> Nat]
  <2>1. CASE UNCHANGED <<controlVars>> /\ generation' = [generation EXCEPT ![c] =
                IF Last(log[c]).outcome = "committed" /\ Last(log[c]).initial # rank
                THEN @ + 1 ELSE @]
    <3>1. ControlTypeOK' BY <1>1, <2>1 DEF controlVars, ControlTypeOK
    <3> QED BY <1>1, <1>2, <2>1, <3>1 DEF Moves, controlVars, TypeOK
  <2>2. CASE Stop(c, "error") /\ UNCHANGED <<result, generation>>
        BY <1>1, <2>2, StopMoves DEF StopReason, TypeOK
  <2> QED BY <2>1, <2>2 DEF CaptureReport, CaptureFailed
<1>4. PICK how \in {"complete", "failed"} : Reported(c, how)
      BY DEF CaptureReport, CaptureFailed
<1>5. \A d \in Controller \ {c} :
         seen'[d] = seen[d] /\ log'[d] = log[d] /\ evidence'[d] = evidence[d]
      BY <1>1, <1>2, <1>4 DEF Reported, TypeOK
<1>6. TypeOK'
  <2>1. log' \in [Controller -> Seq(Entry)] BY <1>1, <1>4 DEF Reported, TypeOK
  <2>2. evidence' \in [Controller -> {"none", "due", "complete", "failed"}]
        BY <1>1, <1>4 DEF Reported, TypeOK
  <2> QED BY <1>1, <1>2, <1>3, <2>1, <2>2 DEF TypeOK, Moves, modelVars, ghostVars
<1>7. ~Active(c) /\ ~Active(c)' /\ ~Targeting(c)'
      BY <1>2, <1>3 DEF Active, Acting, Targeting
<1> QED BY <1>2, <1>3, <1>5, <1>6, <1>7, GuardedStep

(* A guarded controller that is called again.                              *)
LEMMA CallAgainInv ==
    ASSUME IInv, NEW c \in Controller, CallAgain(c)
    PROVE  IInv'
<1>1. TypeOK /\ ControlTypeOK BY DEF IInv, TypeOK
<1>2. c \in Guarded /\ pc[c] = "stopped" /\ pc'[c] = "top"
      BY <1>1 DEF CallAgain, ControlTypeOK
<1>3. ControlTypeOK' BY <1>1 DEF CallAgain, ControlTypeOK, Step, StopReason
<1>4. Moves(c) BY <1>1, <1>3 DEF Moves, CallAgain, ControlTypeOK
<1>5. UNCHANGED <<modelVars, seen, reportVars, ghostVars>> BY DEF CallAgain
<1>6. TypeOK' BY <1>1, <1>3, <1>5 DEF TypeOK, modelVars, reportVars, ghostVars
<1>7. \A d \in Controller \ {c} :
         seen'[d] = seen[d] /\ log'[d] = log[d] /\ evidence'[d] = evidence[d]
      BY <1>5 DEF reportVars
<1>8. ~Active(c) /\ ~Active(c)' /\ ~Targeting(c)' BY <1>2 DEF Active, Acting, Targeting
<1> QED BY <1>2, <1>4, <1>5, <1>6, <1>7, <1>8, GuardedStep

(* The evidence of a run is completed only when its artifacts exist, and   *)
(* never by a run that left the slot behind: its evidence has failed.      *)
LEMMA ReconcileInv ==
    ASSUME IInv, NEW c \in Controller, Reconcile(c)
    PROVE  IInv'
<1>1. TypeOK /\ ControlTypeOK /\ SlotInv /\ RunInv /\ SoleInv BY DEF IInv, TypeOK
<1>2. UNCHANGED <<controlVars, modelVars, seen, log, epoch, generation, ghostVars>>
      BY DEF Reconcile
<1>3. PICK how \in {"complete", "failed"} :
         /\ evidence' = [evidence EXCEPT ![c] = how]
         /\ how = "complete" => Representable(c)
      BY DEF Reconcile
<1>4. evidence' \in [Controller -> {"none", "due", "complete", "failed"}]
      /\ evidence'[c] = how /\ \A d \in Controller \ {c} : evidence'[d] = evidence[d]
      BY <1>1, <1>3 DEF TypeOK
<1>5. TypeOK' BY <1>1, <1>2, <1>4
      DEF TypeOK, ControlTypeOK, controlVars, modelVars, ghostVars
<1>6. SlotInv' BY <1>1, <1>2
      DEF SlotInv, Active, Targeting, Matches, controlVars, modelVars, ghostVars
<1>7. UNCHANGED <<pc, stop, owner, acted, wedged>> /\ Settled' = Settled
      BY <1>2 DEF controlVars, ghostVars, modelVars, Settled
<1>8. pc[c] = "stopped" /\ c \notin Guarded /\ evidence[c] = "due" BY DEF Reconcile
<1>9. ~(wedged /\ owner = c) BY <1>1, <1>8 DEF RunInv, RunOf
<1>10. RunInv'
  <2>1. SUFFICES ASSUME NEW d \in Controller \ Guarded PROVE RunOf(d)' BY DEF RunInv
  <2>2. CASE d = c BY <1>2, <1>3, <1>4, <1>7, <1>8, <1>9, <2>2 DEF RunOf, Representable
  <2>3. CASE d # c BY <1>1, <1>2, <1>4, <1>7, <2>3 DEF RunInv, RunOf, Representable
  <2> QED BY <2>2, <2>3
<1>11. SoleInv' BY <1>1, <1>2, <1>7 DEF SoleInv, SoleOf
<1> QED BY <1>5, <1>6, <1>10, <1>11 DEF IInv

(* A step that raises no more than a token.                                *)
LEMMA TokenInv ==
    ASSUME IInv, UNCHANGED <<config, pc, target, cycles, result, stop>>,
           UNCHANGED <<modelVars, seen, reportVars, ghostVars>>,
           cancelled' \in [Controller -> BOOLEAN]
    PROVE  IInv'
<1>1. UNCHANGED <<rank, prepared, log, evidence, epoch, generation, owner, acted,
                  wedged, moves>>
      BY DEF modelVars, reportVars, ghostVars
<1>2. TypeOK' BY <1>1 DEF IInv, TypeOK, ControlTypeOK
<1>3. SlotInv' BY <1>1 DEF IInv, SlotInv, Active, Targeting, Matches
<1>4. RunInv' BY <1>1 DEF IInv, RunInv, RunOf, Representable
<1>5. Settled' = Settled BY <1>1 DEF Settled
<1>6. SoleInv' BY <1>1, <1>5 DEF IInv, SoleInv, SoleOf
<1> QED BY <1>2, <1>3, <1>4, <1>6 DEF IInv

(* Every step of the loops.                                                *)
LEMMA NextIInv ==
    ASSUME ModelAssumption, IInv, [Next]_vars
    PROVE  IInv'
<1>1. CASE UNCHANGED vars
  <2>1. cancelled' \in [Controller -> BOOLEAN]
        BY <1>1 DEF vars, controlVars, IInv, TypeOK, ControlTypeOK
  <2> QED BY <1>1, <2>1, TokenInv DEF vars, controlVars
<1>2. ASSUME NEW c \in Controller, CancelLoop(c) PROVE IInv'
  <2>1. cancelled' \in [Controller -> BOOLEAN]
        BY <1>2 DEF CancelLoop, Cancel, IInv, TypeOK, ControlTypeOK
  <2> QED BY <1>2, <2>1, TokenInv DEF CancelLoop, Cancel
<1>3. ASSUME NEW c \in Controller, CallAgain(c) PROVE IInv' BY <1>3, CallAgainInv
<1>4. ASSUME NEW c \in Controller, Proceed(c) PROVE IInv'
      BY <1>4, LoopInv, ObserveInv, ForecastInv, GuardInv, ValidateInv, PrepareInv,
         ActuateInv, CommitInv, RollbackInv, CaptureInv, ReconcileInv DEF Proceed
<1> QED BY <1>1, <1>2, <1>3, <1>4 DEF Next

(* Loops that have not started, over a model in a published profile.       *)
LEMMA InitIInv ==
    ASSUME ConfigAssumption, ModelAssumption, Init
    PROVE  IInv
<1>1. ControlTypeOK
      BY DEF Init, ControlInit, ControlTypeOK, Step, CycleResult, StopReason
<1>2. \A c \in Controller : pc[c] = "start" /\ stop[c] = "running"
      BY DEF Init, ControlInit
<1>3. TypeOK
  <2>1. Unseen \in [rank : Rank \cup {None}, load : Load \cup {None}] BY DEF Unseen
  <2>2. seen \in [Controller -> [rank : Rank \cup {None}, load : Load \cup {None}]]
        BY <2>1 DEF Init
  <2>3. epoch \in [Controller -> 1 .. MaxEpoch] BY DEF Init, ModelAssumption
  <2>4. <<>> \in Seq(Entry) OBVIOUS
  <2>5. log \in [Controller -> Seq(Entry)] BY <2>4 DEF Init
  <2>6. /\ evidence \in [Controller -> {"none", "due", "complete", "failed"}]
        /\ generation \in [Controller -> Nat] /\ moves \in [Controller -> Nat]
        BY DEF Init
  <2> QED BY <1>1, <2>2, <2>3, <2>5, <2>6 DEF Init, TypeOK
<1>4. SlotInv BY <1>2 DEF Init, SlotInv, Active, Targeting, Acting
<1>5. RunInv BY <1>2 DEF Init, RunInv, RunOf
<1>6. SoleInv
  <2>1. \A c \in Controller : seen[c].rank = None /\ log[c] = <<>>
        BY DEF Init, Unseen
  <2> QED BY <2>1 DEF SoleInv, SoleOf
<1> QED BY <1>3, <1>4, <1>5, <1>6 DEF IInv

-----------------------------------------------------------------------------
(* The inductive invariant holds of every behaviour.                       *)
THEOREM Invariance == Spec => []IInv
<1>1. Init => IInv BY ConfigAssumption, ModelAssumption, InitIInv
<1>2. IInv /\ [Next]_vars => IInv' BY ModelAssumption, NextIInv
<1> QED BY <1>1, <1>2, PTL DEF Spec

(* Every variable keeps its type.                                          *)
THEOREM TypeCorrect == Spec => []TypeOK
<1>1. IInv => TypeOK BY DEF IInv
<1> QED BY <1>1, Invariance, PTL

(* The shared slot belongs to one transaction at a time, however the loops *)
(* interleave and whatever the backend answers.                            *)
THEOREM SlotIsATransactions == Spec => []SlotFollowsTransaction
<1>1. IInv => SlotFollowsTransaction
      BY DEF IInv, SlotInv, SlotFollowsTransaction, Active
<1> QED BY <1>1, Invariance, PTL

(* The completed evidence of a run that acts alone names the profiles its  *)
(* cycles really began and ended in.                                       *)
THEOREM EvidenceOfASoleRun == Spec => []SoleEvidenceIsTrue
<1>1. ASSUME IInv, NEW c \in Controller \ Guarded, evidence[c] = "complete",
             acted \subseteq {c}, NEW i \in 1 .. Len(log[c])
      PROVE  /\ log[c][i].actual = log[c][i].final
             /\ i > 1 => log[c][i].initial \in {None, log[c][i - 1].final}
  <2>1. Representable(c) /\ SoleOf(c) BY <1>1 DEF IInv, RunInv, RunOf, SoleInv
  <2>2. \A j \in 1 .. Len(log[c]) : log[c][j].actual = log[c][j].final
        BY <2>1 DEF Representable, SoleOf
  <2>3. CASE i > 1
    <3>1. i \in 2 .. Len(log[c]) /\ i - 1 \in 1 .. Len(log[c]) BY <2>3
    <3> QED BY <2>1, <2>2, <3>1 DEF SoleOf
  <2> QED BY <2>2, <2>3
<1>2. IInv => SoleEvidenceIsTrue BY <1>1 DEF SoleEvidenceIsTrue
<1> QED BY <1>2, Invariance, PTL

(* The settled profile moves only by a commit of a switch that the policy  *)
(* allows live, and a model that could not be restored is left alone.      *)
THEOREM OnlyLiveCommitsMove == Spec => MovesAreLiveCommits
<1> DEFINE Moved == /\ <<Settled, Settled'>> \in Live
                    /\ \E c \in Controller :
                          pc[c] = "commit" /\ result'[c] = "committed" /\ target[c] = Settled'
           Held == UNCHANGED <<rank, prepared, moves>>
<1>1. ASSUME IInv, NEW c \in Controller, Prepare(c), ~Held
      PROVE  Settled' = Settled /\ ~wedged
  <2>1. prepared = None /\ Acceptable(target[c]) /\ UNCHANGED rank
        /\ prepared' = [previous |-> rank, target |-> target[c]]
        BY <1>1 DEF Prepare
  <2>2. target[c] \in Rank BY <1>1 DEF IInv, SlotInv, Targeting, Prepare
  <2>3. prepared' \in Transaction
        BY <2>1, <2>2 DEF Acceptable, Published, Transaction
  <2>4. prepared' # None BY <2>3, ModelAssumption DEF Transaction
  <2> QED BY <1>1, <2>1, <2>4 DEF Settled, IInv, SlotInv
<1>2. ASSUME IInv, NEW c \in Controller, Actuate(c)
      PROVE  Settled' = Settled /\ ~wedged
  <2>1. prepared # None /\ ~wedged
        BY <1>2 DEF IInv, SlotInv, Matches, Active, Acting, Actuate
  <2> QED BY <1>2, <2>1 DEF Settled, Actuate
<1>3. ASSUME IInv, NEW c \in Controller, Rollback(c)
      PROVE  Settled' = Settled /\ ~wedged
  <2>1. prepared # None /\ ~wedged /\ Matches(c)
        BY <1>3 DEF IInv, SlotInv, Matches, Active, Acting, Rollback
  <2> QED BY <1>3, <2>1 DEF Settled, Rollback
<1>4. ASSUME IInv, NEW c \in Controller, Commit(c)
      PROVE  (Settled' = Settled \/ Moved) /\ ~wedged
  <2>1. pc[c] = "commit" /\ ~wedged /\ prepared # None /\ prepared.target = target[c]
        /\ <<prepared.previous, prepared.target>> \in Live
        BY <1>4 DEF IInv, SlotInv, Matches, Active, Acting, Commit
  <2>2. CASE prepared' = None /\ rank = target[c] /\ UNCHANGED rank
             /\ CompleteCycle(c, "committed")
    <3>1. Settled = prepared.previous /\ Settled' = target[c]
          BY <2>1, <2>2 DEF Settled
    <3>2. result'[c] = "committed"
          BY <1>4, <2>2 DEF CompleteCycle, IInv, TypeOK, ControlTypeOK
    <3> QED BY <2>1, <3>1, <3>2
  <2>3. CASE UNCHANGED <<rank, prepared>> BY <2>1, <2>3 DEF Settled
  <2> QED BY <1>4, <2>2, <2>3 DEF Commit, AfterCommit
<1>5. ASSUME IInv, [Next]_vars
      PROVE  (Settled' # Settled => Moved) /\ (wedged => Held)
  <2>1. CASE Held BY <2>1 DEF Settled
  <2>2. CASE ~Held
    <3>1. PICK c \in Controller : Prepare(c) \/ Actuate(c) \/ Commit(c) \/ Rollback(c)
      <4>1. Next BY <1>5, <2>2 DEF vars, modelVars, ghostVars
      <4>2. PICK c \in Controller : Proceed(c) \/ CallAgain(c) \/ CancelLoop(c)
            BY <4>1 DEF Next
      <4>3. ~CallAgain(c) /\ ~CancelLoop(c)
            BY <2>2 DEF CallAgain, CancelLoop, modelVars, ghostVars
      <4> QED BY <2>2, <4>2, <4>3 DEF Proceed, StartLoop, Observe, ForecastAndPlan,
             GuardAndPlan, Validate, Verify, CaptureReport, Continue, Reconcile,
             modelVars, ghostVars
    <3>2. (Settled' = Settled \/ Moved) /\ ~wedged
          BY <1>1, <1>2, <1>3, <1>4, <1>5, <2>2, <3>1
    <3> QED BY <3>2
  <2> QED BY <2>1, <2>2
<1>6. IInv /\ [Next]_vars =>
         [(Settled' # Settled => Moved) /\ (wedged => Held)]_vars
      BY <1>5
<1> QED BY <1>6, Invariance, PTL DEF Spec, MovesAreLiveCommits
=============================================================================

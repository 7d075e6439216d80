------------------------------ MODULE Observers ------------------------------
(***************************************************************************)
(* Observation of the host (elastic-runtime observers.rs, observation.rs): *)
(* providers read files of the host one at a time while the host changes   *)
(* under them, a set of providers makes one planning context and one       *)
(* snapshot of what they report, and facts are derived from the two.       *)
(*                                                                         *)
(* The host is a function from files to contents, None where a file cannot *)
(* be read, is too large, or does not parse as far as it is needed:        *)
(*   <<"type", z>>, <<"temp", z>>   a thermal zone: its name, temperature  *)
(*   <<"trips", z>>                 the indices of its trip points         *)
(*   <<"kind", z, i>>, <<"limit", z, i>>   one of them                     *)
(*   <<"power">>                    a direct power channel                 *)
(*   <<"status">>                   the CPUs allowed, as a list of ranges  *)
(*   <<"cgroup">>                   the group the process is in            *)
(*   <<"max", g>>                   its [quota, period], NoQuota if none   *)
(*   <<"pressure", g>>              its [some, full], or of the System     *)
(*   <<"meminfo">>                  [total, available]                     *)
(* A provider is <<"thermal", z>>, <<"power">>, <<"cpu">>, <<"memory">> or *)
(* <<"timing">>; an observation is [source, signal, valid, value, at].     *)
(***************************************************************************)
EXTENDS Facts, FiniteSetsExt, SequencesExt

CONSTANTS
  Unity, MaxCpu, MaxExact, MaxWord, Kibi,
  ObserverSets,        \* sequences of providers
  Hosts, Changes,      \* what the host may be at first; changes, as <<file, content>>
  Evaluators,          \* what is derived from a snapshot
  MaxMoment, MaxChanges   \* bounds: of the clock, and of changes of the host

NoQuota == -1
System == -1

Kind == {"thermal", "power", "cpu", "memory", "timing"}
QuotaText == {None} \cup [quota : Int, period : Nat]

(* Of the files only a quota needs a type.  Nothing keeps a caller from    *)
(* pushing two observers of the CPU environment into one set; no caller in *)
(* the workspace does, and their quota and their flag could then be mixed. *)
ASSUME ObserversAssumption ==
  /\ Unity \in Nat /\ None \notin Int
  /\ \A set \in ObserverSets :
       /\ set \in Seq(Range(set)) /\ \A p \in Range(set) : p[1] \in Kind
       /\ \A i, j \in DOMAIN set : set[i][1] = "cpu" /\ set[j][1] = "cpu" => i = j
  /\ \A h \in Hosts : \A f \in DOMAIN h : f[1] = "max" => h[f] \in QuotaText
  /\ \A c \in Changes : c[1][1] = "max" => c[2] \in QuotaText
  /\ \A ev \in Evaluators : ev.maxAge \in Nat

(* What f says, and g where f says nothing.                                *)
Beside(f, g) ==
  [x \in DOMAIN f \cup DOMAIN g |-> IF x \in DOMAIN f THEN f[x] ELSE g[x]]

-----------------------------------------------------------------------------
(* What a provider reads next, given what it has read: `got` maps reads to *)
(* their contents.  The group is looked up twice, and a pressure file is   *)
(* looked for before it is read.                                           *)

FileOf(r) ==
  CASE r[1] = "cgroup" -> <<"cgroup">>
    [] r[1] = "probe" -> Tail(r)
    [] OTHER -> r

InTurn(reads, got) ==
  LET left == {i \in DOMAIN reads : reads[i] \notin DOMAIN got}
  IN {reads[i] : i \in {i \in left : \A j \in left : i <= j}}

Critical(z, got) ==
  {i \in got[<<"trips", z>>] : <<"kind", z, i>> \in DOMAIN got /\ got[<<"kind", z, i>>] = "critical"}
(* Trip points come in any order; one that is critical is read at once.    *)
ThermalReads(z, got) ==
  LET begun == InTurn(<<<<"type", z>>, <<"temp", z>>, <<"trips", z>>>>, got)
      due == {<<"limit", z, i>> : i \in Critical(z, got)} \ DOMAIN got
  IN IF \E r \in DOMAIN got : got[r] = None THEN {}
     ELSE IF begun # {} THEN begun
     ELSE IF due # {} THEN due
     ELSE {<<"kind", z, i>> : i \in got[<<"trips", z>>]} \ DOMAIN got

Group(n, got) == IF <<"cgroup", n>> \in DOMAIN got THEN got[<<"cgroup", n>>] ELSE None
Found(r, got) == r \in DOMAIN got /\ got[r] = TRUE
CpuReads(got) ==
  LET own == <<"pressure", Group(2, got)>>
      wide == <<"pressure", System>>
      quota == IF Group(1, got) = None THEN <<<<"cgroup", 2>>>>
               ELSE <<<<"max", Group(1, got)>>, <<"cgroup", 2>>>>
      looked == IF Group(2, got) = None THEN <<>> ELSE <<<<"probe">> \o own>>
      pressure == IF Found(<<"probe">> \o own, got) THEN <<own>>
                  ELSE IF Found(<<"probe">> \o wide, got) THEN <<<<"probe">> \o wide, wide>>
                  ELSE <<<<"probe">> \o wide>>
      first == InTurn(<<<<"status">>, <<"cgroup", 1>>>>, got)
      second == InTurn(quota, got)
      third == InTurn(looked, got)
  IN IF first # {} THEN first ELSE IF second # {} THEN second
     ELSE IF third # {} THEN third ELSE InTurn(pressure, got)

NextReads(p, got) ==
  CASE p[1] = "thermal" -> ThermalReads(p[2], got)
    [] p[1] = "power" -> InTurn(<<<<"power">>>>, got)
    [] p[1] = "cpu" -> CpuReads(got)
    [] p[1] = "memory" -> InTurn(<<<<"meminfo">>>>, got)
    [] p[1] = "timing" -> {}

-----------------------------------------------------------------------------
(* What it reports. *)

Reading(signal, value) == [signal |-> signal, valid |-> value # None, value |-> value]

ThermalMargin(z, got) ==
  LET limits == {got[<<"limit", z, i>>] : i \in Critical(z, got)}
  IN IF (\E r \in DOMAIN got : got[r] = None) \/ got[<<"type", z>>] = "" \/ limits = {} THEN None
     ELSE Min(limits) - got[<<"temp", z>>]
PowerWatts(got) == IF got[<<"power">>] = None \/ got[<<"power">>] > MaxExact THEN None ELSE got[<<"power">>]

CpuCount(list) ==
  IF list = None THEN None
  ELSE IF list = <<>> \/ \E s \in Range(list) : s[1] > s[2] \/ s[2] > MaxCpu THEN None
  ELSE Cardinality(UNION {s[1] .. s[2] : s \in Range(list)})
Quota(got) ==
  LET text == IF Group(1, got) = None THEN None ELSE got[<<"max", Group(1, got)>>]
  IN IF text = None \/ text.period = 0 THEN None ELSE text
(* The text of the group's own file when it was found there, and of the    *)
(* system's when it was not.                                               *)
PressureText(got) ==
  LET own == <<"pressure", Group(2, got)>>
      wide == <<"pressure", System>>
  IN IF Found(<<"probe">> \o own, got) THEN got[own]
     ELSE IF Found(<<"probe">> \o wide, got) THEN got[wide] ELSE None
Average(text, class) ==
  IF text = None \/ text[class] = None \/ text[class] \notin 0 .. Unity THEN None ELSE text[class]
CpuReadings(got) ==
  LET quota == Quota(got)
      unlimited == quota # None /\ quota.quota = NoQuota
  IN <<Reading("cpus", CpuCount(got[<<"status">>])),
       Reading("quota", IF quota = None \/ unlimited THEN None
                        ELSE (quota.quota * Unity) \div quota.period),
       Reading("unlimited", IF quota = None THEN None ELSE IF unlimited THEN 1 ELSE 0),
       Reading("some", Average(PressureText(got), "some")),
       Reading("full", Average(PressureText(got), "full"))>>

Bytes(kib) == IF kib = None \/ kib * Kibi > MaxWord THEN None ELSE kib * Kibi
MemoryReadings(text) ==
  LET total == IF text = None THEN None ELSE Bytes(text.total)
      available == IF text = None THEN None ELSE Bytes(text.available)
      used == IF total = None \/ available = None THEN None
              ELSE IF available > total THEN None ELSE total - available
  IN <<Reading("total", total), Reading("available", available), Reading("used", used),
       Reading("utilization", IF used = None THEN None
                              ELSE IF total = 0 THEN None ELSE (used * Unity) \div total)>>

Readings(p, got, now) ==
  CASE p[1] = "thermal" -> <<Reading("margin", ThermalMargin(p[2], got))>>
    [] p[1] = "power" -> <<Reading("power", PowerWatts(got))>>
    [] p[1] = "cpu" -> CpuReadings(got)
    [] p[1] = "memory" -> MemoryReadings(got[<<"meminfo">>])
    [] p[1] = "timing" -> <<Reading("uptime", now)>>

Told(reading, p, at) ==
  [source |-> p, signal |-> reading.signal, valid |-> reading.valid, value |-> reading.value,
   at |-> at]
\* mutant: readings are stamped when they are complete
ReportedLate(p, got, stamp, now) ==
  LET readings == Readings(p, got, stamp)
  IN [i \in DOMAIN readings |-> Told(readings[i], p, now)]
(* Every reading of a provider is stamped with when it was asked.          *)
Reported(p, got, stamp, now) ==
  LET readings == Readings(p, got, stamp)
  IN [i \in DOMAIN readings |-> Told(readings[i], p, stamp)]

ContextOf(observations) ==
  LET valid == {o \in Range(observations) : o.valid}
  IN [s \in {o.signal : o \in valid} |-> (CHOOSE o \in valid : o.signal = s).value]
\* mutant: the last provider of a signal decides it
LastClaims(context, more) == Beside(more, context)
(* The first provider that has a value of a signal decides it.             *)
Claims(context, more) == Beside(context, more)

(* A snapshot answers with the first observation of a signal, valid or not. *)
FirstReported(observations, signal) ==
  LET found == {i \in DOMAIN observations : observations[i].signal = signal}
  IN IF found = {} THEN None ELSE observations[Min(found)]

-----------------------------------------------------------------------------
VARIABLES
  host,       \* the contents of its files
  moment,     \* the clock
  changed,    \* how often the host has changed
  observing,  \* [set, done, stamp, got, took]: providers that have answered, when the next
              \* one was asked, what it has read and when
  snapshot    \* [context, observations, took] of the last call, or None
observerVars == <<host, moment, changed, observing, snapshot>>

Content(f) == IF f \in DOMAIN host THEN host[f] ELSE None
ReadNow(r) == IF r[1] = "probe" THEN Content(FileOf(r)) # None ELSE Content(FileOf(r))

ObserversInit ==
  /\ host \in Hosts
  /\ moment = 0 /\ changed = 0 /\ observing = None /\ snapshot = None

TimePasses ==
  /\ moment < MaxMoment
  /\ moment' = moment + 1
  /\ UNCHANGED <<host, changed, observing, snapshot>>
HostChanges(f, content) ==
  /\ changed < MaxChanges /\ f \in DOMAIN host /\ host[f] # content
  /\ host' = [host EXCEPT ![f] = content]
  /\ changed' = changed + 1
  /\ UNCHANGED <<moment, observing, snapshot>>

Asked(set, done, context, observations, took) ==
  [set |-> set, done |-> done, stamp |-> moment, got |-> <<>>, at |-> <<>>,
   context |-> context, observations |-> observations, took |-> took]
Observe(set) ==
  /\ observing = None
  /\ observing' = Asked(set, 0, <<>>, <<>>, <<>>)
  /\ snapshot' = None
  /\ UNCHANGED <<host, moment, changed>>
Provider == observing.set[observing.done + 1]

ReadFile ==
  /\ observing # None /\ observing.done < Len(observing.set)
  /\ \E r \in NextReads(Provider, observing.got) :
       observing' = [observing EXCEPT !.got = Beside(@, [x \in {r} |-> ReadNow(r)]),
                                      !.at = Beside(@, [x \in {r} |-> moment])]
  /\ UNCHANGED <<host, moment, changed, snapshot>>
Answer ==
  /\ observing # None /\ observing.done < Len(observing.set)
  /\ NextReads(Provider, observing.got) = {}
  /\ LET report == Reported(Provider, observing.got, observing.stamp, moment)
     IN observing' = Asked(observing.set, observing.done + 1,
                           Claims(observing.context, ContextOf(report)),
                           observing.observations \o report,
                           Beside(observing.took, [p \in {Provider} |-> observing.at]))
  /\ UNCHANGED <<host, moment, changed, snapshot>>
TakeSnapshot ==
  /\ observing # None /\ observing.done = Len(observing.set)
  /\ snapshot' = [context |-> observing.context, observations |-> observing.observations,
                  took |-> observing.took]
  /\ observing' = None
  /\ UNCHANGED <<host, moment, changed>>

ObserversNext ==
  \/ TimePasses
  \/ \E c \in Changes : HostChanges(c[1], c[2])
  \/ \E set \in ObserverSets : Observe(set)
  \/ ReadFile \/ Answer \/ TakeSnapshot
ObserversSpec == ObserversInit /\ [][ObserversNext]_observerVars

-----------------------------------------------------------------------------
(* The observations a fact is derived from, as the evaluators see them.    *)
Observed(ev) == [s \in {ev.signal} |-> FirstReported(snapshot.observations, s)]

(* A decided threshold is the comparison of one value of one provider, and *)
(* every file that the provider read for it said so at a moment no further *)
(* back than the predicate allows - although values come from the context  *)
(* and ages from the snapshot, several providers report one signal, and    *)
(* nothing is read in one moment.  A quota is reported or is unlimited.     *)
FactsAreOfTheHost ==
  snapshot # None =>
    /\ \A ev \in Evaluators :
         LET fact == PredicateValue(ev, snapshot.context, Observed(ev), moment)
             o == Observed(ev)[ev.signal]
         IN ev.kind = "threshold" /\ fact # "U" =>
              /\ fact = ToTruth(Compared(ev.comparison, o.value, ev.threshold))
              /\ \A r \in DOMAIN snapshot.took[o.source] :
                   moment - snapshot.took[o.source][r] <= ev.maxAge
    /\ "quota" \in DOMAIN snapshot.context <=>
         "unlimited" \in DOMAIN snapshot.context /\ snapshot.context["unlimited"] = 0

=============================================================================

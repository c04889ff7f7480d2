--------------------------- MODULE StatsReporter ----------------------------
(***************************************************************************)
(* The statistics path of one subscriber: the MetricsScraper that reads an *)
(* engine's /metrics and derives load, hit rate and tier-2 counters from   *)
(* it, and the StatsReporter that delivers them to the server on every     *)
(* tick and raises an alarm when they stop arriving.                       *)
(*                                                                         *)
(* An exposition gives each metric family its set of series, under the     *)
(* names of the engine it comes from; a series has a model label, a        *)
(* priority label, a rank and a value, where NaN stands for any non-finite *)
(* one.  Rates are whole numbers of RateUnit-ths.                          *)
(***************************************************************************)
EXTENDS Integers, Sequences, FiniteSets, FiniteSetsExt, Functions

CONSTANTS
  NaN,            \* a value that is not finite
  Rank,           \* the engine's schedulers
  Config,         \* the configurations to run: scheme, model label, engine
  Ceiling,        \* MaxConcurrencyCeiling
  RateUnit,
  StaleThreshold, \* consecutive ticks without a delivery that raise the alarm
  Faulty,         \* ways an exposition may be garbled: <<families, "absent" or "nan">>
  Loads,          \* bound: the requests each scheduler may come to hold
  MaxServed,      \* bound: queries an engine process serves
  MaxChanges,     \* bound: changes of the engine's load, and its restarts
  MaxFaults       \* bound: failed scrapes and deliveries

(* The reporter is built with a threshold of three.                        *)
ASSUME StaleThresholdPositive == StaleThreshold \in Nat \ {0}

Families == {"usage", "gpu", "cpu", "running", "waiting", "hitRate", "hits", "queries",
             "extHits", "extQueries"}

(* Each engine names its metrics its own way; an unknown scheme is vLLM's. *)
profileForScheme(scheme) == IF scheme = "sglang" THEN "sglang" ELSE "vllm"

(* The families a profile reads.                                           *)
knownNames(profile) ==
  IF profile = "sglang" THEN Families \ {"gpu", "cpu", "hits", "queries", "extHits", "extQueries"}
  ELSE Families \ {"hitRate"}

VARIABLES
  cfg,        \* this subscriber's configuration and the engine it points at
  engine,     \* the engine's counters and load
  window,     \* history: traffic since the last scrape that counted it
  prev,       \* the scraper's baseline of the hit-rate counters
  pc, sample, \* the tick under way
  consecFails, everDelivered,
  alarm,      \* the transitions logged since the current outage, or the last one, began
  ic,         \* the sample the server holds for this replica
  late,       \* samples whose sender gave up, still to be handled
  silence,    \* history: ticks since the server last accepted a sample
  changes, faults

engineVars == <<cfg, engine, changes>>
reporterVars == <<consecFails, everDelivered, alarm>>
vars == <<cfg, engine, window, prev, pc, sample, consecFails, everDelivered, alarm, ic, late,
          silence, changes, faults>>

NoSample == [pressure |-> 0, hit |-> 0, usage |-> 0, t2hit |-> 0, t2query |-> 0]
The(x) == CHOOSE e \in x : TRUE

-----------------------------------------------------------------------------
(* Reading an exposition.                                                  *)

Clamp01(x) == IF x > RateUnit THEN RateUnit ELSE IF x < 0 THEN 0 ELSE x

(* With a filter, a series without the label does not count either.        *)
modelLabelMatches(m, want) == want = "" \/ m.model = want

isPriorityBreakdown(m) == m.priority # ""

Profile == profileForScheme(cfg.scheme)

Family(families, name) == IF families.engine = Profile THEN families[name] ELSE {}

Series(families, name) ==
  {m \in Family(families, name) : modelLabelMatches(m, cfg.label) /\ m.value # NaN}

(* Absent when no series is left: the result has no element.               *)
aggSumTotals(families, name) ==
  LET s == {m \in Series(families, name) : ~isPriorityBreakdown(m)}
  IN IF s = {} THEN {} ELSE {MapThenSumSet(LAMBDA m : m.value, s)}

aggMax(families, name) ==
  LET s == Series(families, name) IN IF s = {} THEN {} ELSE {Max({m.value : m \in s})}

sumCounter(families, name) ==
  LET s == Series(families, name)
  IN IF s = {} THEN {} ELSE {MapThenSumSet(LAMBDA m : m.value, s)}

OrZero(x) == IF x = {} THEN 0 ELSE The(x)

(* Whatever the label filter leaves: is this the engine the profile is for?*)
hasAnyKnownFamily(families) == \E name \in knownNames(Profile) : Family(families, name) # {}

(* The configured gauge; by default the unified one, else the busier of    *)
(* the legacy ones.                                                        *)
selectUsage(families) ==
  LET legacy == aggMax(families, "gpu") \cup aggMax(families, "cpu")
  IN IF cfg.tier # "auto" THEN OrZero(aggMax(families, cfg.tier))
     ELSE IF aggMax(families, "usage") # {} THEN The(aggMax(families, "usage"))
     ELSE IF legacy # {} THEN Max(legacy) ELSE 0

pressureFrom(load) == IF Ceiling <= 0 \/ load <= 0 THEN 0 ELSE Clamp01((load * RateUnit) \div Ceiling)

(* Mutant: a missing counter rebases the delta to nothing. *)
NextBaselineRebase(counters, present) == IF present THEN {counters} ELSE {<<0, 0>>}

(* A scrape without both counters keeps the baseline.                      *)
NextBaseline(counters, present) == IF present THEN {counters} ELSE prev

(* The hit rate since the baseline; none without one, without new queries, *)
(* or after the counters fell.                                             *)
consumeHitRate(counters, present) ==
  IF ~present \/ prev = {} THEN 0
  ELSE LET dHits == counters[1] - The(prev)[1]
           dQueries == counters[2] - The(prev)[2]
       IN IF dHits < 0 \/ dQueries <= 0 THEN 0 ELSE Clamp01((dHits * RateUnit) \div dQueries)

HaveCounters(families) == sumCounter(families, "hits") # {} /\ sumCounter(families, "queries") # {}

Counters(families) == <<OrZero(sumCounter(families, "hits")), OrZero(sumCounter(families, "queries"))>>

hitRate(families) ==
  IF Profile = "sglang" THEN Clamp01(OrZero(aggMax(families, "hitRate")))
  ELSE consumeHitRate(Counters(families), HaveCounters(families))

LoadGaugesPresent(families) ==
  \A name \in {"running", "waiting"} : aggSumTotals(families, name) # {}

(* What is not recognised, or lacks a load gauge, is an error rather than  *)
(* a sample of zeros.                                                      *)
Recognised(families) == hasAnyKnownFamily(families) /\ LoadGaugesPresent(families)

Derived(families) ==
  [pressure |-> pressureFrom(OrZero(aggSumTotals(families, "running"))
                               + OrZero(aggSumTotals(families, "waiting"))),
   hit |-> hitRate(families),
   usage |-> selectUsage(families),
   t2hit |-> OrZero(sumCounter(families, "extHits")),
   t2query |-> OrZero(sumCounter(families, "extQueries"))]

-----------------------------------------------------------------------------
(* The engine.                                                             *)

(* What the engine exposes when the families in bad are garbled as a       *)
(* whole, gone or not finite (a reading of one scheduler that is not       *)
(* finite is skipped, and the load is that of the others): one             *)
(* series per scheduler, which runs one request and queues the others,     *)
(* per-priority copies of SGLang's load gauges, and, where it serves two   *)
(* models, a series of the other one, which has one request running.       *)
Exposition(bad, how) ==
  LET series(r, model, v) == [model |-> model, priority |-> "", rank |-> r, value |-> v]
      per(f(_), other) == {series(r, "m", f(r)) : r \in Rank} \cup
                          (IF cfg.shared THEN {series(r, "o", other) : r \in Rank} ELSE {})
      first == CHOOSE r \in Rank : TRUE
      total(v) == {series(first, "m", v)}
      runs(r) == Min({engine.load[r], 1})
      running == per(runs, 1)
      waiting == per(LAMBDA r : engine.load[r] - runs(r), 0)
      vllm == cfg.engine = "vllm"
      withPriorities(value) ==
        value \cup IF vllm THEN {} ELSE {[x EXCEPT !.priority = "1"] : x \in value}
      shown(name, value) ==
        IF name \notin bad THEN value
        ELSE IF how = "nan" THEN {[x EXCEPT !.value = NaN] : x \in value} ELSE {}
  IN [engine |-> cfg.engine,
      running |-> shown("running", withPriorities(running)),
      waiting |-> shown("waiting", withPriorities(waiting)),
      usage |-> running, gpu |-> {}, cpu |-> {},
      hitRate |-> IF vllm THEN {} ELSE total((engine.hits * RateUnit) \div Max({1, engine.queries})),
      hits |-> IF vllm THEN shown("hits", total(engine.hits)) ELSE {},
      queries |-> IF vllm THEN total(engine.queries) ELSE {},
      extHits |-> IF vllm THEN total(0) ELSE {},
      extQueries |-> IF vllm THEN total(engine.queries - engine.hits) ELSE {}]

Intact == <<{}, "absent">>

(* The requests the engine holds, for the model the subscriber reports for.*)
TrueLoad == MapThenSumSet(LAMBDA r : engine.load[r], Rank)
              + (IF cfg.shared /\ cfg.label = "" THEN Cardinality(Rank) ELSE 0)

Serve ==
  /\ engine.queries < MaxServed
  /\ \E h \in 0..1 :
       /\ engine' = [engine EXCEPT !.queries = @ + 1, !.hits = @ + h]
       /\ window' = [window EXCEPT !.queries = @ + 1, !.hits = @ + h]
  /\ UNCHANGED <<cfg, prev, pc, sample, reporterVars, ic, late, silence, changes, faults>>

ChangeLoad ==
  /\ changes < MaxChanges /\ changes' = changes + 1
  /\ \E load \in Loads : load # engine.load /\ engine' = [engine EXCEPT !.load = load]
  /\ UNCHANGED <<cfg, window, prev, pc, sample, reporterVars, ic, late, silence, faults>>

EngineRestart ==
  /\ changes < MaxChanges /\ changes' = changes + 1
  /\ engine' = [hits |-> 0, queries |-> 0, load |-> [r \in Rank |-> 0]]
  /\ window' = [window EXCEPT !.restarted = TRUE]
  /\ UNCHANGED <<cfg, prev, pc, sample, reporterVars, ic, late, silence, faults>>

-----------------------------------------------------------------------------
(* One tick.                                                               *)

fault == faults < MaxFaults /\ faults' = faults + 1

(* Mutant: the alarm is raised on every tick of an outage. *)
StaleEventRepeated(fails) == IF fails >= StaleThreshold THEN <<"stale">> ELSE <<>>

(* The alarm is logged on the tick that reaches the threshold only.        *)
StaleEvent(fails) == IF fails = StaleThreshold THEN <<"stale">> ELSE <<>>

(* The counter is capped where nothing distinguishes it any more.          *)
markStale ==
  /\ consecFails' = Min({consecFails + 1, StaleThreshold + 1})
  /\ alarm' = (IF consecFails = 0 THEN <<>> ELSE alarm) \o StaleEvent(consecFails + 1)
  /\ UNCHANGED everDelivered

markDelivered ==
  /\ alarm' = IF consecFails >= StaleThreshold THEN Append(alarm, "recovered") ELSE alarm
  /\ consecFails' = 0
  /\ everDelivered' = TRUE

tickEnds == silence' = Min({silence + 1, StaleThreshold + 1}) /\ pc' = "wait" /\ sample' = NoSample

Scrape ==
  /\ pc = "wait"
  /\ \/ \E garbled \in {Intact} \cup Faulty :
          /\ IF garbled = Intact THEN UNCHANGED faults ELSE fault
          /\ \E families \in {Exposition(garbled[1], garbled[2])} :
               \/ /\ Recognised(families)
                  /\ sample' = Derived(families) /\ pc' = "send"
                  /\ prev' = IF Profile = "sglang" THEN prev
                             ELSE NextBaseline(Counters(families), HaveCounters(families))
                  /\ window' = IF HaveCounters(families) THEN [hits |-> 0, queries |-> 0, restarted |-> FALSE]
                               ELSE window
                  /\ UNCHANGED <<reporterVars, silence>>
               \/ ~Recognised(families) /\ markStale /\ tickEnds /\ UNCHANGED <<prev, window>>
     \/ fault /\ markStale /\ tickEnds /\ UNCHANGED <<prev, window>>
  /\ UNCHANGED <<engineVars, ic, late>>

(* Mutant: a held sample is kept until it expires. *)
IngestKeeps(s) == ic' = IF ic = {} THEN {s} ELSE ic

(* The server stores whatever arrives, without comparing it with what it   *)
(* holds.                                                                  *)
Ingest(s) == ic' = {s}

AckDelivers(accepted) == accepted

(* The outcome of the stream: acknowledged, refused, broken before the     *)
(* server saw the sample or after it, or given up while it is under way.   *)
send ==
  /\ pc = "send"
  /\ \/ Ingest(sample) /\ markDelivered /\ silence' = 0 /\ pc' = "wait" /\ sample' = NoSample
        /\ UNCHANGED <<late, faults>>
     \/ /\ fault /\ tickEnds /\ UNCHANGED <<ic, late>>
        /\ IF AckDelivers(FALSE) THEN markDelivered ELSE markStale
     \/ fault /\ Ingest(sample) /\ markStale /\ silence' = 0 /\ pc' = "wait" /\ sample' = NoSample
        /\ UNCHANGED late
     \/ fault /\ late' = late \cup {sample} /\ markStale /\ tickEnds /\ UNCHANGED ic
  /\ UNCHANGED <<engineVars, window, prev>>

LateIngest ==
  /\ \E s \in late : Ingest(s) /\ late' = late \ {s}
  /\ UNCHANGED <<engineVars, window, prev, pc, sample, reporterVars, silence, faults>>

(* The server restarts, or the sample outlives the index's TTL.            *)
LoseSample ==
  /\ ic # {} /\ fault
  /\ ic' = {}
  /\ UNCHANGED <<engineVars, window, prev, pc, sample, reporterVars, late, silence>>

(* The subscriber restarts with an empty memory.                           *)
Restart ==
  /\ fault
  /\ prev' = {} /\ pc' = "wait" /\ sample' = NoSample
  /\ window' = [hits |-> 0, queries |-> 0, restarted |-> FALSE]
  /\ consecFails' = 0 /\ everDelivered' = FALSE /\ alarm' = <<>> /\ silence' = 0
  /\ UNCHANGED <<engineVars, ic, late>>

Init ==
  /\ cfg \in Config
  /\ engine = [hits |-> 0, queries |-> 0, load |-> [r \in Rank |-> 0]]
  /\ window = [hits |-> 0, queries |-> 0, restarted |-> FALSE]
  /\ prev = {} /\ pc = "wait" /\ sample = NoSample
  /\ consecFails = 0 /\ everDelivered = FALSE /\ alarm = <<>>
  /\ ic = {} /\ late = {} /\ silence = 0 /\ changes = 0 /\ faults = 0

Tick == Scrape \/ send

Next == Serve \/ ChangeLoad \/ EngineRestart \/ Tick \/ LateIngest \/ LoseSample \/ Restart

(* The ticker keeps firing, and a handler that has a sample finishes.      *)
Spec == Init /\ [][Next]_vars /\ WF_vars(Tick) /\ WF_vars(LateIngest)

-----------------------------------------------------------------------------
(* A sample that is sent tells the truth about the engine (Scrape): its    *)
(* pressure is the load of every scheduler, counted once, of the model the *)
(* subscriber reports for; and a hit rate it gives is that of the traffic  *)
(* since the last scrape that counted, whatever scrapes failed or lost     *)
(* their counters in between.  A restart of the engine in that time is     *)
(* seen as a reset ("A counter reset (engine restart) resets the delta     *)
(* state too") unless the new process has by then served more queries than *)
(* the baseline holds: such a rate is the one exception, and the exception *)
(* ends with that sample.                                                  *)
SampleIsTrue ==
  [][pc = "wait" /\ pc' = "send" =>
       /\ sample'.pressure = pressureFrom(TrueLoad)
       /\ Profile = "vllm" /\ sample'.hit # 0 =>
            IF window.restarted THEN engine.queries > The(prev)[2]
            ELSE window.queries > 0 /\ sample'.hit = (window.hits * RateUnit) \div window.queries]_vars

(* The load signal never goes quiet unnoticed (markStale): when as many    *)
(* ticks in a row as the threshold brought the server nothing, the alarm   *)
(* stands.                                                                 *)
SilenceIsLoud == silence >= StaleThreshold => "stale" \in Range(alarm) /\ "recovered" \notin Range(alarm)

(* An outage is announced once, when it reaches the threshold, and its end *)
(* once, after a delivery (markStale, markDelivered: no per-tick noise).   *)
OneAlarmPerOutage ==
  /\ alarm \in {<<>>, <<"stale">>, <<"stale", "recovered">>}
  /\ consecFails > 0 => (consecFails >= StaleThreshold <=> alarm = <<"stale">>)
  /\ consecFails = 0 /\ pc = "wait" => alarm # <<"stale">>

(* Once faults stop, the server ends up with the engine's load, even if an *)
(* abandoned sample arrived out of turn; and a subscriber set up for the   *)
(* wrong engine never delivers anything and ends up with the alarm raised  *)
(* (hasAnyKnownFamily).                                                    *)
LoadSignalSettles ==
  <>[](IF Profile = cfg.engine THEN \E s \in ic : s.pressure = pressureFrom(TrueLoad)
       ELSE ic = {} /\ alarm = <<"stale">>)

(* An outage of the load signal raises the alarm, and raises it once       *)
(* (markStale, markDelivered).                                             *)
OutageAnnounced == SilenceIsLoud /\ OneAlarmPerOutage
=============================================================================

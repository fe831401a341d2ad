----------------------------- MODULE FleetViews -----------------------------
(***************************************************************************)
(* What the dashboard says of a host: the readings the store still dates,  *)
(* the family that has been silent longest, and the state drawn from them, *)
(* over a collector that reads the sources that answer, a clock that may   *)
(* be set back, and the retention that drops what is old.                  *)
(***************************************************************************)
EXTENDS Integers, FiniteSetsExt

CONSTANTS Metrics,            \* the metrics of one host
          MetricFamily,       \* [Metrics -> Families], the name's leading segment
          SlowMetrics,        \* those the slow tier reads
          DiskMetric,         \* DISK_PERCENT_METRIC
          LoadMetric,         \* load.1m
          CoreMetrics,        \* those that match CORE_METRIC, one a core
          DiskLevels,         \* how full the disk may be, in times its warning line
          LoadLevels,         \* how high the load, in cores it warns on
          Mortal,             \* the metrics whose source can go away for good
          StaleAfter,         \* three vitals intervals
          MetricsStaleAfter,  \* three slow intervals
          Window,             \* METRIC_AGE_WINDOW_SECONDS
          Retention,          \* SAMPLE_RETENTION_SECONDS
          MaxNow, MaxSetBack, \* ticks of the clock, times it is set back
          NoTime

ASSUME FleetAssumption ==
  /\ DOMAIN MetricFamily = Metrics /\ SlowMetrics \subseteq Metrics /\ Mortal \subseteq Metrics
  /\ DiskLevels \union LoadLevels \subseteq Nat
  /\ {StaleAfter, MetricsStaleAfter, Window, Retention, MaxNow, MaxSetBack} \subseteq Nat
  /\ StaleAfter <= Retention /\ Window <= Retention /\ MaxNow > 0
  /\ NoTime \notin 0..MaxNow

Families == {MetricFamily[m] : m \in Metrics}
Never == Retention + 1

Levels == DiskLevels \union LoadLevels \union {0}

VARIABLES
  now,        \* the wall clock
  samples,    \* rows of [metric, at, level], the level 0 of what has no line
  beat,       \* the heartbeat, or NoTime
  sources,    \* the metrics whose source exists
  setBacks,   \* times the clock has been set back
  quiet,      \* history: ticks since each family was last read, up to Never
  idle        \* history: ticks since a round completed, up to Never

fleetVars == <<now, samples, beat, sources, setBacks, quiet, idle>>

FleetTypeOK ==
  /\ now \in 0..MaxNow /\ setBacks \in 0..MaxSetBack
  /\ samples \subseteq [metric : Metrics, at : 0..MaxNow, level : Levels]
  /\ beat \in 0..MaxNow \union {NoTime}
  /\ sources \subseteq Metrics
  /\ quiet \in [Families -> 0..Never] /\ idle \in 0..Never

FleetInit ==
  /\ now = 1 /\ samples = {} /\ beat = NoTime
  /\ sources = Metrics /\ setBacks = 0
  /\ quiet = [f \in Families |-> Never] /\ idle = Never

\* One tick's rows, all at its moment. Of two rows under one stamp the reads below
\* find the later, so it alone is kept.
writeSamples(read, level) ==
  samples' = {s \in samples : ~(s.metric \in read /\ s.at = now)}
               \union {[metric |-> m, at |-> now, level |-> level[m]] : m \in read}

\* One metric at a level, the others without a line of their own.
Alone(metric, level) == [m \in Metrics |-> IF m = metric THEN level ELSE 0]

heard(read) == [f \in Families |-> IF \E m \in read : MetricFamily[m] = f THEN 0 ELSE quiet[f]]

\* A vitals round reads every fast family that answers, then leaves its mark.
VitalsRound(silent, load) ==
  LET read == {m \in sources \ SlowMetrics : MetricFamily[m] \notin silent} IN
  /\ writeSamples(read, Alone(LoadMetric, load))
  /\ quiet' = heard(read)
  /\ beat' = now /\ idle' = 0
  /\ UNCHANGED <<now, sources, setBacks>>

SlowTier(disk) ==
  LET read == sources \intersect SlowMetrics IN
  /\ writeSamples(read, Alone(DiskMetric, disk))
  /\ quiet' = heard(read)
  /\ UNCHANGED <<now, beat, sources, setBacks, idle>>

\* A tunnel or a chip goes away for good.
SourceGoes(m) ==
  /\ m \in sources /\ sources' = sources \ {m}
  /\ UNCHANGED <<now, samples, beat, setBacks, quiet, idle>>

prune ==
  /\ samples' = {s \in samples : s.at >= now - Retention}
  /\ UNCHANGED <<now, beat, sources, setBacks, quiet, idle>>

Older(n) == IF n = Never THEN n ELSE n + 1

ClockTicks ==
  /\ now < MaxNow /\ now' = now + 1
  /\ quiet' = [f \in Families |-> Older(quiet[f])]
  /\ idle' = Older(idle)
  /\ UNCHANGED <<samples, beat, sources, setBacks>>

ClockSetBack ==
  /\ setBacks < MaxSetBack /\ setBacks' = setBacks + 1
  /\ now > 1 /\ now' = now - 1
  /\ UNCHANGED <<samples, beat, sources, quiet, idle>>

FleetNext ==
  \/ \E silent \in SUBSET {MetricFamily[m] : m \in Metrics \ SlowMetrics}, load \in LoadLevels :
       VitalsRound(silent, load)
  \/ \E disk \in DiskLevels : SlowTier(disk)
  \/ \E m \in Mortal : SourceGoes(m)
  \/ prune \/ ClockTicks \/ ClockSetBack

FleetSpec == FleetInit /\ [][FleetNext]_fleetVars

---------------------------------------------------------------------------
\* The reads of one request, through one connection.

since == now - Window
rowsOf(m) == {s \in samples : s.metric = m}
newest(m) == CHOOSE s \in rowsOf(m) : \A t \in rowsOf(m) : t.at <= s.at

\* The newest row of each metric, where it is on this side of the floor.
latest ==
  {newest(m) : m \in {k \in Metrics : rowsOf(k) # {} /\ newest(k).at >= since}}

\* When each metric was last seen on this side of the floor.
metricAges ==
  LET seen(m) == {s.at : s \in {t \in rowsOf(m) : t.at >= since}}
      dated == {m \in Metrics : seen(m) # {}}
  IN [m \in dated |-> Max(seen(m))]

\* A stamp of the future has no age.
ageSeconds(at) == IF at = NoTime \/ at > now THEN NoTime ELSE now - at

\* Mutant: the stalest metric speaks for the host.
stalestMetric ==
  IF DOMAIN metricAges = {} THEN NoTime ELSE Min({metricAges[m] : m \in DOMAIN metricAges})

\* The moment of the family longest without a reading: the freshest member
\* speaks for its family, the stalest family for the host.
stalestFamily ==
  LET ages == metricAges
      freshest(f) == Max({ages[m] : m \in {k \in DOMAIN ages : MetricFamily[k] = f}})
  IN IF DOMAIN ages = {} THEN NoTime ELSE Min({freshest(MetricFamily[m]) : m \in DOMAIN ages})

shown == {s.metric : s \in latest}
collected == shown # {}
metricsStale ==
  LET age == ageSeconds(stalestFamily) IN age = NoTime \/ age > MetricsStaleAfter
stale == LET age == ageSeconds(beat) IN age = NoTime \/ age > StaleAfter

\* The open route says how long ago a round completed, and the same of the fleet.
health ==
  LET age == ageSeconds(beat) IN [age |-> age, stale |-> age = NoTime \/ age > StaleAfter]

\* The cores are those seen: a core that went away counts until the window has passed.
coreCount == Cardinality(shown \intersect CoreMetrics)
overDisk == \E s \in latest : s.metric = DiskMetric /\ s.level >= 1
overLoad == coreCount > 0 /\ \E s \in latest : s.metric = LoadMetric /\ s.level >= coreCount

\* A host nothing is known of is neither well nor in need of attention.
hostState == IF ~collected THEN "unknown" ELSE IF overDisk \/ overLoad THEN "warn" ELSE "ok"

hostView == [collected |-> collected, state |-> hostState, metrics_stale |-> metricsStale, metrics |-> shown]
fleetView == [stale |-> stale, host |-> hostView]

---------------------------------------------------------------------------
\* Properties.

\* What is shown can be dated and what can be dated is shown: a reading the window
\* no longer reaches is neither a number nor a warning on the page, a load is judged
\* by the cores the window still reaches, and a host is unknown exactly when no
\* reading is left (latest, metricAges, hostView).
ShownIsDated ==
  LET view == hostView  ages == metricAges
      dated(s) == s.at >= since
      cores == {c \in CoreMetrics : \E s \in samples : s.metric = c /\ dated(s)}
  IN /\ view.metrics = DOMAIN ages
     /\ \A s \in latest : s.at = ages[s.metric]
     /\ view.state = "warn" => \E s \in samples :
          /\ dated(s)
          /\ \/ s.metric = DiskMetric /\ s.level >= 1
             \/ s.metric = LoadMetric /\ cores # {} /\ s.level >= Cardinality(cores)
     /\ (view.state = "unknown") = (\A s \in samples : ~dated(s))

\* Every family the page can date was last read, by the stamps, at a time to come.
Ahead ==
  LET ages == metricAges IN
  /\ DOMAIN ages # {}
  /\ \A m \in DOMAIN ages : \E k \in DOMAIN ages : MetricFamily[k] = MetricFamily[m] /\ ages[k] > now

\* A host is marked silent exactly when a family of its readings is, give or take
\* the ticks the clock was set back by: one source of several that went away marks
\* nothing, a family is not spoken for by another's readings, and rows that a clock
\* set back has left ahead of itself are not called fresh. The fleet's own mark
\* follows the rounds alone (ageSeconds, stalestFamily, fleetView).
SilenceIsSaid ==
  LET view == fleetView IN
  /\ \/ \A f \in Families : quiet[f] > Window + setBacks
     \/ \E f \in Families : quiet[f] > MetricsStaleAfter + setBacks /\ quiet[f] <= Window
     \/ Ahead
     => view.host.metrics_stale
  /\ view.host.metrics_stale =>
     \/ \A f \in Families : quiet[f] > Window
     \/ \E f \in Families : quiet[f] > MetricsStaleAfter /\ quiet[f] <= Window + setBacks
     \/ Ahead
  /\ idle > StaleAfter + setBacks \/ (beat # NoTime /\ beat > now) => view.stale
  /\ view.stale => idle > StaleAfter \/ (beat # NoTime /\ beat > now)
  /\ health.stale = view.stale

\* What the page tells of a host and of the fleet, together.
FleetIsTold == ShownIsDated /\ SilenceIsSaid
=============================================================================

---------------------------- MODULE SeriesViews -----------------------------
(***************************************************************************)
(* The charts: counters and gauges as the store hands them over, reduced   *)
(* to one series per family and thinned to fit. The log below is what the  *)
(* machine really did and what each round read of it, so a chart can be    *)
(* held against the truth it was drawn from. Percents are drawn to the     *)
(* unit, bytes a second to the tenth.                                      *)
(***************************************************************************)
EXTENDS Integers, Sequences, FiniteSetsExt, SequencesExt

CONSTANTS MaxPoints,   \* points a chart may hold, MAX_POINTS
          MaxTicks,    \* rounds of the log
          Gaps,        \* how long after the last a round may come
          Readings     \* what a round gets of the gauges, and what it misses:
                       \* [total, free, ratio, missing], the ratio in percent

VARIABLE log   \* the rounds, each [at, busy, reboot, reading]

seriesVars == <<log>>

SeriesTypeOK == log \in Seq([at : Nat, busy : BOOLEAN, reboot : BOOLEAN, reading : Readings])

SeriesInit == log = <<>>

\* A round, some time after the last: the machine was busy since or not, and may
\* have been restarted as that time began. One before the first round is nothing a
\* chart could show.
LogRound ==
  /\ Len(log) < MaxTicks
  /\ \E gap \in Gaps, busy, reboot \in BOOLEAN, reading \in Readings :
       /\ log = <<>> => ~reboot
       /\ log' = Append(log, [at |-> (IF log = <<>> THEN 0 ELSE Last(log).at) + gap,
                              busy |-> busy, reboot |-> reboot, reading |-> reading])

SeriesNext == LogRound
SeriesSpec == SeriesInit /\ [][SeriesNext]_seriesVars

Null == [at |-> 0, value |-> -1]    \* a pair or a reading that gives no point
Point(at, value) == [at |-> at, value |-> value]
Kept(s) == SelectSeq(s, LAMBDA p : p # Null)

---------------------------------------------------------------------------
\* The machine: a busy tick is a jiffy of user time and a byte on each interface,
\* another a jiffy of idle time; a restart sets every counter back to zero.

span(i) == log[i].at - (IF i = 1 THEN 0 ELSE log[i - 1].at)
advance(metric, i) == IF log[i].busy = (metric # "idle") THEN span(i) ELSE 0
grown(metric, i, j) == MapThenSumSet(LAMBDA k : advance(metric, k), i + 1..j)
restarted(i, j) == \E k \in i + 1..j : log[k].reboot
counter(metric, j) ==
  LET boot == Max({1} \union {k \in 1..j : log[k].reboot}) IN grown(metric, boot - 1, j)

Counters == {"user", "idle", "eth", "tun"}
valueAt(metric, i) ==
  IF metric \in Counters THEN counter(metric, i) ELSE log[i].reading[metric]

---------------------------------------------------------------------------
\* The reads.

\* One metric's rows since a moment, in order; none at all is an empty series.
series(metric, since) ==
  Kept([i \in 1..Len(log) |->
          IF metric \in log[i].reading.missing \/ log[i].at < since THEN Null
          ELSE Point(log[i].at, valueAt(metric, i))])

valueOf(s, at) ==
  LET there == {i \in DOMAIN s : s[i].at = at} IN IF there = {} THEN -1 ELSE s[Max(there)].value
instants(ss) == SetToSortSeq(UNION {{s[i].at : i \in DOMAIN s} : s \in ss}, <)

\* Each pair of neighbours through one operator.
PairUp(s, pair(_, _)) ==
  Kept([i \in 1..(IF s = <<>> THEN 0 ELSE Len(s) - 1) |-> pair(s[i], s[i + 1])])

---------------------------------------------------------------------------
\* Arithmetic.

\* The nearest whole number, a tie going to the even one.
pythonRound(n, d) ==
  LET q == n \div d  r == n % d
  IN IF 2 * r < d THEN q ELSE IF 2 * r > d THEN q + 1 ELSE q + (q % 2)

pythonSum(s) == FoldSeq(LAMBDA p, sum : sum + p.value, 0, s)

\* Mutant: a counter that went backwards is read as a rate all the same.
rateOfReset(previous, current) ==
  LET elapsed == current.at - previous.at IN
  IF elapsed <= 0 THEN Null
  ELSE Point(current.at, (60 * (current.value - previous.value)) \div elapsed)

\* A rate in sixtieths, which every gap of up to six ticks divides. A counter that
\* went backwards has none.
rate(previous, current) ==
  LET elapsed == current.at - previous.at IN
  IF elapsed <= 0 \/ current.value < previous.value THEN Null
  ELSE Point(current.at, (60 * (current.value - previous.value)) \div elapsed)

rateSeries(s) == PairUp(s, rate)

---------------------------------------------------------------------------
\* The families.

\* The jiffies of each moment that has an idle reading, and how many fields they are of.
ticks(cpu) ==
  LET idle == cpu["idle"]  user == cpu["user"]
      had(at) == {f \in {"idle", "user"} : valueOf(cpu[f], at) # -1}
  IN [i \in DOMAIN idle |->
        [at |-> idle[i].at, idle |-> idle[i].value, fields |-> Cardinality(had(idle[i].at)),
         total |-> MapThenSumSet(LAMBDA f : valueOf(cpu[f], idle[i].at), had(idle[i].at))]]

\* The busy share of a pair; none across a restart, over no jiffies, or between
\* moments of different fields.
busyPercent(previous, current) ==
  LET total == current.total - previous.total
      idle == current.idle - previous.idle
  IN IF previous.fields # current.fields \/ total <= 0 \/ idle < 0 \/ idle > total THEN Null
     ELSE Point(current.at, pythonRound(100 * (total - idle), total))

busySeries(cpu) == PairUp(ticks(cpu), busyPercent)

\* The used share of each moment that has both gauges, and sound ones.
shareSeries(totals, frees) ==
  Kept([i \in DOMAIN totals |->
          LET total == totals[i].value  free == valueOf(frees, totals[i].at) IN
          IF total <= 0 \/ free < 0 \/ free > total THEN Null
          ELSE Point(totals[i].at, pythonRound(100 * (total - free), total))])

\* Clamped at the ceiling; below the floor is no reading.
gpuLoadSeries(ratios) ==
  Kept([i \in DOMAIN ratios |->
          IF ratios[i].value < 0 THEN Null ELSE Point(ratios[i].at, Min({ratios[i].value, 100}))])

\* The interfaces' rates, summed moment by moment, in tenths.
networkThroughputSeries(net) ==
  LET rates == {<<n, rateSeries(net[n])>> : n \in DOMAIN net}
      moments == instants({r[2] : r \in rates})
      at(t) == MapThenSumSet(LAMBDA r : valueOf(r[2], t), {r \in rates : valueOf(r[2], t) # -1})
  IN [i \in DOMAIN moments |-> Point(moments[i], pythonRound(at(moments[i]), 6))]

Kinds == {"cpu", "disk", "gpu", "network"}
derive(kind, since) ==
  CASE kind = "cpu" -> busySeries([f \in {"idle", "user"} |-> series(f, since)])
    [] kind = "disk" -> shareSeries(series("total", since), series("free", since))
    [] kind = "gpu" -> gpuLoadSeries(series("ratio", since))
    [] kind = "network" -> networkThroughputSeries([n \in {"eth", "tun"} |-> series(n, since)])

---------------------------------------------------------------------------
\* Thinning.

\* Which of the window's buckets a moment falls in, none narrower than a tick.
bucketOf(at, since, until) ==
  IF until - since <= MaxPoints THEN at - since
  ELSE ((at - since) * MaxPoints) \div (until - since)

\* The point of one bucket: its mean, at the moment of its last reading.
bucketPoint(points) == Point(Last(points).at, pythonRound(pythonSum(points), Len(points)))

downsample(s, since, until) ==
  IF Len(s) <= MaxPoints THEN s
  ELSE LET bucket(b) == SelectSeq(s, LAMBDA p : bucketOf(p.at, since, until) = b)
           used == SetToSortSeq({bucketOf(s[i].at, since, until) : i \in DOMAIN s}, <)
       IN [i \in DOMAIN used |-> bucketPoint(bucket(used[i]))]

history(kind, since, until) == downsample(derive(kind, since), since, until)

\* The route's window, which ends at the newest round here.
fleetHistory(kind, minutes) == LET until == Last(log).at IN history(kind, until - minutes, until)

---------------------------------------------------------------------------
\* Properties.

lastRead(metric, j) ==
  Max({0} \union {i \in 1..j - 1 : metric \notin log[i].reading.missing})
Moved(n, i, j) == (60 * grown(n, i, j)) \div (log[j].at - log[i].at)

\* The CPU chart: a point at a complete reading is the true share of the time since
\* the reading before it, or lies across a restart, and then still is a percentage.
BusyIsTrue ==
  LET cpu == derive("cpu", 0) IN
  \A j \in DOMAIN log : \A k \in DOMAIN cpu :
    LET i == lastRead("idle", j) IN
    (cpu[k].at = log[j].at /\ "user" \notin log[j].reading.missing) =>
      /\ i > 0 /\ cpu[k].value \in 0..100
      /\ restarted(i, j) \/
         cpu[k].value = pythonRound(100 * grown("user", i, j), log[j].at - log[i].at)

\* The network chart never shows more than was moved, whatever was restarted or
\* missed, and never less where nothing was (rateSeries, networkThroughputSeries).
TrafficIsReal ==
  LET net == derive("network", 0) IN
  \A j \in DOMAIN log : \A k \in DOMAIN net :
    net[k].at = log[j].at =>
      LET paired == {n \in {"eth", "tun"} : n \notin log[j].reading.missing /\ lastRead(n, j) > 0}
          whole == {n \in paired : ~restarted(lastRead(n, j), j)}
          moved(ns) == pythonRound(MapThenSumSet(LAMBDA n : Moved(n, lastRead(n, j), j), ns), 6)
      IN net[k].value \in moved(whole)..moved(paired)

\* A chart of any window keeps to its size, names only moments the host was read
\* at, in order and up to the newest, and stays between the readings since the point
\* before (downsample: the window's closing moment is a bucket of its own).
ThinnedIsReal ==
  log # <<>> => \A kind \in Kinds : \A minutes \in 1..Last(log).at :
    LET raw == derive(kind, Last(log).at - minutes)
        drawn == fleetHistory(kind, minutes)
        stamps(s) == {s[i].at : i \in DOMAIN s}
        before(i) == IF i = 1 THEN -1 ELSE drawn[i - 1].at
        stoodFor(i) == {raw[k].value : k \in {k \in DOMAIN raw : before(i) < raw[k].at /\ raw[k].at <= drawn[i].at}}
    IN raw # <<>> =>
         /\ Len(drawn) <= MaxPoints + 1
         /\ stamps(drawn) \subseteq stamps(raw) /\ Last(drawn).at = Last(raw).at
         /\ \A i \in 2..Len(drawn) : drawn[i - 1].at < drawn[i].at
         /\ \A i \in DOMAIN drawn : Min(stoodFor(i)) <= drawn[i].value /\ drawn[i].value <= Max(stoodFor(i))

\* What the charts promise, together.
ChartsAreTrue == BusyIsTrue /\ TrafficIsReal /\ ThinnedIsReal
=============================================================================

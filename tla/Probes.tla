------------------------------- MODULE Probes -------------------------------
(***************************************************************************)
(* One host's round, from what its wires answered to what the store holds: *)
(* a script's output read section by section, the docker endpoint's list,  *)
(* and the readings and checks the collector keeps of them.                *)
(*                                                                         *)
(* A file's text is its rows, each a head (a label, a key, a mount) and    *)
(* the number tokens after it. What the host really shows is whole; what   *)
(* the script prints of it may miss a section, a row's end or a token.     *)
(***************************************************************************)
EXTENDS Integers, Sequences, FiniteSetsExt, TLC

OK == "ok"   \* no reason to fail: the empty one

CONSTANTS Machines,    \* what a host may show, [files, containers]
          Reasons,     \* the failures a run or a GET may end with
          MaxRound,    \* rounds begun
          MaxDamage    \* outputs that are not whole

\* A file has rows of numbers and other words, and the inotify section one row a key
\* (script.ts:29-32); docker has one container a name.
OneAKey(rows) == \A i, j \in DOMAIN rows : rows[i].head = rows[j].head => i = j
OneAName(rows) == \A r, s \in rows : r.name = s.name /\ r.name # "" => r = s
ASSUME ProbesAssumption ==
  /\ MaxRound \in Nat /\ MaxDamage \in Nat
  /\ Reasons \subseteq STRING /\ Reasons \intersect {OK, "not_run"} = {}
  /\ \A shown \in Machines :
       /\ \A name \in DOMAIN shown.files : shown.files[name] \in Seq([head : STRING, fields : Seq(Int)])
       /\ "inotify" \in DOMAIN shown.files => OneAKey(shown.files["inotify"])
       /\ shown.containers \subseteq [name : STRING, running : BOOLEAN, check : {"healthy", "unhealthy", "none"}]
       /\ OneAName(shown.containers)

VARIABLES
  round,       \* the rounds begun, the instant that stamps what one stores
  machine,     \* history: what the host showed in each round, and what was observed of it
  pending,     \* the jobs of this round not settled
  damaged,     \* outputs so far that were not whole
  gauges,      \* the newest reading of each metric, [metric, value, at]
  checks       \* the newest check of each target, [ok, reason, at]

probeVars == <<round, machine, pending, damaged, gauges, checks>>

---------------------------------------------------------------------------
\* Parsing: a token is a number, or Malformed.

Malformed == -1
isNumber(token) == token >= 0
sample(metric, value) == [metric |-> metric, value |-> value]
FromRows(rows, read(_)) == UNION {read(rows[i]) : i \in DOMAIN rows}
Numbers(fields, upTo) == Len(fields) >= upTo /\ \A i \in 1..upTo : isNumber(fields[i])

\* A share of a ceiling, in hundredths, when there is a ceiling.
ratio(metric, value, ceiling) ==
  IF ~isNumber(value) \/ ceiling <= 0 THEN {} ELSE {sample(metric, (100 * value) \div ceiling)}

CPU_LINES == {"cpu", "cpu0"}
CPU_FIELDS == <<"user", "nice", "system", "idle">>
parseStat(rows) ==
  LET read(row) ==
        IF row.head \notin CPU_LINES THEN {}
        ELSE {sample(<<row.head, CPU_FIELDS[i]>>, row.fields[i]) :
                i \in {j \in DOMAIN CPU_FIELDS \intersect DOMAIN row.fields : isNumber(row.fields[j])}}
  IN FromRows(rows, read)

MEM_KEYS == {"MemTotal", "MemFree"}
parseMeminfo(rows) ==
  LET read(row) == IF row.head \in MEM_KEYS /\ Numbers(row.fields, 1)
                   THEN {sample(<<"mem", row.head>>, row.fields[1] * 1024)} ELSE {}
  IN FromRows(rows, read)

RX_BYTES == 1
TX_BYTES == 9
Skipped == {"lo", "veth", "tun", "docker"}
parseNetDev(rows) ==
  LET read(row) ==
        IF row.head \in Skipped \/ Len(row.fields) < TX_BYTES THEN {}
        ELSE IF ~isNumber(row.fields[RX_BYTES]) \/ ~isNumber(row.fields[TX_BYTES]) THEN {}
        ELSE {sample(<<"rx_bytes", row.head>>, row.fields[RX_BYTES]),
              sample(<<"tx_bytes", row.head>>, row.fields[TX_BYTES])}
  IN FromRows(rows, read)

LOAD_METRICS == <<"1m", "5m", "15m", "running", "total">>
parseLoadavg(rows) ==
  LET read(row) == IF ~Numbers(row.fields, 5) THEN {}
                   ELSE {sample(<<"load", LOAD_METRICS[i]>>, row.fields[i]) : i \in 1..5}
  IN FromRows(rows, read)

parseUptime(rows) ==
  LET read(row) == IF Numbers(row.fields, 1) THEN {sample(<<"uptime">>, row.fields[1])} ELSE {}
  IN FromRows(rows, read)

parseGpuFreq(rows) ==
  LET read(row) ==
        IF ~Numbers(row.fields, 2) THEN {}
        ELSE {sample(<<"gpu", "freq_mhz">>, row.fields[1]), sample(<<"gpu", "freq_max_mhz">>, row.fields[2])}
               \union ratio(<<"gpu", "freq_ratio">>, row.fields[1], row.fields[2])
  IN FromRows(rows, read)

BLOCK_BYTES == 1024
DF_METRICS == <<"total_bytes", "used_bytes", "available_bytes", "used_percent">>
inUnits(i, value) == value * (IF DF_METRICS[i] = "used_percent" THEN 1 ELSE BLOCK_BYTES)
parseDf(rows) ==
  LET read(row) == IF ~Numbers(row.fields, 4) THEN {}
                   ELSE {sample(<<"disk", row.head, DF_METRICS[i]>>, inUnits(i, row.fields[i])) : i \in 1..4}
  IN FromRows(rows, read)

parseHwmon(rows) ==
  LET read(row) == IF Numbers(row.fields, 1) THEN {sample(<<"temp", row.head>>, row.fields[1])} ELSE {}
  IN FromRows(rows, read)

\* The last good value of each key, and how much of the instance ceiling is taken.
parseInotify(rows) ==
  LET good == {i \in DOMAIN rows : Numbers(rows[i].fields, 1)}
      of(key) == {i \in good : rows[i].head = key}
      get(key, default) == IF of(key) = {} THEN default ELSE rows[Max(of(key))].fields[1]
  IN {sample(<<"inotify", rows[i].head>>, get(rows[i].head, 0)) : i \in good}
       \union ratio(<<"inotify", "instances_used_ratio">>, get("instances_in_use", Malformed),
                    get("max_user_instances", 0))

VITALS_SCRIPT == {"stat", "meminfo", "netdev", "loadavg", "uptime", "gpu"}
SLOW_SCRIPT == {"df", "hwmon", "inotify"}
parser(name, rows) ==
  CASE name = "stat" -> parseStat(rows)       [] name = "meminfo" -> parseMeminfo(rows)
    [] name = "netdev" -> parseNetDev(rows)   [] name = "loadavg" -> parseLoadavg(rows)
    [] name = "uptime" -> parseUptime(rows)   [] name = "gpu" -> parseGpuFreq(rows)
    [] name = "df" -> parseDf(rows)           [] name = "hwmon" -> parseHwmon(rows)
    [] OTHER -> parseInotify(rows)

\* Only the sections that arrived; a section that arrived empty has no readings.
samplesFromSections(sections) == UNION {parser(name, sections[name]) : name \in DOMAIN sections}

\* What a script may print of the host's files: all of them, or all but one section,
\* one row's end or one token.
Torn(row, i) == [row EXCEPT !.fields = SubSeq(@, 1, i - 1)]
Spoilt(row, i) == [row EXCEPT !.fields[i] = Malformed]
Replaced(sections, name, i, row) == [sections EXCEPT ![name][i] = row]
Printed(files, script) ==
  LET whole == [name \in DOMAIN files \intersect script |-> files[name]]
      places == {p \in (DOMAIN whole) \X (1..4) \X {1, 2, 5, 9} :
                   p[2] \in DOMAIN whole[p[1]] /\ p[3] \in DOMAIN whole[p[1]][p[2]].fields}
  IN {whole, <<>>}
       \union {[name \in DOMAIN whole \ {lost} |-> whole[name]] : lost \in DOMAIN whole}
       \union {Replaced(whole, p[1], p[2], Torn(whole[p[1]][p[2]], p[3])) : p \in places}
       \union {Replaced(whole, p[1], p[2], Spoilt(whole[p[1]][p[2]], p[3])) : p \in places}

---------------------------------------------------------------------------
\* The docker endpoint's rows, [name, running, check]: a row without a name cannot be
\* told apart and is left out.

parseContainers(rows) == {row \in rows : row.name # ""}

toSamples(states) ==
  UNION {{sample(<<"container", s.name, "up">>, IF s.running THEN 1 ELSE 0),
          sample(<<"container", s.name, "healthy">>, IF s.check = "healthy" /\ s.running THEN 1 ELSE 0),
          sample(<<"container", s.name, "has_healthcheck">>, IF s.check = "none" THEN 0 ELSE 1)} : s \in states}

latestOf(metric) == {g \in gauges : g.metric = metric}
is1(metric) == \E g \in latestOf(metric) : g.value = 1
fromSamples ==
  {[name |-> n, up |-> is1(<<"container", n, "up">>), healthy |-> is1(<<"container", n, "healthy">>),
    has_healthcheck |-> is1(<<"container", n, "has_healthcheck">>)] :
     n \in {g.metric[2] : g \in {h \in gauges : h.metric[1] = "container"}}}

containerCheck(s) ==
  LET reason == IF ~s.running THEN "not_running" ELSE IF s.check = "unhealthy" THEN "unhealthy" ELSE OK
  IN [ok |-> reason = OK, reason |-> reason, at |-> round]

---------------------------------------------------------------------------
\* The store, written in one session.

writeReadings(samples) ==
  gauges' = {g \in gauges : \A s \in samples : s.metric # g.metric}
              \union {[metric |-> s.metric, value |-> s.value, at |-> round] : s \in samples}
ofTarget(target, check) == [t \in {target} |-> check]
record(results) == [t \in DOMAIN checks \union DOMAIN results |-> IF t \in DOMAIN results THEN results[t] ELSE checks[t]]

\* Of the containers a listing lacks, those whose incident is open are retired, their
\* check forgotten. Which incidents are open is for Incidents to say.
retireAbsent(recorded, seen, open) ==
  [t \in {u \in DOMAIN recorded : u[1] # "container" \/ u[2] \in seen \/ u \notin open} |-> recorded[t]]

hostTarget == <<"host">>
dockerTarget == <<"docker">>
containerTarget(name) == <<"container", name>>

---------------------------------------------------------------------------
\* A round: the vitals and the containers side by side, then the slow tier.

\* A run's result: its reason, and what it printed if it has none.
Runs(script) ==
  {[reason |-> r, printed |-> <<>>] : r \in Reasons}
    \union {[reason |-> OK, printed |-> p] : p \in Printed(machine[round].files, script)}
whole(run, script) == run.reason # OK \/ run.printed = [name \in (DOMAIN machine[round].files) \intersect script |->
                                                         machine[round].files[name]]
Ran(run, script) ==
  /\ whole(run, script) \/ damaged < MaxDamage
  /\ damaged' = IF whole(run, script) THEN damaged ELSE damaged + 1

BeginRound ==
  /\ round < MaxRound /\ pending = {}
  /\ round' = round + 1 /\ pending' = {"vitals", "containers"}
  /\ \E shown \in Machines :
       machine' = Append(machine, [files |-> shown.files, containers |-> shown.containers,
                                   ran |-> "not_run", listed |-> FALSE])
  /\ UNCHANGED <<damaged, gauges, checks>>

\* A job is done; the tick's last one lets the slow tier be due.
Done(job) ==
  \/ pending' = pending \ {job}
  \/ pending = {job} /\ job # "slow" /\ pending' = {"slow"}

\* The vitals: the readings and the check they make, unless nothing was observed.
collectHost ==
  /\ "vitals" \in pending
  /\ \E run \in Runs(VITALS_SCRIPT) :
       LET samples == IF run.reason = OK THEN samplesFromSections(run.printed) ELSE {}
           reason == IF run.reason # OK THEN run.reason ELSE IF samples = {} THEN "empty_payload" ELSE OK
       IN /\ Ran(run, VITALS_SCRIPT)
          /\ IF run.reason = "spawn_error" THEN UNCHANGED <<gauges, checks>>
             ELSE /\ writeReadings(samples)
                  /\ checks' = record(ofTarget(hostTarget, [ok |-> reason = OK, reason |-> reason, at |-> round]))
          /\ machine' = [machine EXCEPT ![round].ran = run.reason]
  /\ Done("vitals")
  /\ UNCHANGED round

\* The slow tier: readings only.
collectSlow ==
  /\ "slow" \in pending
  /\ \E run \in Runs(SLOW_SCRIPT) :
       /\ Ran(run, SLOW_SCRIPT)
       /\ IF run.reason = OK THEN writeReadings(samplesFromSections(run.printed)) ELSE UNCHANGED gauges
  /\ Done("slow")
  /\ UNCHANGED <<round, machine, checks>>

\* The containers: readings, checks and retirements in one session, or the endpoint's
\* failure and nothing else.
endpointOnly(reason) ==
  /\ checks' = record(ofTarget(dockerTarget, [ok |-> FALSE, reason |-> reason, at |-> round]))
  /\ UNCHANGED gauges

allObserved ==
  LET states == parseContainers(machine[round].containers)
      names == {s.name : s \in states}
      ofName(n) == CHOOSE s \in states : s.name = n
      results == [t \in {dockerTarget} \union {containerTarget(n) : n \in names} |->
                    IF t = dockerTarget THEN [ok |-> TRUE, reason |-> OK, at |-> round]
                    ELSE containerCheck(ofName(t[2]))]
  IN /\ writeReadings(toSamples(states))
     /\ \E open \in SUBSET {t \in DOMAIN checks : t[1] = "container"} :
          checks' = retireAbsent(record(results), names, open)

collectContainers ==
  /\ "containers" \in pending
  /\ \/ /\ \E reason \in (Reasons \ {"spawn_error"}) \union {"bad_json"} : endpointOnly(reason)
        /\ UNCHANGED machine
     \/ /\ allObserved
        /\ machine' = [machine EXCEPT ![round].listed = TRUE]
  /\ Done("containers")
  /\ UNCHANGED <<round, damaged>>

ProbesInit ==
  /\ round = 0 /\ machine = <<>> /\ pending = {} /\ damaged = 0
  /\ gauges = {} /\ checks = <<>>

ProbesNext == BeginRound \/ collectHost \/ collectSlow \/ collectContainers

ProbesSpec == ProbesInit /\ [][ProbesNext]_probeVars

---------------------------------------------------------------------------

ProbesTypeOK ==
  /\ round \in 0..MaxRound /\ Len(machine) = round /\ damaged \in 0..MaxDamage
  /\ pending \subseteq {"vitals", "containers", "slow"}
  /\ \A g \in gauges : g.at \in 1..round /\ g.value \in Nat
  /\ \A t \in DOMAIN checks : checks[t].at \in 1..round

\* However a script's answer was cut or garbled, a stored reading is one the host
\* showed in the round that stamps it: damage only takes away (parse.ts, proc.ts,
\* system.ts, script.ts:43-51).
ReadingsAreReal ==
  \A g \in gauges :
    g.metric[1] # "container" => sample(g.metric, g.value) \in samplesFromSections(machine[g.at].files)

\* A container is named in a listing observed after round r.
ListedSince(name, r) ==
  \E q \in (r + 1)..round : machine[q].listed /\ \E s \in machine[q].containers : s.name = name

\* A container shown healthy had a check that passed while it ran, one shown up ran,
\* when it was last listed (docker.ts:61-66).
ContainersAsListed ==
  \A c \in fromSamples : \E r \in 1..round :
    /\ machine[r].listed /\ ~ListedSince(c.name, r)
    /\ \E s \in machine[r].containers :
         /\ s.name = c.name /\ c.up = s.running
         /\ c.healthy = (s.running /\ s.check = "healthy")
         /\ c.has_healthcheck = (s.check # "none")

\* A check says what was observed: the host's is good only of a complete run that
\* left a reading of its instant, and is not stamped by a run that never started; the
\* endpoint's is good only of a listing, and no container is judged without one
\* (collector.ts:47-56, 137-153, 244-254).
ChecksAreObserved ==
  \A t \in DOMAIN checks :
    LET c == checks[t]  then == machine[c.at] IN
    CASE t = hostTarget -> /\ then.ran # "spawn_error"
                           /\ c.ok => then.ran = OK /\ \E g \in gauges : g.at = c.at
      [] t = dockerTarget -> c.ok = then.listed
      [] OTHER -> /\ then.listed
                  /\ \E s \in then.containers :
                       s.name = t[2] /\ c.ok = (s.running /\ s.check # "unhealthy")

\* All of it.
ProbesTellTheTruth ==
  ReadingsAreReal /\ ContainersAsListed /\ ChecksAreObserved
=============================================================================

----------------------------- MODULE Incidents ------------------------------
(***************************************************************************)
(* fleet-monitor's incident ledger: the collector's rounds over one docker *)
(* host, the streak each recorded check is folded into, the incidents that *)
(* open and close on it, and the uptime read back from them.               *)
(*                                                                         *)
(* A round's jobs run side by side and each commits one session, stamped   *)
(* with the round's start. Time is the wall clock, which can step back.    *)
(***************************************************************************)
EXTENDS Integers, Sequences, FiniteSets, SequencesExt

CONSTANTS Host, Docker,  \* the host's own target and its docker endpoint's
          Containers,    \* the containers its docker can run
          Threshold,     \* checks in a row that open or close an incident
          Gap,           \* COVERAGE_GAP_SECONDS, in ticks
          MaxTime, MaxRounds, MaxBack,
          None

ASSUME IncidentsAssumption ==
  /\ Threshold \in Nat \ {0}
  /\ {Gap, MaxTime, MaxRounds, MaxBack} \subseteq Nat
  /\ Host # Docker /\ {Host, Docker} \intersect Containers = {}
  /\ None \notin Int

Targets == {Host, Docker} \union Containers

VARIABLES
  clock,    \* the wall clock
  back,     \* times it has stepped back
  rounds,   \* rounds begun
  at,       \* the running round's stamp
  pending,  \* the running round's jobs, by the target each one checks
  streak,   \* check_streak, one row a target
  outages,  \* incidents, in the order they opened
  log,      \* history: every check and retirement, in order
  sinceBack \* history: checks since a container was last missing from a listing

roundVars == <<clock, back, rounds, at>>
storeVars == <<streak, outages, log, sinceBack>>
vars == <<roundVars, pending, storeVars>>

NoStreak == [ok |-> 0, fail |-> 0, last |-> None, since |-> None]

Times == 0..MaxTime
Marks == {"ok", "fail", "retired"}

TypeOK ==
  /\ clock \in Times
  /\ back \in 0..MaxBack
  /\ rounds \in 0..MaxRounds
  /\ at \in Times
  /\ pending \subseteq {Host, Docker}
  /\ streak \in [Targets -> [ok : Nat, fail : Nat, last : Times \union {None},
                             since : Times \union {None}]]
  /\ \A t \in Targets : streak[t].ok = 0 \/ streak[t].fail = 0
  /\ outages \in [Targets -> Seq([opened : Times, closed : Times \union {None}])]
  /\ log \in [Targets -> Seq([at : Times, mark : Marks])]
  /\ sinceBack \in [Targets -> Nat]

Init ==
  /\ clock = 0
  /\ back = 0
  /\ rounds = 0
  /\ at = 0
  /\ pending = {}
  /\ streak = [t \in Targets |-> NoStreak]
  /\ outages = [t \in Targets |-> <<>>]
  /\ log = [t \in Targets |-> <<>>]
  /\ sinceBack = [t \in Targets |-> 0]

---------------------------------------------------------------------------
\* record and retireAbsent, each over the targets of one session.

isOpen(t) == outages[t] # <<>> /\ Last(outages[t]).closed = None

\* Mutant: a clock that stepped back leaves no gap.
withinGapForward(earlier, later) == later - earlier <= Gap

withinGap(earlier, later) == later - earlier \in 0..Gap

\* One check folded into a streak.
folded(s, ok, stamp) ==
  [ok    |-> IF ok THEN s.ok + 1 ELSE 0,
   fail  |-> IF ok THEN 0 ELSE s.fail + 1,
   last  |-> stamp,
   since |-> IF s # NoStreak /\ withinGap(s.last, stamp) THEN s.since ELSE stamp]

opening(stamp) == [opened |-> stamp, closed |-> None]
closing(list, stamp) ==
  [list EXCEPT ![Len(list)] = [opened |-> Last(list).opened, closed |-> stamp]]

\* Mutant: one check too many before an incident opens.
transitionLate(t, s, stamp) ==
  IF s.fail > Threshold /\ ~isOpen(t) THEN Append(outages[t], opening(stamp))
  ELSE IF s.ok >= Threshold /\ isOpen(t) THEN closing(outages[t], stamp)
  ELSE outages[t]

\* What the new streak makes of the target's incidents.
transition(t, s, stamp) ==
  IF s.fail >= Threshold /\ ~isOpen(t) THEN Append(outages[t], opening(stamp))
  ELSE IF s.ok >= Threshold /\ isOpen(t) THEN closing(outages[t], stamp)
  ELSE outages[t]

\* retireAbsent: the containers with an open incident that the listing lacks.
stale(seen) == {c \in Containers \ seen : isOpen(c)}

\* One session: every check of it, and the retirement of what the listing lacks.
Session(checked, failing, seen) ==
  LET new(t)  == folded(streak[t], t \notin failing, at)
      gone    == stale(seen)
      mark(t) == IF t \in gone THEN "retired" ELSE IF t \in failing THEN "fail" ELSE "ok"
  IN /\ streak' = [t \in Targets |-> IF t \in checked THEN new(t)
                                     ELSE IF t \in gone THEN NoStreak ELSE streak[t]]
     /\ outages' = [t \in Targets |-> IF t \in checked THEN transition(t, new(t), at)
                                      ELSE IF t \in gone THEN closing(outages[t], at)
                                      ELSE outages[t]]
     /\ log' = [t \in Targets |-> IF t \in checked \union gone
                                  THEN Append(log[t], [at |-> at, mark |-> mark(t)])
                                  ELSE log[t]]
     /\ sinceBack' = [t \in Targets |-> IF t \in checked THEN sinceBack[t] + 1
                                        ELSE IF t \in Containers \ seen THEN 0 ELSE sinceBack[t]]

---------------------------------------------------------------------------
\* The collector.

\* tick: a round starts once the one before it is over, and stamps the clock.
StartRound ==
  /\ pending = {}
  /\ rounds < MaxRounds
  /\ rounds' = rounds + 1
  /\ at' = clock
  /\ pending' = {Host, Docker}
  /\ UNCHANGED <<clock, back, storeVars>>

Answers(t) ==
  /\ t \in pending
  /\ pending' = pending \ {t}
  /\ UNCHANGED roundVars

\* collectHost: the ssh run worked or it did not, and either is a check.
collectHost ==
  /\ Answers(Host)
  /\ \E failing \in SUBSET {Host} : Session({Host}, failing, Containers)

\* Mutant: a payload that is no listing is taken for an empty one.
endpointOnlyEmpty ==
  /\ Answers(Docker)
  /\ Session({Docker}, {Docker}, {})

\* endpointOnly: docker did not answer with a listing.
endpointOnly ==
  /\ Answers(Docker)
  /\ Session({Docker}, {Docker}, Containers)

\* collectContainers: a listing, and a check of every container on it.
collectContainers ==
  /\ Answers(Docker)
  /\ \E seen \in SUBSET Containers : \E failing \in SUBSET seen :
       Session({Docker} \union seen, failing, seen)

\* A job that observed nothing (ssh could not be spawned) or raised.
NotObserved(t) ==
  /\ Answers(t)
  /\ UNCHANGED storeVars

\* The process is restarted, and the round's other jobs are lost.
Restart ==
  /\ pending # {}
  /\ pending' = {}
  /\ UNCHANGED <<roundVars, storeVars>>

Tick ==
  /\ clock < MaxTime
  /\ clock' = clock + 1
  /\ UNCHANGED <<back, rounds, at, pending, storeVars>>

StepBack ==
  /\ back < MaxBack
  /\ back' = back + 1
  /\ \E t \in 0..(clock - 1) : clock' = t
  /\ UNCHANGED <<rounds, at, pending, storeVars>>

Next ==
  \/ StartRound
  \/ collectHost \/ endpointOnly \/ collectContainers
  \/ \E t \in {Host, Docker} : NotObserved(t)
  \/ Restart
  \/ Tick \/ StepBack

Spec == Init /\ [][Next]_vars

---------------------------------------------------------------------------
\* observedRun and uptimePercent, over the window from..now.

uptimeKnown(t, from, now) ==
  /\ streak[t] # NoStreak
  /\ from < now
  /\ streak[t].since <= from
  /\ withinGap(streak[t].last, now)

\* The window's ticks that each incident covers, clipped to it and summed.
ticks(from, to) == IF from < to THEN to - from ELSE 0
downTicks(t, from, now) ==
  FoldLeft(LAMBDA sum, o :
             sum + ticks(IF o.opened < from THEN from ELSE o.opened,
                         IF o.closed = None \/ o.closed > now THEN now ELSE o.closed),
           0, outages[t])

\* Mutant: only closed incidents count.
upTicksClosed(t, from, now) ==
  ticks(FoldLeft(LAMBDA sum, o : IF o.closed = None THEN sum ELSE sum + ticks(o.opened, o.closed),
                 0, outages[t]), now - from)

upTicks(t, from, now) == ticks(downTicks(t, from, now), now - from)

---------------------------------------------------------------------------
\* Properties.

\* Threshold checks in a row, the i-th the last of them, all say m.
InARow(list, i, m) == i >= Threshold /\ \A k \in (i - Threshold + 1)..i : list[k].mark = m

\* Threshold checks in a row failed, and neither as many successes nor a
\* retirement came since.
ConfirmedDown(list) ==
  \E i \in 1..Len(list) :
    /\ InARow(list, i, "fail")
    /\ \A k \in (i + 1)..Len(list) : list[k].mark # "retired" /\ ~InARow(list, k, "ok")

\* Hysteresis over any history: an incident is open exactly when the target's
\* checks have confirmed it down.
IncidentsMatchHistory == \A t \in Targets : isOpen(t) <=> ConfirmedDown(log[t])

\* A docker endpoint that did not answer says nothing of its containers: their
\* incidents close only in a session whose listing was read.
ClosedByListings ==
  [][\A c \in Containers :
       isOpen(c) /\ outages'[c] # outages[c]
         => log'[Docker] # log[Docker] /\ log'[Docker][Len(log'[Docker])].mark = "ok"]_vars

\* A target's incidents follow one another: each is closed, and on a clock that
\* never stepped back no later than the next one opens, so that uptimePercent may
\* sum them.
OutagesFollow ==
  \A t \in Targets : \A i \in 1..(Len(outages[t]) - 1) :
    /\ outages[t][i].closed # None
    /\ back = 0 => outages[t][i].closed <= outages[t][i + 1].opened

\* From the i-th on the checks are never further apart than the gap, and never
\* go backwards.
Unbroken(list, i) ==
  /\ \A k \in i..Len(list) : list[k].mark # "retired"
  /\ \A k \in i..(Len(list) - 1) : list[k + 1].at - list[k].at \in 0..Gap

\* A percentage is given only for a window someone watched from end to end: the
\* target's checks run unbroken from before its start to within the gap of its end.
UptimeIsObserved ==
  \A t \in Targets : \A from \in Times :
    uptimeKnown(t, from, clock) =>
      /\ \E i \in 1..Len(log[t]) : log[t][i].at <= from /\ Unbroken(log[t], i)
      /\ clock - log[t][Len(log[t])].at \in 0..Gap

\* A target that failed every check through a window was up for none of it, on a
\* clock that never stepped back. (After a step an incident opened under the later
\* time lies past the window, and the outage is scored as up.)
DownThroughoutIsZero ==
  back = 0 => \A t \in Targets : \A from \in Times :
    (/\ uptimeKnown(t, from, clock)
     /\ \E i \in 1..Len(log[t]) : /\ log[t][i].at <= from
                                  /\ InARow(log[t], i, "fail")
                                  /\ \A k \in i..Len(log[t]) : log[t][k].mark = "fail")
      => upTicks(t, from, clock) = 0

\* What uptimePercent adds up is the time the target was down.
OutagesAddUp == OutagesFollow /\ DownThroughoutIsZero

\* "A container that comes back under the same name starts clean rather than
\* inheriting its old failure run": an incident opens only on Threshold checks
\* since the container was last missing from a listing.
ReturnsClean ==
  [][\A c \in Containers :
       Len(outages'[c]) > Len(outages[c]) => sinceBack'[c] >= Threshold]_vars
=============================================================================

-------------------------- MODULE Incidents_proofs --------------------------
(***************************************************************************)
(* Proofs about Incidents, for any containers, threshold, gap and bounds.  *)
(***************************************************************************)
EXTENDS Incidents, WellFoundedInduction, TLAPS

Streaks == [ok : Nat, fail : Nat, last : Times \union {None}, since : Times \union {None}]
Outages == [opened : Times, closed : Times \union {None}]
Entries == [at : Times, mark : Marks]

\* What one session does to one target: a check, a retirement, or nothing.
Checked(t) ==
  \E ok \in BOOLEAN :
    /\ streak'[t] = folded(streak[t], ok, at)
    /\ outages'[t] = transition(t, folded(streak[t], ok, at), at)
    /\ log'[t] = Append(log[t], [at |-> at, mark |-> IF ok THEN "ok" ELSE "fail"])
Retired(t) ==
  /\ isOpen(t)
  /\ streak'[t] = NoStreak
  /\ outages'[t] = closing(outages[t], at)
  /\ log'[t] = Append(log[t], [at |-> at, mark |-> "retired"])
Untouched(t) == streak'[t] = streak[t] /\ outages'[t] = outages[t] /\ log'[t] = log[t]

IsTable(f) == f = [t \in Targets |-> f[t]]
Tables == IsTable(streak) /\ IsTable(outages) /\ IsTable(log) /\ IsTable(sinceBack)

\* A session treats its targets one by one.
LEMMA SessionEffect ==
  ASSUME NEW checked, NEW failing, NEW seen, Session(checked, failing, seen),
         checked \intersect (Containers \ seen) = {}
  PROVE  \A t \in Targets : Checked(t) \/ Retired(t) \/ Untouched(t)
<1> SUFFICES ASSUME NEW t \in Targets PROVE Checked(t) \/ Retired(t) \/ Untouched(t)
  OBVIOUS
<1>1. CASE t \in checked
  <2>1. t \notin stale(seen)
    BY <1>1 DEF stale
  <2>2. (t \notin failing) \in BOOLEAN
    OBVIOUS
  <2>3. streak'[t] = folded(streak[t], t \notin failing, at)
    BY <1>1 DEF Session
  <2>4. outages'[t] = transition(t, folded(streak[t], t \notin failing, at), at)
    BY <1>1 DEF Session
  <2>5. log'[t] = Append(log[t], [at |-> at, mark |-> IF t \notin failing THEN "ok" ELSE "fail"])
    BY <1>1, <2>1 DEF Session
  <2>6. QED
    BY <2>2, <2>3, <2>4, <2>5 DEF Checked
<1>2. CASE t \notin checked /\ t \in stale(seen)
  BY <1>2 DEF Session, Retired, stale
<1>3. CASE t \notin checked /\ t \notin stale(seen)
  BY <1>3 DEF Session, Untouched
<1>4. QED
  BY <1>1, <1>2, <1>3

\* Every step of the system treats each target in one of the three ways.
LEMMA StepEffect ==
  ASSUME [Next]_vars
  PROVE  \A t \in Targets : Checked(t) \/ Retired(t) \/ Untouched(t)
<1>1. CASE collectHost
  BY <1>1, SessionEffect DEF collectHost
<1>2. CASE endpointOnly
  BY <1>2, SessionEffect DEF endpointOnly
<1>3. CASE collectContainers
  <2>1. \E seen \in SUBSET Containers : \E failing \in SUBSET seen :
          Session({Docker} \union seen, failing, seen)
    BY <1>3 DEF collectContainers
  <2>. PICK seen \in SUBSET Containers : \E failing \in SUBSET seen :
         Session({Docker} \union seen, failing, seen)
    BY <2>1
  <2>. PICK failing \in SUBSET seen : Session({Docker} \union seen, failing, seen)
    OBVIOUS
  <2>2. ({Docker} \union seen) \intersect (Containers \ seen) = {}
    BY IncidentsAssumption
  <2>3. QED
    BY <2>2, SessionEffect
<1>4. CASE StartRound \/ Restart \/ Tick \/ StepBack \/ UNCHANGED vars
  BY <1>4 DEF StartRound, Restart, Tick, StepBack, vars, storeVars, Untouched
<1>5. CASE \E t \in {Host, Docker} : NotObserved(t)
  BY <1>5 DEF NotObserved, storeVars, Untouched
<1>6. QED
  BY <1>1, <1>2, <1>3, <1>4, <1>5 DEF Next

---------------------------------------------------------------------------
\* Types.

\* The four tables keep a row for each target and no other.
LEMMA StepTables ==
  ASSUME Tables, [Next]_vars
  PROVE  Tables'
<1>1. ASSUME NEW checked, NEW failing, NEW seen, Session(checked, failing, seen)
      PROVE  Tables'
  BY <1>1 DEF Session, Tables, IsTable
<1>2. CASE collectHost \/ endpointOnly \/ collectContainers
  BY <1>1, <1>2 DEF collectHost, endpointOnly, collectContainers
<1>3. CASE ~(collectHost \/ endpointOnly \/ collectContainers)
  BY <1>3 DEF Next, StartRound, NotObserved, Restart, Tick, StepBack, vars, storeVars, Tables, IsTable
<1>4. QED
  BY <1>2, <1>3

\* A check leaves one of the two runs at nothing.
LEMMA FoldedType ==
  ASSUME NEW s \in Streaks, NEW ok \in BOOLEAN, NEW stamp \in Times
  PROVE  /\ folded(s, ok, stamp) \in Streaks
         /\ folded(s, ok, stamp).ok = 0 \/ folded(s, ok, stamp).fail = 0
BY DEF folded, Streaks

\* A target with an open incident has a last one, still to be closed.
LEMMA OpenIsNonempty ==
  ASSUME NEW t \in Targets, outages[t] \in Seq(Outages), isOpen(t)
  PROVE  /\ Len(outages[t]) \in 1..Len(outages[t])
         /\ outages[t][Len(outages[t])] \in Outages
         /\ outages[t][Len(outages[t])].closed = None
BY DEF isOpen, Last

\* Closing the open incident leaves a list of incidents.
LEMMA ClosingType ==
  ASSUME NEW t \in Targets, outages[t] \in Seq(Outages), isOpen(t), NEW stamp \in Times
  PROVE  closing(outages[t], stamp) \in Seq(Outages)
<1>1. [opened |-> Last(outages[t]).opened, closed |-> stamp] \in Outages
  BY OpenIsNonempty DEF Last, Outages
<1>2. QED
  BY <1>1, OpenIsNonempty DEF closing

\* So does whatever a check makes of it.
LEMMA TransitionType ==
  ASSUME NEW t \in Targets, outages[t] \in Seq(Outages), NEW s, NEW stamp \in Times
  PROVE  transition(t, s, stamp) \in Seq(Outages)
<1>1. opening(stamp) \in Outages
  BY DEF opening, Outages
<1>2. QED
  BY <1>1, ClosingType DEF transition

Scalars ==
  /\ clock \in Times /\ back \in 0..MaxBack /\ rounds \in 0..MaxRounds /\ at \in Times
  /\ pending \subseteq {Host, Docker}
  /\ sinceBack \in [Targets -> Nat]

\* The clock, the rounds and the jobs under way keep their types.
LEMMA ScalarsKeep ==
  ASSUME Scalars, [Next]_vars
  PROVE  Scalars'
<1>1. ASSUME NEW checked, NEW failing, NEW seen, Session(checked, failing, seen)
      PROVE  sinceBack' \in [Targets -> Nat]
  BY <1>1 DEF Session, Scalars
<1>2. CASE collectHost
  BY <1>1, <1>2 DEF collectHost, Answers, roundVars, Scalars
<1>3. CASE endpointOnly
  BY <1>1, <1>3 DEF endpointOnly, Answers, roundVars, Scalars
<1>4. CASE collectContainers
  BY <1>1, <1>4 DEF collectContainers, Answers, roundVars, Scalars
<1>5. CASE StartRound
  BY <1>5, IncidentsAssumption DEF StartRound, storeVars, Scalars
<1>6. CASE \E t \in {Host, Docker} : NotObserved(t)
  BY <1>6 DEF NotObserved, Answers, storeVars, roundVars, Scalars
<1>7. CASE Restart
  BY <1>7 DEF Restart, storeVars, roundVars, Scalars
<1>8. CASE Tick
  BY <1>8, IncidentsAssumption DEF Tick, storeVars, Scalars, Times
<1>9. CASE StepBack
  BY <1>9, IncidentsAssumption DEF StepBack, storeVars, Scalars, Times
<1>10. CASE UNCHANGED vars
  BY <1>10 DEF vars, storeVars, roundVars, Scalars
<1>11. QED
  BY <1>2, <1>3, <1>4, <1>5, <1>6, <1>7, <1>8, <1>9, <1>10 DEF Next

RowsOK ==
  \A t \in Targets :
    /\ streak[t] \in Streaks
    /\ streak[t].ok = 0 \/ streak[t].fail = 0
    /\ outages[t] \in Seq(Outages)
    /\ log[t] \in Seq(Entries)

\* Each target's row keeps its type, whichever of the three happens to it.
LEMMA RowsKeep ==
  ASSUME Scalars, RowsOK, [Next]_vars
  PROVE  RowsOK'
<1> SUFFICES ASSUME NEW t \in Targets
             PROVE  /\ streak'[t] \in Streaks
                    /\ streak'[t].ok = 0 \/ streak'[t].fail = 0
                    /\ outages'[t] \in Seq(Outages)
                    /\ log'[t] \in Seq(Entries)
  BY DEF RowsOK
<1>0. at \in Times /\ streak[t] \in Streaks /\ outages[t] \in Seq(Outages) /\ log[t] \in Seq(Entries)
  BY DEF Scalars, RowsOK
<1>1. CASE Checked(t)
  <2>1. PICK ok \in BOOLEAN :
          /\ streak'[t] = folded(streak[t], ok, at)
          /\ outages'[t] = transition(t, folded(streak[t], ok, at), at)
          /\ log'[t] = Append(log[t], [at |-> at, mark |-> IF ok THEN "ok" ELSE "fail"])
    BY <1>1 DEF Checked
  <2>2. streak'[t] \in Streaks /\ (streak'[t].ok = 0 \/ streak'[t].fail = 0)
    BY <1>0, <2>1, FoldedType
  <2>3. outages'[t] \in Seq(Outages)
    BY <1>0, <2>1, TransitionType
  <2>4. [at |-> at, mark |-> IF ok THEN "ok" ELSE "fail"] \in Entries
    BY <1>0 DEF Entries, Marks
  <2>5. QED
    BY <1>0, <2>1, <2>2, <2>3, <2>4
<1>2. CASE Retired(t)
  <2>1. streak'[t] \in Streaks /\ streak'[t].ok = 0
    BY <1>2 DEF Retired, NoStreak, Streaks
  <2>2. outages'[t] \in Seq(Outages)
    BY <1>0, <1>2, ClosingType DEF Retired
  <2>3. [at |-> at, mark |-> "retired"] \in Entries
    BY <1>0 DEF Entries, Marks
  <2>4. QED
    BY <1>0, <1>2, <2>1, <2>2, <2>3 DEF Retired
<1>3. CASE Untouched(t)
  BY <1>3 DEF Untouched, RowsOK
<1>4. QED
  BY <1>1, <1>2, <1>3, StepEffect

Typed == Scalars /\ Tables /\ RowsOK

\* The parts above make up the type invariant.
LEMMA TypedMeansTypeOK == Typed => TypeOK
  BY DEF Typed, Scalars, Tables, IsTable, RowsOK, TypeOK, Streaks, Outages, Entries

\* They hold together in every reachable state.
LEMMA TypedAlways == Spec => []Typed
<1>1. Init => Typed
  BY IncidentsAssumption
     DEF Init, Typed, Scalars, Tables, IsTable, RowsOK, Times, Streaks, NoStreak
<1>2. Typed /\ [Next]_vars => Typed'
  BY ScalarsKeep, StepTables, RowsKeep DEF Typed
<1>3. QED
  BY <1>1, <1>2, PTL DEF Spec

\* Every variable keeps its type, and no streak counts both successes and
\* failures.
THEOREM TypeCorrect == Spec => []TypeOK
  BY TypedAlways, TypedMeansTypeOK, PTL

---------------------------------------------------------------------------
\* Observation.

\* The streak's last check and the start of its observed run are entries of the
\* target's history, and between them the history is unbroken.
Covered(list, s) ==
  s # NoStreak =>
    /\ s.last \in Times
    /\ list # <<>>
    /\ list[Len(list)].at = s.last
    /\ \E i \in 1..Len(list) : list[i].at = s.since /\ Unbroken(list, i)

Coverage == \A t \in Targets : Covered(log[t], streak[t])

\* A check within the gap carries the run on, and any other starts one of its own.
LEMMA CheckCovers ==
  ASSUME NEW list \in Seq(Entries), NEW s \in Streaks, Covered(list, s),
         NEW ok \in BOOLEAN, NEW stamp \in Times
  PROVE  Covered(Append(list, [at |-> stamp, mark |-> IF ok THEN "ok" ELSE "fail"]),
                 folded(s, ok, stamp))
<1> DEFINE e == [at |-> stamp, mark |-> IF ok THEN "ok" ELSE "fail"]
           grown == Append(list, e)
           n == Len(list)
<1>1. e \in Entries /\ e.at = stamp /\ e.mark # "retired"
  BY DEF Entries, Marks
<1>2. /\ n \in Nat /\ Len(grown) = n + 1 /\ grown # <<>>
      /\ grown[n + 1] = e
      /\ \A k \in 1..n : grown[k] = list[k]
  BY <1>1
<1>3. folded(s, ok, stamp).last = stamp
  BY DEF folded
<1>4. CASE s # NoStreak /\ withinGap(s.last, stamp)
  <2>1. PICK i \in 1..n : list[i].at = s.since /\ Unbroken(list, i)
    BY <1>4 DEF Covered
  <2>2. folded(s, ok, stamp).since = s.since
    BY <1>4 DEF folded
  <2>3. ASSUME NEW k \in i..(n + 1) PROVE grown[k].mark # "retired"
    <3>1. CASE k = n + 1
      BY <1>1, <1>2, <3>1
    <3>2. CASE k # n + 1
      <4>1. k \in i..n /\ k \in 1..n
        BY <3>2, <1>2
      <4>2. list[k].mark # "retired"
        BY <2>1, <4>1 DEF Unbroken
      <4>3. QED
        BY <1>2, <4>1, <4>2
    <3>3. QED
      BY <3>1, <3>2
  <2>4. n \in 1..n /\ list[n].at = s.last /\ stamp - s.last \in 0..Gap
    BY <1>2, <1>4, <2>1 DEF Covered, withinGap
  <2>5. ASSUME NEW k \in i..n PROVE grown[k + 1].at - grown[k].at \in 0..Gap
    <3>1. CASE k = n
      BY <1>1, <1>2, <2>4, <3>1
    <3>2. CASE k # n
      <4>1. k \in i..(n - 1) /\ k \in 1..n /\ k + 1 \in 1..n
        BY <3>2, <1>2
      <4>2. list[k + 1].at - list[k].at \in 0..Gap
        BY <2>1, <4>1 DEF Unbroken
      <4>3. QED
        BY <1>2, <4>1, <4>2
    <3>3. QED
      BY <3>1, <3>2
  <2>6. Unbroken(grown, i)
    BY <1>2, <2>3, <2>5 DEF Unbroken
  <2>7. i \in 1..Len(grown) /\ grown[i].at = s.since
    BY <1>2, <2>1
  <2>8. QED
    BY <1>1, <1>2, <1>3, <2>2, <2>6, <2>7 DEF Covered
<1>5. CASE ~(s # NoStreak /\ withinGap(s.last, stamp))
  <2>1. folded(s, ok, stamp).since = stamp
    BY <1>5 DEF folded
  <2>2. Unbroken(grown, n + 1)
    BY <1>1, <1>2 DEF Unbroken
  <2>3. n + 1 \in 1..Len(grown) /\ grown[n + 1].at = stamp
    BY <1>1, <1>2
  <2>4. QED
    BY <1>1, <1>2, <1>3, <2>1, <2>2, <2>3 DEF Covered
<1>6. QED
  BY <1>4, <1>5

\* Every step keeps the streaks covered by the histories.
LEMMA CoverageKeeps ==
  ASSUME Typed, Coverage, [Next]_vars
  PROVE  Coverage'
<1> SUFFICES ASSUME NEW t \in Targets PROVE Covered(log'[t], streak'[t])
  BY DEF Coverage
<1>1. CASE Checked(t)
  <2>1. PICK ok \in BOOLEAN :
          /\ streak'[t] = folded(streak[t], ok, at)
          /\ log'[t] = Append(log[t], [at |-> at, mark |-> IF ok THEN "ok" ELSE "fail"])
    BY <1>1 DEF Checked
  <2>2. QED
    BY <2>1, CheckCovers DEF Typed, Scalars, RowsOK, Coverage
<1>2. CASE Retired(t)
  BY <1>2 DEF Retired, Covered
<1>3. CASE Untouched(t)
  BY <1>3 DEF Untouched, Coverage
<1>4. QED
  BY <1>1, <1>2, <1>3, StepEffect

\* uptimePercent answers only for a window the covered run spans.
LEMMA CoverageObserves == Typed /\ Coverage => UptimeIsObserved
<1> SUFFICES ASSUME Typed, Coverage, NEW t \in Targets, NEW from \in Times,
                    uptimeKnown(t, from, clock)
             PROVE  /\ \E i \in 1..Len(log[t]) : log[t][i].at <= from /\ Unbroken(log[t], i)
                    /\ clock - log[t][Len(log[t])].at \in 0..Gap
  BY DEF UptimeIsObserved
<1>1. Covered(log[t], streak[t]) /\ streak[t] # NoStreak /\ streak[t].since <= from
  BY DEF Coverage, uptimeKnown
<1>2. clock - streak[t].last \in 0..Gap
  BY DEF uptimeKnown, withinGap
<1>3. QED
  BY <1>1, <1>2 DEF Covered

\* uptimePercent gives a percentage only for a window someone watched from end
\* to end, whatever the rounds lost, the processes restarted or the clock did.
THEOREM Observed == Spec => []UptimeIsObserved
<1>1. Init => Coverage
  BY DEF Init, Coverage, Covered
<1>2. Typed /\ Coverage /\ [Next]_vars => Coverage'
  BY CoverageKeeps
<1>3. QED
  BY <1>1, <1>2, TypedAlways, CoverageObserves, PTL DEF Spec

---------------------------------------------------------------------------
\* Hysteresis.

\* The history ends in exactly n entries that say m.
EndsIn(list, m, n) ==
  /\ n \in 0..Len(list)
  /\ \A k \in (Len(list) - n + 1)..Len(list) : list[k].mark = m
  /\ n < Len(list) => list[Len(list) - n].mark # m

\* A streak's two counts are the runs its target's history ends in.
Counted(list, s) == EndsIn(list, "ok", s.ok) /\ EndsIn(list, "fail", s.fail)

Hysteresis ==
  \A t \in Targets : Counted(log[t], streak[t]) /\ (isOpen(t) <=> ConfirmedDown(log[t]))

\* What an entry added to a history does to a run at its end.
LEMMA RunGrows ==
  ASSUME NEW list \in Seq(Entries), NEW m, NEW n, EndsIn(list, m, n), NEW e \in Entries
  PROVE  EndsIn(Append(list, e), m, IF e.mark = m THEN n + 1 ELSE 0)
<1> DEFINE grown == Append(list, e)
           len == Len(list)
<1>1. /\ len \in Nat /\ n \in 0..len
      /\ Len(grown) = len + 1 /\ grown[len + 1] = e
      /\ \A k \in 1..len : grown[k] = list[k]
  BY DEF EndsIn
<1>2. CASE e.mark = m
  <2>1. ASSUME NEW k \in ((len + 1) - (n + 1) + 1)..(len + 1) PROVE grown[k].mark = m
    <3>1. CASE k = len + 1
      BY <1>1, <1>2, <3>1
    <3>2. CASE k # len + 1
      <4>1. k \in (len - n + 1)..len /\ k \in 1..len
        BY <1>1, <3>2
      <4>2. QED
        BY <1>1, <4>1 DEF EndsIn
    <3>3. QED
      BY <3>1, <3>2
  <2>2. ASSUME n + 1 < len + 1 PROVE grown[(len + 1) - (n + 1)].mark # m
    <3>1. (len + 1) - (n + 1) = len - n /\ len - n \in 1..len /\ n < len
      BY <1>1, <2>2
    <3>2. QED
      BY <1>1, <3>1 DEF EndsIn
  <2>3. n + 1 \in 0..(len + 1)
    BY <1>1
  <2>4. QED
    BY <1>1, <1>2, <2>1, <2>2, <2>3 DEF EndsIn
<1>3. CASE e.mark # m
  <2>1. (len + 1) - 0 = len + 1 /\ ((len + 1) - 0 + 1)..(len + 1) = {} /\ 0 \in 0..(len + 1)
    BY <1>1
  <2>2. QED
    BY <1>1, <1>3, <2>1 DEF EndsIn
<1>4. QED
  BY <1>2, <1>3

\* Threshold entries in a row end a history exactly when its run is that long.
LEMMA RunReachesThreshold ==
  ASSUME NEW list \in Seq(Entries), NEW m, NEW n, EndsIn(list, m, n)
  PROVE  InARow(list, Len(list), m) <=> n >= Threshold
<1>1. Len(list) \in Nat /\ n \in 0..Len(list) /\ Threshold \in Nat /\ Threshold > 0
  BY IncidentsAssumption DEF EndsIn
<1>2. ASSUME n >= Threshold PROVE InARow(list, Len(list), m)
  <2>1. ASSUME NEW k \in (Len(list) - Threshold + 1)..Len(list) PROVE list[k].mark = m
    <3>1. k \in (Len(list) - n + 1)..Len(list)
      BY <1>1, <1>2
    <3>2. QED
      BY <3>1 DEF EndsIn
  <2>2. QED
    BY <1>1, <1>2, <2>1 DEF InARow
<1>3. ASSUME InARow(list, Len(list), m), n < Threshold PROVE FALSE
  <2>1. Len(list) >= Threshold
    BY <1>3 DEF InARow
  <2>2. n < Len(list) /\ Len(list) - n \in (Len(list) - Threshold + 1)..Len(list)
    BY <1>1, <1>3, <2>1
  <2>3. QED
    BY <1>3, <2>2 DEF EndsIn, InARow
<1>4. QED
  BY <1>1, <1>2, <1>3

\* What an entry added to a history does to whether it confirms the target down.
LEMMA ConfirmedGrows ==
  ASSUME NEW list \in Seq(Entries), NEW e \in Entries
  PROVE  LET grown == Append(list, e)
         IN ConfirmedDown(grown) <=>
              \/ InARow(grown, Len(grown), "fail")
              \/ ConfirmedDown(list) /\ e.mark # "retired" /\ ~InARow(grown, Len(grown), "ok")
<1> DEFINE grown == Append(list, e)
           len == Len(list)
<1>1. /\ len \in Nat /\ Len(grown) = len + 1 /\ grown[len + 1] = e
      /\ \A k \in 1..len : grown[k] = list[k]
  OBVIOUS
<1>2. ASSUME NEW i \in 1..len, NEW m PROVE InARow(grown, i, m) <=> InARow(list, i, m)
  <2>1. Threshold \in Nat /\ Threshold > 0
    BY IncidentsAssumption
  <2>2. ASSUME i >= Threshold, NEW k \in (i - Threshold + 1)..i PROVE grown[k] = list[k]
    <3>1. k \in 1..len
      BY <1>1, <2>1, <2>2
    <3>2. QED
      BY <1>1, <3>1
  <2>3. QED
    BY <2>2 DEF InARow
<1>3. ASSUME InARow(grown, len + 1, "fail") PROVE ConfirmedDown(grown)
  <2>1. len + 1 \in 1..Len(grown) /\ ((len + 1) + 1)..Len(grown) = {}
    BY <1>1
  <2>2. QED
    BY <1>3, <2>1 DEF ConfirmedDown
<1>4. ASSUME ConfirmedDown(list), e.mark # "retired", ~InARow(grown, len + 1, "ok")
      PROVE  ConfirmedDown(grown)
  <2>1. PICK i \in 1..len :
          /\ InARow(list, i, "fail")
          /\ \A k \in (i + 1)..len : list[k].mark # "retired" /\ ~InARow(list, k, "ok")
    BY <1>4 DEF ConfirmedDown
  <2>2. ASSUME NEW k \in (i + 1)..(len + 1)
        PROVE  grown[k].mark # "retired" /\ ~InARow(grown, k, "ok")
    <3>1. CASE k = len + 1
      BY <1>1, <1>4, <3>1
    <3>2. CASE k # len + 1
      <4>1. k \in (i + 1)..len /\ k \in 1..len
        BY <1>1, <3>2
      <4>2. QED
        BY <1>1, <1>2, <2>1, <4>1
    <3>3. QED
      BY <3>1, <3>2
  <2>3. i \in 1..Len(grown) /\ InARow(grown, i, "fail")
    BY <1>1, <1>2, <2>1
  <2>4. QED
    BY <1>1, <2>2, <2>3 DEF ConfirmedDown
<1>5. ASSUME ConfirmedDown(grown), ~InARow(grown, len + 1, "fail")
      PROVE  ConfirmedDown(list) /\ e.mark # "retired" /\ ~InARow(grown, len + 1, "ok")
  <2>1. PICK i \in 1..(len + 1) :
          /\ InARow(grown, i, "fail")
          /\ \A k \in (i + 1)..(len + 1) : grown[k].mark # "retired" /\ ~InARow(grown, k, "ok")
    BY <1>1, <1>5 DEF ConfirmedDown
  <2>2. i \in 1..len
    BY <1>1, <1>5, <2>1
  <2>3. len + 1 \in (i + 1)..(len + 1)
    BY <1>1, <2>2
  <2>4. ASSUME NEW k \in (i + 1)..len
        PROVE  list[k].mark # "retired" /\ ~InARow(list, k, "ok")
    <3>1. k \in 1..len /\ k \in (i + 1)..(len + 1)
      BY <1>1, <2>2
    <3>2. QED
      BY <1>1, <1>2, <2>1, <3>1
  <2>5. ConfirmedDown(list)
    BY <1>2, <2>1, <2>2, <2>4 DEF ConfirmedDown
  <2>6. QED
    BY <1>1, <2>1, <2>3, <2>5
<1>6. QED
  BY <1>1, <1>3, <1>4, <1>5

\* A check leaves an incident open when the target has failed for long enough,
\* or had one open and has not recovered for long enough.
LEMMA TransitionOpens ==
  ASSUME NEW t \in Targets, outages[t] \in Seq(Outages), NEW stamp \in Times,
         NEW s \in Streaks, s.ok = 0 \/ s.fail = 0,
         outages'[t] = transition(t, s, stamp)
  PROVE  isOpen(t)' <=> s.fail >= Threshold \/ (isOpen(t) /\ ~(s.ok >= Threshold))
<1>1. /\ Threshold \in Nat /\ Threshold > 0 /\ s.ok \in Nat /\ s.fail \in Nat
      /\ stamp \in Int /\ None \notin Int
  BY IncidentsAssumption DEF Streaks, Times
<1>2. CASE s.fail >= Threshold /\ ~isOpen(t)
  <2>1. outages'[t] = Append(outages[t], opening(stamp)) /\ opening(stamp) \in Outages
    BY <1>2 DEF transition, opening, Outages
  <2>2. outages'[t] # <<>> /\ Last(outages'[t]) = opening(stamp)
    BY <2>1 DEF Last
  <2>3. QED
    BY <1>2, <2>2 DEF isOpen, opening
<1>3. CASE s.ok >= Threshold /\ isOpen(t)
  <2>1. ~(s.fail >= Threshold)
    BY <1>1, <1>3
  <2>2. outages'[t] = closing(outages[t], stamp)
    BY <1>3, <2>1 DEF transition
  <2>3. Last(outages'[t]).closed = stamp
    BY <1>3, <2>2, OpenIsNonempty DEF closing, Last
  <2>4. QED
    BY <1>1, <1>3, <2>1, <2>3 DEF isOpen
<1>4. CASE ~(s.fail >= Threshold /\ ~isOpen(t)) /\ ~(s.ok >= Threshold /\ isOpen(t))
  <2>1. outages'[t] = outages[t]
    BY <1>4 DEF transition
  <2>2. isOpen(t)' <=> isOpen(t)
    BY <2>1 DEF isOpen
  <2>3. QED
    BY <1>4, <2>2
<1>5. QED
  BY <1>2, <1>3, <1>4

\* Every step keeps the counts and the incidents to what the histories say.
LEMMA HysteresisKeeps ==
  ASSUME Typed, Hysteresis, [Next]_vars
  PROVE  Hysteresis'
<1> SUFFICES ASSUME NEW t \in Targets
             PROVE  /\ Counted(log'[t], streak'[t])
                    /\ isOpen(t)' <=> ConfirmedDown(log'[t])
  BY DEF Hysteresis
<1>0. /\ at \in Times /\ streak[t] \in Streaks /\ outages[t] \in Seq(Outages)
      /\ log[t] \in Seq(Entries) /\ Counted(log[t], streak[t])
      /\ isOpen(t) <=> ConfirmedDown(log[t])
  BY DEF Typed, Scalars, RowsOK, Hysteresis
<1>1. CASE Checked(t)
  <2>1. PICK ok \in BOOLEAN :
          /\ streak'[t] = folded(streak[t], ok, at)
          /\ outages'[t] = transition(t, folded(streak[t], ok, at), at)
          /\ log'[t] = Append(log[t], [at |-> at, mark |-> IF ok THEN "ok" ELSE "fail"])
    BY <1>1 DEF Checked
  <2> DEFINE s == folded(streak[t], ok, at)
             e == [at |-> at, mark |-> IF ok THEN "ok" ELSE "fail"]
  <2>2. e \in Entries /\ e.mark # "retired" /\ (ok <=> e.mark = "ok") /\ (~ok <=> e.mark = "fail")
    BY <1>0 DEF Entries, Marks
  <2>3. s \in Streaks /\ (s.ok = 0 \/ s.fail = 0)
    BY <1>0, FoldedType
  <2>4. /\ s.ok = IF e.mark = "ok" THEN streak[t].ok + 1 ELSE 0
        /\ s.fail = IF e.mark = "fail" THEN streak[t].fail + 1 ELSE 0
    BY <2>2 DEF folded
  <2>5. EndsIn(log'[t], "ok", s.ok) /\ EndsIn(log'[t], "fail", s.fail)
    BY <1>0, <2>1, <2>2, <2>4, RunGrows DEF Counted
  <2>6. log'[t] \in Seq(Entries)
    BY <1>0, <2>1, <2>2
  <2>7. /\ InARow(log'[t], Len(log'[t]), "ok") <=> s.ok >= Threshold
        /\ InARow(log'[t], Len(log'[t]), "fail") <=> s.fail >= Threshold
    BY <2>5, <2>6, RunReachesThreshold
  <2>8. ConfirmedDown(log'[t]) <=>
          s.fail >= Threshold \/ (ConfirmedDown(log[t]) /\ ~(s.ok >= Threshold))
    BY <1>0, <2>1, <2>2, <2>7, ConfirmedGrows
  <2>9. isOpen(t)' <=> s.fail >= Threshold \/ (isOpen(t) /\ ~(s.ok >= Threshold))
    BY <1>0, <2>1, <2>3, TransitionOpens
  <2>10. QED
    BY <1>0, <2>1, <2>5, <2>8, <2>9 DEF Counted
<1>2. CASE Retired(t)
  <2> DEFINE e == [at |-> at, mark |-> "retired"]
  <2>1. log'[t] = Append(log[t], e) /\ e \in Entries /\ streak'[t] = NoStreak
    BY <1>0, <1>2 DEF Retired, Entries, Marks
  <2>2. Counted(log'[t], streak'[t])
    BY <1>0, <2>1, RunGrows DEF Counted, NoStreak
  <2>3. EndsIn(log'[t], "fail", 0) /\ log'[t] \in Seq(Entries)
    BY <1>0, <2>1, <2>2 DEF Counted, NoStreak
  <2>4. ~InARow(log'[t], Len(log'[t]), "fail")
    BY <2>3, RunReachesThreshold, IncidentsAssumption
  <2>5. ~ConfirmedDown(log'[t])
    BY <1>0, <2>1, <2>4, ConfirmedGrows
  <2>6. outages'[t] = closing(outages[t], at) /\ isOpen(t)
    BY <1>2 DEF Retired
  <2>7. Last(outages'[t]).closed = at
    BY <1>0, <2>6, OpenIsNonempty DEF closing, Last
  <2>8. ~isOpen(t)'
    BY <1>0, <2>7, IncidentsAssumption DEF isOpen, Times
  <2>9. QED
    BY <2>2, <2>5, <2>8
<1>3. CASE Untouched(t)
  BY <1>0, <1>3 DEF Untouched, isOpen
<1>4. QED
  BY <1>1, <1>2, <1>3, StepEffect

\* No incident is open before the first check.
LEMMA HysteresisStarts == Init => Hysteresis
<1> SUFFICES ASSUME Init, NEW t \in Targets
             PROVE  Counted(log[t], streak[t]) /\ (isOpen(t) <=> ConfirmedDown(log[t]))
  BY DEF Hysteresis
<1>1. log[t] = <<>> /\ outages[t] = <<>> /\ streak[t] = NoStreak
  BY DEF Init
<1>2. Counted(log[t], streak[t])
  BY <1>1 DEF Counted, EndsIn, NoStreak
<1>3. ~isOpen(t) /\ ~ConfirmedDown(log[t])
  BY <1>1 DEF isOpen, ConfirmedDown
<1>4. QED
  BY <1>2, <1>3

\* An incident is open exactly when the target's checks have confirmed it down,
\* for any history of checks, gaps, restarts and retirements.
THEOREM HistoryDecides == Spec => []IncidentsMatchHistory
<1>1. Typed /\ Hysteresis /\ [Next]_vars => Hysteresis'
  BY HysteresisKeeps
<1>2. Hysteresis => IncidentsMatchHistory
  BY DEF Hysteresis, IncidentsMatchHistory
<1>3. QED
  BY <1>1, <1>2, HysteresisStarts, TypedAlways, PTL DEF Spec

---------------------------------------------------------------------------
\* Sums of outages.

\* A set of naturals has a least element.
LEMMA LeastNatural ==
  ASSUME NEW T, T \subseteq Nat, T # {}
  PROVE  \E x \in T : \A y \in T : x <= y
<1> DEFINE R == {ss \in Nat \X Nat : ss[1] < ss[2]}
<1>1. IsWellFoundedOn(R, Nat)
  BY NatLessThanWellFounded DEF OpToRel
<1> HIDE DEF R
<1>2. PICK x \in T : \A y \in T : ~(<<y, x>> \in R)
  BY <1>1, WFMin
<1>3. ASSUME NEW y \in T PROVE x <= y
  <2>1. x \in Nat /\ y \in Nat
    OBVIOUS
  <2>2. ~(y < x)
    BY <1>2, <2>1 DEF R
  <2>3. QED
    BY <2>1, <2>2
<1>4. QED
  BY <1>3

\* The window's ticks that one incident covers.
part(o, from, now) ==
  ticks(IF o.opened < from THEN from ELSE o.opened,
        IF o.closed = None \/ o.closed > now THEN now ELSE o.closed)

\* f sums the parts of any of the first n incidents of a list.
Sums(f, list, from, now, n) ==
  f = [s \in SUBSET (1..n) |->
         IF s = {} THEN 0 ELSE f[s \ {Max(s)}] + part(list[Max(s)], from, now)]

\* A set of numbers up to n that holds n has it for its greatest.
LEMMA GreatestIs ==
  ASSUME NEW n \in Nat, NEW s \in SUBSET (1..n), n \in s
  PROVE  Max(s) = n
<1>1. \A y \in s : n >= y
  OBVIOUS
<1>2. ASSUME NEW x \in s, \A y \in s : x >= y PROVE x = n
  BY <1>2
<1>3. QED
  BY <1>1, <1>2 DEF Max

\* There is such a function, for each list and each length.
LEMMA SumsExist ==
  ASSUME NEW list, NEW from, NEW now, NEW len \in Nat
  PROVE  \E f : Sums(f, list, from, now, len)
<1> DEFINE bad == {n \in Nat : ~\E f : Sums(f, list, from, now, n)}
<1> SUFFICES ASSUME bad # {} PROVE FALSE
  OBVIOUS
<1>1. PICK m \in bad : \A n \in bad : m <= n
  BY LeastNatural
<1>2. m \in Nat /\ ~\E f : Sums(f, list, from, now, m)
  OBVIOUS
<1>3. CASE m = 0
  <2> DEFINE f == [s \in SUBSET (1..0) |-> 0]
  <2>1. \A s \in SUBSET (1..0) : s = {}
    OBVIOUS
  <2>2. Sums(f, list, from, now, 0)
    BY <2>1 DEF Sums
  <2>3. QED
    BY <1>2, <1>3, <2>2
<1>4. CASE m # 0
  <2>1. m - 1 \in Nat /\ m - 1 \notin bad
    BY <1>1, <1>2, <1>4
  <2>2. PICK g : Sums(g, list, from, now, m - 1)
    BY <2>1
  <2> DEFINE f == [s \in SUBSET (1..m) |->
                     IF m \in s THEN g[s \ {m}] + part(list[m], from, now) ELSE g[s]]
  <2>3. ASSUME NEW s \in SUBSET (1..m)
        PROVE  f[s] = IF s = {} THEN 0 ELSE f[s \ {Max(s)}] + part(list[Max(s)], from, now)
    <3>1. CASE m \in s
      <4>1. Max(s) = m
        BY <1>2, <3>1, GreatestIs
      <4>2. s \ {m} \in SUBSET (1..m) /\ m \notin s \ {m}
        OBVIOUS
      <4>3. f[s \ {m}] = g[s \ {m}]
        BY <4>2
      <4>4. QED
        BY <3>1, <4>1, <4>3
    <3>2. CASE m \notin s
      <4>1. s \in SUBSET (1..(m - 1))
        <5>1. ASSUME NEW y \in s PROVE y \in 1..(m - 1)
          BY <1>2, <3>2
        <5>2. QED
          BY <5>1
      <4>5. \A x : s \ {x} \in SUBSET (1..m) /\ m \notin s \ {x}
        BY <3>2
      <4>2. g[s] = IF s = {} THEN 0 ELSE g[s \ {Max(s)}] + part(list[Max(s)], from, now)
        BY <2>2, <4>1 DEF Sums
      <4>3. f[s] = g[s] /\ f[s \ {Max(s)}] = g[s \ {Max(s)}]
        BY <3>2, <4>5
      <4>4. QED
        BY <4>2, <4>3
    <3>3. QED
      BY <3>1, <3>2
  <2>4. Sums(f, list, from, now, m)
    BY <2>3 DEF Sums
  <2>5. QED
    BY <1>2, <2>4
<1>5. QED
  BY <1>3, <1>4

\* Each of the sums is a number of ticks.
LEMMA SumsAreTicks ==
  ASSUME NEW list, NEW from, NEW now, NEW len \in Nat,
         \A i \in 1..len : part(list[i], from, now) \in Nat,
         NEW f, Sums(f, list, from, now, len)
  PROVE  \A s \in SUBSET (1..len) : f[s] \in Nat
<1> DEFINE bad == {n \in 0..len : \E s \in SUBSET (1..n) : f[s] \notin Nat}
<1> SUFFICES ASSUME bad # {} PROVE FALSE
  OBVIOUS
<1>0. bad \subseteq Nat
  OBVIOUS
<1>1. PICK m \in bad : \A n \in bad : m <= n
  <2> HIDE DEF bad
  <2>1. QED
    BY <1>0, LeastNatural
<1>2. PICK s \in SUBSET (1..m) : f[s] \notin Nat
  OBVIOUS
<1>3. m \in 0..len /\ s \in SUBSET (1..len)
  OBVIOUS
<1>4. f[s] = IF s = {} THEN 0 ELSE f[s \ {Max(s)}] + part(list[Max(s)], from, now)
  BY <1>3 DEF Sums
<1>5. CASE m = 0
  BY <1>2, <1>4, <1>5
<1>6. CASE m # 0
  <2>1. m - 1 \in 0..len /\ m - 1 \notin bad
    BY <1>1, <1>3, <1>6
  <2>2. m \in s
    <3>1. ASSUME m \notin s PROVE s \in SUBSET (1..(m - 1))
      BY <1>3, <3>1
    <3>2. QED
      BY <1>2, <2>1, <3>1
  <2>3. Max(s) = m
    BY <1>3, <2>2, GreatestIs
  <2>4. s \ {m} \in SUBSET (1..(m - 1))
    BY <1>3
  <2>5. f[s \ {m}] \in Nat
    BY <2>1, <2>4
  <2>6. part(list[m], from, now) \in Nat
    BY <1>3, <1>6
  <2>7. QED
    BY <1>2, <1>4, <2>2, <2>3, <2>5, <2>6
<1>7. QED
  BY <1>5, <1>6

\* An outage's part of a window is a number of ticks.
LEMMA PartIsTicks ==
  ASSUME NEW o \in Outages, NEW from \in Times, NEW now \in Times
  PROVE  part(o, from, now) \in Nat
<1>1. o.opened \in Nat /\ from \in Nat /\ now \in Nat /\ (o.closed = None \/ o.closed \in Nat)
  BY DEF Outages, Times
<1>2. QED
  BY <1>1 DEF part, ticks

\* What downTicks adds up is no less than the last incident's part of the window.
LEMMA LastIncidentCounts ==
  ASSUME NEW t \in Targets, outages[t] \in Seq(Outages), outages[t] # <<>>,
         NEW from \in Times, NEW now \in Times
  PROVE  /\ downTicks(t, from, now) \in Nat
         /\ downTicks(t, from, now) >= part(Last(outages[t]), from, now)
<1> DEFINE list == outages[t]
           n == Len(list)
           f == CHOOSE f : Sums(f, list, from, now, n)
<1>1. n \in Nat /\ n # 0 /\ DOMAIN list = 1..n /\ Last(list) = list[n]
      /\ \A i \in 1..n : list[i] \in Outages
  BY DEF Last
<1>2. downTicks(t, from, now) = f[1..n]
  BY <1>1 DEF downTicks, FoldLeft, MapThenFoldSet, part, Sums
<1>3. Sums(f, list, from, now, n)
  BY <1>1, SumsExist
<1>4. \A i \in 1..n : part(list[i], from, now) \in Nat
  BY <1>1, PartIsTicks
<1>5. \A s \in SUBSET (1..n) : f[s] \in Nat
  BY <1>1, <1>3, <1>4, SumsAreTicks
<1>6. Max(1..n) = n /\ 1..n # {} /\ n \in 1..n
  <2>1. n \in 1..n /\ 1..n \in SUBSET (1..n)
    BY <1>1
  <2>2. Max(1..n) = n
    BY <1>1, <2>1, GreatestIs
  <2>3. QED
    BY <2>1, <2>2
<1> HIDE DEF f
<1>7. f[1..n] = f[(1..n) \ {n}] + part(list[n], from, now)
  BY <1>3, <1>6 DEF Sums
<1>8. f[(1..n) \ {n}] \in Nat /\ part(list[n], from, now) \in Nat
  BY <1>4, <1>5, <1>6
<1>9. QED
  BY <1>1, <1>2, <1>7, <1>8

---------------------------------------------------------------------------
\* The ledger.

\* Incidents one after another: every one but the last is closed and, as long as
\* they are ordered by a clock that only went forward, closed before the next.
Follows(list, ordered, now) ==
  /\ \A i \in 1..(Len(list) - 1) : list[i].closed # None
  /\ ordered =>
       /\ \A i \in 1..(Len(list) - 1) : list[i].closed <= list[i + 1].opened
       /\ \A i \in 1..Len(list) : /\ list[i].opened <= now
                                  /\ list[i].closed # None => list[i].closed <= now

Ledger ==
  /\ back = 0 => at <= clock
  /\ \A t \in Targets : Follows(outages[t], back = 0, at)

\* A target that has failed ever since its i-th check, itself the last of enough
\* failures, has an incident open since that check or before.
OpenSince ==
  back = 0 => \A t \in Targets : \A i \in 1..Len(log[t]) :
    InARow(log[t], i, "fail") /\ (\A k \in i..Len(log[t]) : log[t][k].mark = "fail")
      => isOpen(t) /\ Last(outages[t]).opened <= log[t][i].at

\* Opening an incident now, with none open, keeps them in order.
LEMMA FollowsOpening ==
  ASSUME NEW list \in Seq(Outages), NEW ordered, NEW now \in Times, Follows(list, ordered, now),
         list # <<>> => Last(list).closed # None
  PROVE  Follows(Append(list, opening(now)), ordered, now)
<1> DEFINE grown == Append(list, opening(now))
           n == Len(list)
<1>1. opening(now) \in Outages /\ opening(now).opened = now /\ opening(now).closed = None
  BY DEF opening, Outages
<1>2. /\ n \in Nat /\ Len(grown) = n + 1 /\ grown[n + 1] = opening(now)
      /\ \A i \in 1..n : grown[i] = list[i] /\ list[i] \in Outages
  BY <1>1
<1>3. ASSUME NEW i \in 1..n PROVE list[i].closed # None
  <2>1. CASE i = n
    BY <1>2, <1>3, <2>1 DEF Last
  <2>2. CASE i # n
    BY <1>2, <1>3, <2>2 DEF Follows
  <2>3. QED
    BY <2>1, <2>2
<1>4. ASSUME ordered
      PROVE  /\ \A i \in 1..n : grown[i].closed <= grown[i + 1].opened
             /\ \A i \in 1..(n + 1) : /\ grown[i].opened <= now
                                      /\ grown[i].closed # None => grown[i].closed <= now
  <2>1. ASSUME NEW i \in 1..n PROVE grown[i].opened <= now /\ grown[i].closed <= now
    BY <1>2, <1>3, <1>4, <2>1 DEF Follows
  <2>2. ASSUME NEW i \in 1..n PROVE grown[i].closed <= grown[i + 1].opened
    <3>1. CASE i = n
      BY <1>1, <1>2, <2>1, <3>1
    <3>2. CASE i # n
      <4>1. i \in 1..(n - 1) /\ i + 1 \in 1..n
        BY <1>2, <3>2
      <4>2. list[i].closed <= list[i + 1].opened
        BY <1>4, <4>1 DEF Follows
      <4>3. QED
        BY <1>2, <4>1, <4>2
    <3>3. QED
      BY <3>1, <3>2
  <2>3. grown[n + 1].opened <= now /\ grown[n + 1].closed = None
    BY <1>1, <1>2 DEF Times
  <2>4. ASSUME NEW i \in 1..(n + 1) PROVE i \in 1..n \/ i = n + 1
    BY <1>2
  <2>5. QED
    BY <2>1, <2>2, <2>3, <2>4
<1>5. \A i \in 1..(Len(grown) - 1) : grown[i].closed # None
  BY <1>2, <1>3
<1>6. QED
  BY <1>2, <1>4, <1>5 DEF Follows

\* Closing the last incident now keeps them in order.
LEMMA FollowsClosing ==
  ASSUME NEW list \in Seq(Outages), list # <<>>, NEW ordered, NEW now \in Times,
         Follows(list, ordered, now)
  PROVE  Follows(closing(list, now), ordered, now)
<1> DEFINE shut == closing(list, now)
           n == Len(list)
<1>1. /\ n \in Nat /\ n >= 1 /\ Len(shut) = n
      /\ shut[n] = [opened |-> list[n].opened, closed |-> now]
      /\ \A i \in 1..(n - 1) : shut[i] = list[i]
  BY DEF closing, Last
<1>2. now <= now
  BY DEF Times
<1>3. \A i \in 1..n : shut[i].opened = list[i].opened
  BY <1>1
<1>4. ASSUME ordered
      PROVE  /\ \A i \in 1..(n - 1) : shut[i].closed <= shut[i + 1].opened
             /\ \A i \in 1..n : /\ shut[i].opened <= now
                                /\ shut[i].closed # None => shut[i].closed <= now
  <2>1. ASSUME NEW i \in 1..(n - 1) PROVE shut[i].closed <= shut[i + 1].opened
    <3>1. i + 1 \in 1..n /\ list[i].closed <= list[i + 1].opened
      BY <1>1, <1>4 DEF Follows
    <3>2. QED
      BY <1>1, <1>3, <3>1
  <2>2. ASSUME NEW i \in 1..n
        PROVE  shut[i].opened <= now /\ (shut[i].closed # None => shut[i].closed <= now)
    BY <1>1, <1>2, <1>3, <1>4 DEF Follows
  <2>3. QED
    BY <2>1, <2>2
<1>5. \A i \in 1..(n - 1) : shut[i].closed # None
  BY <1>1 DEF Follows
<1>6. QED
  BY <1>1, <1>4, <1>5 DEF Follows

\* As long as the order is still claimed, a later stamp keeps it.
LEMMA FollowsLater ==
  ASSUME NEW list \in Seq(Outages), NEW ordered, NEW now \in Times, Follows(list, ordered, now),
         NEW claimed, claimed => ordered, NEW later \in Times, claimed => now <= later
  PROVE  Follows(list, claimed, later)
<1>1. ASSUME NEW i \in 1..Len(list) PROVE list[i] \in Outages
  OBVIOUS
<1>2. ASSUME claimed, NEW i \in 1..Len(list)
      PROVE  list[i].opened <= later /\ (list[i].closed # None => list[i].closed <= later)
  <2>1. list[i].opened <= now /\ (list[i].closed # None => list[i].closed <= now)
    BY <1>2 DEF Follows
  <2>2. list[i].opened \in Nat /\ (list[i].closed # None => list[i].closed \in Nat)
    BY <1>1 DEF Outages, Times
  <2>3. QED
    BY <1>2, <2>1, <2>2 DEF Times
<1>3. QED
  BY <1>2 DEF Follows

\* A session leaves the rounds and the clock alone.
LEMMA SessionsKeepTheClock ==
  ASSUME [Next]_vars
  PROVE  \/ UNCHANGED roundVars
         \/ (StartRound \/ Tick \/ StepBack) /\ UNCHANGED storeVars
BY DEF Next, StartRound, collectHost, endpointOnly, collectContainers, NotObserved, Answers,
       Restart, Tick, StepBack, vars, roundVars, storeVars

\* The stamp of a round never goes back before the clock does.
LEMMA StampsForward ==
  ASSUME Typed, back = 0 => at <= clock, [Next]_vars
  PROVE  /\ back' = 0 => at' <= clock'
         /\ back' = 0 => back = 0 /\ at <= at'
<1>1. back \in Nat /\ at \in Nat /\ clock \in Nat
  BY IncidentsAssumption DEF Typed, Scalars, Times
<1>2. CASE UNCHANGED roundVars
  BY <1>1, <1>2 DEF roundVars
<1>3. CASE StartRound \/ Tick \/ StepBack
  BY <1>1, <1>3 DEF StartRound, Tick, StepBack
<1>4. QED
  BY <1>2, <1>3, SessionsKeepTheClock

\* Every step keeps each target's incidents in order.
LEMMA LedgerKeeps ==
  ASSUME Typed, Typed', Ledger, [Next]_vars
  PROVE  Ledger'
<1>1. back' = 0 => at' <= clock'
  BY StampsForward DEF Ledger
<1>2. ASSUME NEW t \in Targets PROVE Follows(outages'[t], back' = 0, at')
  <2>0. /\ at \in Times /\ at' \in Times /\ outages[t] \in Seq(Outages)
        /\ outages'[t] \in Seq(Outages) /\ Follows(outages[t], back = 0, at)
    BY DEF Typed, Scalars, RowsOK, Ledger
  <2>1. CASE outages'[t] = outages[t]
    <3>1. (back' = 0 => back = 0) /\ (back' = 0 => at <= at')
      BY StampsForward DEF Ledger
    <3>2. QED
      BY <2>0, <2>1, <3>1, FollowsLater
  <2>2. CASE outages'[t] # outages[t]
    <3>1. back' = back /\ at' = at
      BY <2>2, SessionsKeepTheClock DEF roundVars, storeVars
    <3>2. \/ ~isOpen(t) /\ outages'[t] = Append(outages[t], opening(at))
          \/ isOpen(t) /\ outages'[t] = closing(outages[t], at)
      BY <2>2, StepEffect DEF Checked, Retired, Untouched, transition
    <3>3. Follows(outages'[t], back = 0, at)
      <4>1. CASE ~isOpen(t) /\ outages'[t] = Append(outages[t], opening(at))
        BY <2>0, <4>1, FollowsOpening DEF isOpen
      <4>2. CASE isOpen(t) /\ outages'[t] = closing(outages[t], at)
        BY <2>0, <4>2, FollowsClosing DEF isOpen
      <4>3. QED
        BY <3>2, <4>1, <4>2
    <3>4. QED
      BY <3>1, <3>3
  <2>3. QED
    BY <2>1, <2>2
<1>3. QED
  BY <1>1, <1>2 DEF Ledger

\* No incident precedes the first check.
LEMMA LedgerStarts == Init => Ledger
  BY DEF Init, Ledger, Follows

\* A ledger in order is one uptimePercent may sum.
LEMMA LedgerFollows == Ledger => OutagesFollow
  BY DEF Ledger, Follows, OutagesFollow

---------------------------------------------------------------------------
\* An outage the whole window long.

\* A check that fails on an open incident leaves it alone, and one that opens an
\* incident gives it the check's own stamp.
LEMMA OpenSinceKeeps ==
  ASSUME Typed, Typed', Hysteresis', Ledger', OpenSince, Ledger, [Next]_vars
  PROVE  OpenSince'
<1> SUFFICES ASSUME back' = 0, NEW t \in Targets, NEW i \in 1..Len(log'[t]),
                    InARow(log'[t], i, "fail"),
                    \A k \in i..Len(log'[t]) : log'[t][k].mark = "fail"
             PROVE  isOpen(t)' /\ Last(outages'[t]).opened <= log'[t][i].at
  BY DEF OpenSince
<1>0. /\ at \in Times /\ streak[t] \in Streaks /\ outages[t] \in Seq(Outages)
      /\ (streak[t].ok = 0 \/ streak[t].fail = 0)
      /\ log[t] \in Seq(Entries) /\ log'[t] \in Seq(Entries) /\ outages'[t] \in Seq(Outages)
      /\ back = 0 /\ Len(log[t]) \in Nat
  BY StampsForward DEF Typed, Scalars, RowsOK, Ledger
<1>1. isOpen(t)'
  <2>1. \A k \in (i + 1)..Len(log'[t]) : log'[t][k].mark # "retired" /\ ~InARow(log'[t], k, "ok")
    <3>1. ASSUME NEW k \in (i + 1)..Len(log'[t]) PROVE log'[t][k].mark = "fail"
      BY <1>0
    <3>2. ASSUME NEW k \in (i + 1)..Len(log'[t]), InARow(log'[t], k, "ok") PROVE FALSE
      <4>1. k \in (k - Threshold + 1)..k
        BY <1>0, IncidentsAssumption
      <4>2. log'[t][k].mark = "ok"
        BY <3>2, <4>1 DEF InARow
      <4>3. QED
        BY <3>1, <4>2
    <3>3. QED
      BY <3>1, <3>2
  <2>2. ConfirmedDown(log'[t])
    BY <2>1 DEF ConfirmedDown
  <2>3. QED
    BY <2>2 DEF Hysteresis
<1>2. CASE log'[t] = log[t] /\ outages'[t] = outages[t]
  <2>1. i \in 1..Len(log[t]) /\ InARow(log[t], i, "fail")
        /\ \A k \in i..Len(log[t]) : log[t][k].mark = "fail"
    BY <1>2
  <2>2. isOpen(t) /\ Last(outages[t]).opened <= log[t][i].at
    BY <1>0, <2>1 DEF OpenSince
  <2>3. QED
    BY <1>1, <1>2, <2>2
<1>3. CASE Retired(t)
  <2>1. Len(log'[t]) \in i..Len(log'[t]) /\ log'[t][Len(log'[t])].mark = "retired"
    BY <1>0, <1>3 DEF Retired
  <2>2. QED
    BY <2>1
<1>4. CASE Checked(t)
  <2>1. PICK ok \in BOOLEAN :
          /\ streak'[t] = folded(streak[t], ok, at)
          /\ outages'[t] = transition(t, folded(streak[t], ok, at), at)
          /\ log'[t] = Append(log[t], [at |-> at, mark |-> IF ok THEN "ok" ELSE "fail"])
    BY <1>4 DEF Checked
  <2> DEFINE n == Len(log[t])
             e == [at |-> at, mark |-> IF ok THEN "ok" ELSE "fail"]
  <2>2. Len(log'[t]) = n + 1 /\ log'[t][n + 1] = e /\ \A k \in 1..n : log'[t][k] = log[t][k]
    BY <1>0, <2>1
  <2>3. ~ok
    <3>1. n + 1 \in i..Len(log'[t])
      BY <1>0, <2>2
    <3>2. e.mark = "fail"
      BY <2>2, <3>1
    <3>3. QED
      BY <3>2
  <2>4. \/ outages'[t] = outages[t] /\ isOpen(t)
        \/ outages'[t] = Append(outages[t], opening(at)) /\ ~isOpen(t)
    <3>1. folded(streak[t], ok, at).ok = 0 /\ Threshold > 0
      BY <2>3, IncidentsAssumption DEF folded
    <3>2. \/ outages'[t] = outages[t]
          \/ outages'[t] = Append(outages[t], opening(at)) /\ ~isOpen(t)
      BY <2>1, <3>1, IncidentsAssumption DEF transition
    <3>3. outages'[t] = outages[t] => isOpen(t)
      BY <1>1 DEF isOpen
    <3>4. QED
      BY <3>2, <3>3
  <2>5. CASE i = n + 1
    <3>1. log'[t][i].at = at
      BY <2>2, <2>5
    <3>2. Last(outages'[t]).opened <= at
      <4>1. at' = at
        BY <2>1, <2>2, <1>0, SessionsKeepTheClock DEF roundVars, storeVars
      <4>2. /\ outages'[t] # <<>> /\ Len(outages'[t]) \in 1..Len(outages'[t])
            /\ Last(outages'[t]) = outages'[t][Len(outages'[t])]
        BY <1>0, <1>1 DEF isOpen, Last
      <4>3. outages'[t][Len(outages'[t])].opened <= at'
        BY <4>2 DEF Ledger, Follows
      <4>4. QED
        BY <4>1, <4>2, <4>3
    <3>3. QED
      BY <1>1, <3>1, <3>2
  <2>6. CASE i # n + 1
    <3>1. i \in 1..n
      BY <1>0, <2>2, <2>6
    <3>2. InARow(log[t], i, "fail")
      <4>1. ASSUME NEW k \in (i - Threshold + 1)..i, i >= Threshold PROVE k \in 1..n
        BY <1>0, <3>1, <4>1, IncidentsAssumption
      <4>2. QED
        BY <2>2, <4>1 DEF InARow
    <3>3. \A k \in i..n : log[t][k].mark = "fail"
      <4>1. ASSUME NEW k \in i..n PROVE k \in 1..n /\ k \in i..Len(log'[t])
        BY <1>0, <2>2, <3>1
      <4>2. QED
        BY <2>2, <4>1
    <3>4. isOpen(t) /\ Last(outages[t]).opened <= log[t][i].at
      BY <1>0, <3>1, <3>2, <3>3 DEF OpenSince
    <3>5. outages'[t] = outages[t]
      BY <2>4, <3>4
    <3>6. QED
      BY <1>1, <2>2, <3>1, <3>4, <3>5
  <2>7. QED
    BY <2>5, <2>6
<1>5. QED
  BY <1>2, <1>3, <1>4, StepEffect DEF Untouched

\* Before the first check there is nothing to be open.
LEMMA OpenSinceStarts == Init => OpenSince
  BY DEF Init, OpenSince

\* An incident open since the window's start covers all of it.
LEMMA WholeWindow == Typed /\ OpenSince => DownThroughoutIsZero
<1> SUFFICES ASSUME Typed, OpenSince, back = 0, NEW t \in Targets, NEW from \in Times,
                    uptimeKnown(t, from, clock),
                    NEW i \in 1..Len(log[t]), log[t][i].at <= from, InARow(log[t], i, "fail"),
                    \A k \in i..Len(log[t]) : log[t][k].mark = "fail"
             PROVE  upTicks(t, from, clock) = 0
  BY DEF DownThroughoutIsZero
<1> DEFINE o == Last(outages[t])
<1>1. /\ from \in Nat /\ clock \in Times /\ clock \in Nat /\ from < clock
      /\ outages[t] \in Seq(Outages) /\ log[t] \in Seq(Entries)
  BY DEF uptimeKnown, Typed, Scalars, RowsOK, Times
<1>2. isOpen(t) /\ o.opened <= log[t][i].at
  BY DEF OpenSince
<1>3. outages[t] # <<>> /\ o \in Outages /\ o.closed = None
  <2>1. outages[t] # <<>> /\ o = outages[t][Len(outages[t])]
    BY <1>2 DEF isOpen, Last
  <2>2. QED
    BY <1>1, <1>2, <2>1, OpenIsNonempty
<1>4. log[t][i].at \in Nat /\ o.opened \in Nat
  <2>1. log[t][i] \in Entries
    BY <1>1
  <2> HIDE DEF o
  <2>2. log[t][i].at \in Times /\ o.opened \in Times
    BY <1>3, <2>1 DEF Entries, Outages
  <2>3. QED
    BY <2>2 DEF Times
<1>5. o.opened <= from
  BY <1>1, <1>2, <1>4
<1>6. part(o, from, clock) = clock - from
  BY <1>1, <1>3, <1>4, <1>5 DEF part, ticks
<1>7. downTicks(t, from, clock) \in Nat /\ downTicks(t, from, clock) >= clock - from
  BY <1>1, <1>3, <1>6, LastIncidentCounts
<1>8. QED
  BY <1>1, <1>7 DEF upTicks, ticks

\* What uptimePercent adds up is the time the target was down: its incidents
\* never overlap while the clock only goes forward, and an outage that outlasts
\* the window leaves no time up in it.
THEOREM OutagesSum == Spec => []OutagesAddUp
<1>1. Typed /\ Typed' /\ Ledger /\ [Next]_vars => Ledger'
  BY LedgerKeeps
<1>2. Typed /\ Typed' /\ Hysteresis' /\ Ledger' /\ OpenSince /\ Ledger /\ [Next]_vars => OpenSince'
  BY OpenSinceKeeps
<1>3. Typed /\ Hysteresis /\ [Next]_vars => Hysteresis'
  BY HysteresisKeeps
<1>4. Typed /\ Ledger /\ OpenSince => OutagesAddUp
  BY LedgerFollows, WholeWindow DEF OutagesAddUp
<1>5. QED
  BY <1>1, <1>2, <1>3, <1>4, HysteresisStarts, LedgerStarts, OpenSinceStarts, TypedAlways, PTL
     DEF Spec

---------------------------------------------------------------------------
\* Listings.

\* A session whose docker check failed, or that made none, closes no container's
\* incident.
LEMMA NoListing ==
  ASSUME NEW checked, NEW failing, Session(checked, failing, Containers),
         NEW c \in Containers, c \notin checked
  PROVE  outages'[c] = outages[c]
<1>1. c \in Targets /\ stale(Containers) = {}
  BY DEF Targets, stale
<1>2. QED
  BY <1>1 DEF Session

\* A listing that was read is an answer of the docker endpoint's.
LEMMA ListingIsLogged ==
  ASSUME Typed, NEW seen \in SUBSET Containers, NEW failing \in SUBSET seen,
         Session({Docker} \union seen, failing, seen)
  PROVE  log'[Docker] # log[Docker] /\ log'[Docker][Len(log'[Docker])].mark = "ok"
<1>1. /\ Docker \in Targets /\ Docker \in {Docker} \union seen
      /\ Docker \notin failing /\ Docker \notin stale(seen)
  BY IncidentsAssumption DEF Targets, stale
<1>2. log'[Docker] = Append(log[Docker], [at |-> at, mark |-> "ok"])
  BY <1>1 DEF Session
<1>3. log[Docker] \in Seq(Entries) /\ [at |-> at, mark |-> "ok"] \in Entries
  BY <1>1 DEF Typed, Scalars, RowsOK, Entries, Marks
<1>4. QED
  BY <1>2, <1>3

\* A docker endpoint that did not answer says nothing of its containers: their
\* incidents close only in a session whose listing was read.
THEOREM ListingsClose == Spec => ClosedByListings
<1>1. Typed /\ [Next]_vars =>
        [\A c \in Containers :
           isOpen(c) /\ outages'[c] # outages[c]
             => log'[Docker] # log[Docker] /\ log'[Docker][Len(log'[Docker])].mark = "ok"]_vars
  <2> SUFFICES ASSUME Typed, [Next]_vars, NEW c \in Containers, outages'[c] # outages[c]
               PROVE  log'[Docker] # log[Docker] /\ log'[Docker][Len(log'[Docker])].mark = "ok"
    OBVIOUS
  <2>1. CASE collectHost
    BY <2>1, NoListing, IncidentsAssumption DEF collectHost
  <2>2. CASE endpointOnly
    BY <2>2, NoListing, IncidentsAssumption DEF endpointOnly
  <2>3. CASE collectContainers
    BY <2>3, ListingIsLogged DEF collectContainers
  <2>4. CASE ~(collectHost \/ endpointOnly \/ collectContainers)
    BY <2>4
       DEF Next, StartRound, NotObserved, Restart, Tick, StepBack, vars, storeVars
  <2>5. QED
    BY <2>1, <2>2, <2>3, <2>4
<1>2. QED
  BY <1>1, TypedAlways, PTL DEF Spec, ClosedByListings
=============================================================================

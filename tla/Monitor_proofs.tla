--------------------------- MODULE Monitor_proofs ---------------------------
(***************************************************************************)
(* Proofs about the fleet monitor, for any instance of its parts: the      *)
(* collector's process (CollectorTasks), its two ways to ask (Transport)   *)
(* and what the dashboard says of a host (FleetViews). Each section proves *)
(* one part by itself; the last puts them side by side (MCMonitor).        *)
(***************************************************************************)
EXTENDS MCMonitor, FiniteSetTheorems, WellFoundedInduction, TLAPS

---------------------------------------------------------------------------
\* The collector's process.


InRound == {"tick", "slow", "prune"}

\* The grid: a round's due time is its own multiple of the interval. Time stops
\* for a sleep that is over, so a round that begins late begins at the end of
\* the one before it.
Grid ==
  /\ loop \in InRound => due = index * Interval
  /\ loop = "asleep" => /\ due = (index + 1) * Interval
                        /\ ended <= time
                        /\ time > due => time = ended
  /\ OnTheGrid

\* Once main joins, no loop can begin a prune, and every one there is is joined.
Joined ==
  /\ process \in {"joining", "exited"} => aborted
  /\ process = "joining" => threads \subseteq joined
  /\ process = "exited" => threads = {}

\* The process begins on the grid, with no thread.
LEMMA InitTasks == TasksInit => TasksTypeOK /\ Grid /\ Joined
<1>. SUFFICES ASSUME TasksInit PROVE TasksTypeOK /\ Grid /\ Joined
  OBVIOUS
<1>1. 0 \in 0..MaxTime /\ 0 * Interval = 0
  BY TasksAssumption
<1>2. TasksTypeOK
  BY <1>1 DEF TasksInit, TasksTypeOK, Rounds, Phases
<1>3. Grid
  BY <1>1 DEF TasksInit, Grid, OnTheGrid, InRound
<1>4. Joined
  BY DEF TasksInit, Joined
<1>5. QED
  BY <1>2, <1>3, <1>4

\* Every step keeps the types.
LEMMA StepTyped ==
  ASSUME TasksTypeOK, [TasksNext]_tasksVars
  PROVE  TasksTypeOK'
<1>. USE TasksAssumption DEF TasksTypeOK, Phases, Rounds, mainVars, roundVars
<1>1. CASE \E j \in Jobs : Settle(j)
  BY <1>1 DEF Settle
<1>2. CASE SleepOver
  BY <1>2 DEF SleepOver
<1>3. CASE TickEnds
  BY <1>3 DEF TickEnds, Slept
<1>4. CASE SlowEnds
  BY <1>4 DEF SlowEnds
<1>5. CASE RoundFails
  BY <1>5 DEF RoundFails
<1>6. CASE LoopReturns \/ OtherLoop
  BY <1>6 DEF LoopReturns, OtherLoop
<1>7. CASE \E t \in Rounds : PruneExits(t)
  BY <1>7 DEF PruneExits, Slept
<1>8. CASE Signal \/ joinPrunes \/ Exit
  BY <1>8 DEF Signal, joinPrunes, Exit
<1>9. CASE TimePasses
  BY <1>9 DEF TimePasses
<1>10. CASE UNCHANGED tasksVars
  BY <1>10 DEF tasksVars
<1>11. QED
  BY <1>1, <1>2, <1>3, <1>4, <1>5, <1>6, <1>7, <1>8, <1>9, <1>10 DEF TasksNext

\* A step that moves neither the loop nor the clock leaves the grid as it is.
LEMMA GridStays ==
  ASSUME Grid, UNCHANGED <<time, loop, index, due, began, ended>>
  PROVE  Grid'
  BY DEF Grid, OnTheGrid, InRound

\* A round that ends leaves the next due one interval after it was.
LEMMA SleptKeeps ==
  ASSUME TasksTypeOK, Grid, loop \in InRound, Slept, time' = time
  PROVE  Grid'
<1>1. due = index * Interval
  BY DEF Grid
<1>2. index \in Nat /\ Interval \in Nat
  BY TasksAssumption DEF TasksTypeOK, Rounds
<1>3. (index + 1) * Interval = index * Interval + Interval
  BY <1>2
<1>4. loop' = "asleep" /\ due' = (index' + 1) * Interval /\ ended' = time'
  BY <1>1, <1>3 DEF Slept
<1>5. ended' <= time'
  BY <1>4, TasksAssumption DEF TasksTypeOK
<1>6. QED
  BY <1>4, <1>5 DEF Grid, OnTheGrid, InRound

\* A round that begins does so when due, or at the end of the one before it.
LEMMA SleepOverKeeps ==
  ASSUME TasksTypeOK, Grid, SleepOver
  PROVE  Grid'
<1>1. /\ loop' = "tick" /\ index' = index + 1 /\ began' = time /\ due' = due /\ ended' = ended
      /\ due <= time
  BY DEF SleepOver
<1>2. due = (index + 1) * Interval /\ ended <= time /\ (time > due => time = ended)
  BY DEF SleepOver, Grid
<1>3. time \in Nat /\ due \in Nat /\ ended \in Nat
  BY TasksAssumption DEF TasksTypeOK
<1>4. time = IF ended > due THEN ended ELSE due
  BY <1>1, <1>2, <1>3
<1>5. QED
  BY <1>1, <1>2, <1>4 DEF Grid, OnTheGrid, InRound

\* The grid holds of every step.
LEMMA StepGrid ==
  ASSUME TasksTypeOK, Grid, [TasksNext]_tasksVars
  PROVE  Grid'
<1>. USE DEF mainVars, roundVars
<1>1. CASE \E j \in Jobs : Settle(j)
  BY <1>1, GridStays DEF Settle
<1>2. CASE SleepOver
  BY <1>2, SleepOverKeeps
<1>3. CASE TickEnds
  <2>1. CASE isSlowRound(index)
    BY <1>3, <2>1 DEF TickEnds, Grid, OnTheGrid, InRound
  <2>2. CASE ~isSlowRound(index)
    BY <1>3, <2>2, SleptKeeps DEF TickEnds, InRound
  <2>3. QED
    BY <2>1, <2>2
<1>4. CASE SlowEnds
  BY <1>4 DEF SlowEnds, Grid, OnTheGrid, InRound
<1>5. CASE RoundFails
  BY <1>5 DEF RoundFails, Grid, OnTheGrid, InRound
<1>6. CASE LoopReturns
  BY <1>6 DEF LoopReturns, Grid, OnTheGrid, InRound
<1>7. CASE OtherLoop
  BY <1>7, GridStays DEF OtherLoop
<1>8. CASE \E t \in Rounds : PruneExits(t)
  <2>. PICK t \in Rounds : PruneExits(t)
    BY <1>8
  <2>1. CASE Slept /\ loop = "prune"
    BY <2>1, SleptKeeps DEF PruneExits, InRound
  <2>2. CASE loop' = "failed" /\ UNCHANGED <<index, due, began, ended>>
    BY <2>2 DEF PruneExits, Grid, OnTheGrid, InRound
  <2>3. CASE UNCHANGED <<loop, index, due, began, ended>>
    BY <2>3, GridStays DEF PruneExits
  <2>4. QED
    BY <2>1, <2>2, <2>3 DEF PruneExits
<1>9. CASE Signal \/ joinPrunes \/ Exit
  BY <1>9, GridStays DEF Signal, joinPrunes, Exit
<1>10. CASE TimePasses
  BY <1>10, TasksAssumption DEF TimePasses, TasksTypeOK, Grid, OnTheGrid, InRound
<1>11. CASE UNCHANGED tasksVars
  BY <1>11, GridStays DEF tasksVars
<1>12. QED
  BY <1>1, <1>2, <1>3, <1>4, <1>5, <1>6, <1>7, <1>8, <1>9, <1>10, <1>11 DEF TasksNext

\* Main waits for every prune there will ever be.
LEMMA StepJoined ==
  ASSUME Joined, [TasksNext]_tasksVars
  PROVE  Joined'
<1>. USE DEF Joined, mainVars, roundVars
<1>1. CASE \E j \in Jobs : Settle(j)
  BY <1>1 DEF Settle
<1>2. CASE SleepOver \/ TickEnds \/ RoundFails
  BY <1>2 DEF SleepOver, TickEnds, RoundFails
<1>3. CASE SlowEnds
  BY <1>3 DEF SlowEnds
<1>4. CASE LoopReturns \/ OtherLoop \/ TimePasses
  BY <1>4 DEF LoopReturns, OtherLoop, TimePasses
<1>5. CASE \E t \in Rounds : PruneExits(t)
  BY <1>5 DEF PruneExits
<1>6. CASE Signal
  BY <1>6 DEF Signal, running
<1>7. CASE joinPrunes \/ Exit
  BY <1>7 DEF joinPrunes, Exit
<1>8. CASE UNCHANGED tasksVars
  BY <1>8 DEF tasksVars
<1>9. QED
  BY <1>1, <1>2, <1>3, <1>4, <1>5, <1>6, <1>7, <1>8 DEF TasksNext

\* Every variable of the collector's process keeps its type (tasks.ts, collectorMain).
THEOREM TasksTyped == TasksSpec => []TasksTypeOK
  BY InitTasks, StepTyped, PTL DEF TasksSpec

\* Rounds are on the grid of the interval or follow on the one before, for any
\* interval and however long the probes and the prunes take (every).
THEOREM GridKept == TasksSpec => []OnTheGrid
<1>1. TasksTypeOK /\ Grid /\ [TasksNext]_tasksVars => Grid'
  BY StepGrid
<1>2. Grid => OnTheGrid
  BY DEF Grid
<1>3. QED
  BY <1>1, <1>2, InitTasks, TasksTyped, PTL DEF TasksSpec

\* The process exits only when no prune thread is inside SQLite, whichever loop
\* failed and whatever a signal interrupted (joinPrunes).
THEOREM ExitIsSafe == TasksSpec => []NoExitInsideSqlite
<1>1. Joined /\ [TasksNext]_tasksVars => Joined'
  BY StepJoined
<1>2. Joined => NoExitInsideSqlite
  BY DEF Joined, NoExitInsideSqlite
<1>3. QED
  BY <1>1, <1>2, InitTasks, PTL DEF TasksSpec

---------------------------------------------------------------------------
\* The two ways to ask.

\* How a run may have ended, and what it or a request may be told as.
Ended == Exits \union {NoExit, [code |-> -9, stderr |-> "none"]}
RunReasons == {"none", "ok", "spawn_error", "timeout", "auth", "refused", "unreachable", "command_failed",
               "ssh_error"}
FetchReasons == {"none", "ok", "AbortError", "timeout", "transport_error", "dns", "refused", "http_status",
                 "bad_json"}
Wires == [status : Nat, body : {"none", "json", "page"},
          causes : SUBSET ({"ECONNRESET", "TimeoutError", "AbortError"} \union UNION Failures)]

\* What the race of a run has come to, by the stage it is at.
Raced ==
  /\ capture \in [phase : {"idle", "racing", "killing", "settled"}, child : {"none", "running", "exited"},
                  exit : Ended, late : BOOLEAN, reason : RunReasons]
  /\ capture.phase \in {"racing", "killing"} =>
       /\ capture.child # "none"
       /\ (capture.late <=> capture.phase = "killing")
  /\ capture.phase = "settled" =>
       \/ /\ capture.child = "none" /\ capture.reason = "spawn_error"
          /\ ~capture.late /\ capture.exit.code # 0
       \/ /\ capture.child = "exited"
          /\ capture.reason = IF capture.late THEN "timeout" ELSE classifyExit(capture.exit)

\* What a request has come to: an answer came before any deadline, and what it
\* returned is the caller's own signal or what its attempt came to.
Fetched ==
  /\ fetch \in [phase : {"idle", "inflight", "answered", "failed", "returned"}, signal : BOOLEAN,
                deadline : BOOLEAN, aborted : BOOLEAN,
                wire : Wires, reason : FetchReasons]
  /\ fetch.phase = "answered" => ~fetch.deadline
  /\ fetch.phase = "returned" =>
       /\ fetch.reason = "AbortError" <=> fetch.aborted
       /\ ~fetch.aborted =>
            /\ fetch.deadline => fetch.reason = "timeout"
            /\ fetch.reason = "ok" => fetch.wire.status \in 200..299 /\ fetch.wire.body = "json"

Asked == asked \in 0..MaxAsked

\* A failure of ssh itself is told by a name of its own, and only a status of zero
\* is no failure.
LEMMA ExitIsTold ==
  ASSUME NEW exit \in Ended
  PROVE  /\ classifyExit(exit) \in RunReasons
         /\ classifyExit(exit) = "ok" <=> exit.code = 0
         /\ classifyExit(exit) # "spawn_error"
<1>. DEFINE named == CHOOSE r \in REASONS : r[1] = exit.stderr
            told == {"timeout", "auth", "refused", "unreachable"}
<1>1. \A r \in REASONS : r[2] \in told
  BY DEF REASONS
<1>2. (\E r \in REASONS : r[1] = exit.stderr) => named \in REASONS
  BY Zenon
<1>3. (\E r \in REASONS : r[1] = exit.stderr) => named[2] \in told
  BY <1>1, <1>2
<1>. DEFINE name == named[2]
            carried == \E r \in REASONS : r[1] = exit.stderr
<1>4. classifyExit(exit) = IF exit.code = 0 THEN "ok"
                           ELSE IF exit.code # 255 THEN "command_failed"
                           ELSE IF carried THEN name
                           ELSE "ssh_error"
  BY Zenon DEF classifyExit
<1>5. carried => name \in told
  BY <1>3
<1>. HIDE DEF name, carried
<1>6. QED
  BY <1>4, <1>5 DEF RunReasons

LEMMA RacedKeeps == Raced /\ [TransportNext]_transportVars => Raced'
<1>. SUFFICES ASSUME Raced, [TransportNext]_transportVars PROVE Raced'
  OBVIOUS
<1>1. CASE start
  <2>1. \/ capture' = [IdleCapture EXCEPT !.phase = "racing", !.child = "running"]
        \/ capture' = [IdleCapture EXCEPT !.phase = "settled", !.reason = "spawn_error"]
    BY <1>1, Zenon DEF start
  <2>2. NoExit \in Ended /\ NoExit.code # 0
    BY DEF NoExit, Ended
  <2>3. CASE capture' = [IdleCapture EXCEPT !.phase = "racing", !.child = "running"]
    BY <2>2, <2>3 DEF IdleCapture, Raced, RunReasons
  <2>4. CASE capture' = [IdleCapture EXCEPT !.phase = "settled", !.reason = "spawn_error"]
    BY <2>2, <2>4 DEF IdleCapture, Raced, RunReasons
  <2>5. QED
    BY <2>1, <2>3, <2>4
<1>2. CASE ChildExits
  <2>1. PICK exit \in Exits \union {[code |-> -9, stderr |-> "none"]} :
               capture' = [capture EXCEPT !.child = "exited", !.exit = exit]
    BY <1>2 DEF ChildExits
  <2>2. exit \in Ended
    BY <2>1 DEF Ended
  <2>3. capture.child = "running"
    BY <1>2 DEF ChildExits
  <2>4. QED
    BY <2>1, <2>2, <2>3 DEF Raced
<1>3. CASE ChildCloses
  <2>1. classifyExit(capture.exit) \in RunReasons
    BY ExitIsTold DEF Raced
  <2>2. capture' = [capture EXCEPT !.phase = "settled", !.reason = classifyExit(capture.exit)]
        /\ capture.phase = "racing" /\ capture.child = "exited"
    BY <1>3 DEF ChildCloses, settled
  <2>3. QED
    BY <2>1, <2>2 DEF Raced
<1>4. CASE CaptureDeadline
  BY <1>4 DEF CaptureDeadline, Raced
<1>5. CASE ChildGone
  BY <1>5 DEF ChildGone, settled, Raced, RunReasons
<1>6. CASE UNCHANGED capture
  BY <1>6 DEF Raced
<1>7. QED
  BY <1>1, <1>2, <1>3, <1>4, <1>5, <1>6
     DEF TransportNext, transportVars, get, send, WireFails, FetchDeadline, CallerAborts, getJson

\* What an attempt came to is never the caller's own signal, and no failure only if
\* an answer was sound.
LEMMA AttemptIsTold ==
  ASSUME Fetched, fetch.phase \in {"answered", "failed"}
  PROVE  /\ attempted \in FetchReasons /\ attempted # "AbortError"
         /\ fetch.deadline => attempted = "timeout"
         /\ attempted = "ok" => fetch.wire.status \in 200..299 /\ fetch.wire.body = "json"
BY DEF attempted, judge, classifyError, Fetched, Wires, FetchReasons

LEMMA FetchedKeeps == Fetched /\ [TransportNext]_transportVars => Fetched'
<1>. SUFFICES ASSUME Fetched, [TransportNext]_transportVars PROVE Fetched'
  OBVIOUS
<1>1. CASE get
  <2>1. PICK signal \in BOOLEAN : fetch' = [IdleFetch EXCEPT !.phase = "inflight", !.signal = signal]
    BY <1>1, Zenon DEF get
  <2>2. NoAnswer \in Wires
    BY DEF NoAnswer, Wires
  <2>3. QED
    BY <2>1, <2>2 DEF IdleFetch, Fetched, FetchReasons
<1>2. CASE send
  <2>1. PICK status \in Statuses, body \in {"json", "page"} :
               fetch' = [fetch EXCEPT !.phase = "answered",
                                      !.wire = [NoAnswer EXCEPT !.status = status, !.body = body]]
    BY <1>2 DEF send
  <2>2. [NoAnswer EXCEPT !.status = status, !.body = body]
          \in Wires
    BY <2>1, TransportAssumption DEF NoAnswer, Wires
  <2>3. ~fetch.deadline
    BY <1>2 DEF send
  <2>4. QED
    BY <2>1, <2>2, <2>3 DEF Fetched
<1>3. CASE WireFails
  <2>1. PICK causes \in SUBSET ({"ECONNRESET", "TimeoutError", "AbortError"} \union UNION Failures) :
               fetch' = [fetch EXCEPT !.phase = "failed", !.wire = [NoAnswer EXCEPT !.causes = causes]]
    BY <1>3 DEF WireFails, Failures
  <2>2. [NoAnswer EXCEPT !.causes = causes] \in Wires
    BY <2>1 DEF NoAnswer, Wires
  <2>3. QED
    BY <2>1, <2>2 DEF Fetched
<1>4. CASE FetchDeadline
  BY <1>4 DEF FetchDeadline, Fetched
<1>5. CASE CallerAborts
  BY <1>5 DEF CallerAborts, Fetched
<1>6. CASE getJson
  <2>. DEFINE reason == IF fetch.aborted THEN "AbortError" ELSE attempted
  <2>1. /\ reason \in FetchReasons /\ (reason = "AbortError" <=> fetch.aborted)
        /\ ~fetch.aborted =>
             /\ fetch.deadline => reason = "timeout"
             /\ reason = "ok" => fetch.wire.status \in 200..299 /\ fetch.wire.body = "json"
    BY <1>6, AttemptIsTold DEF getJson, Fetched, FetchReasons
  <2>2. fetch' = [fetch EXCEPT !.phase = "returned", !.reason = reason]
    BY <1>6 DEF getJson
  <2>. HIDE DEF reason
  <2>3. QED
    BY <2>1, <2>2 DEF Fetched
<1>7. CASE UNCHANGED fetch
  BY <1>7 DEF Fetched
<1>8. QED
  BY <1>1, <1>2, <1>3, <1>4, <1>5, <1>6, <1>7
     DEF TransportNext, transportVars, start, ChildExits, ChildCloses, CaptureDeadline, ChildGone

LEMMA AskedKeeps == Asked /\ [TransportNext]_transportVars => Asked'
<1>. SUFFICES ASSUME Asked, [TransportNext]_transportVars PROVE Asked'
  OBVIOUS
<1>1. CanAsk \/ asked' = asked
  BY Zenon DEF TransportNext, transportVars, start, ChildExits, ChildCloses, CaptureDeadline, ChildGone,
               get, send, WireFails, FetchDeadline, CallerAborts, getJson
<1>2. QED
  BY <1>1, TransportAssumption DEF Asked, CanAsk

LEMMA InitTransport == TransportInit => Raced /\ Fetched /\ Asked
<1>. SUFFICES ASSUME TransportInit PROVE Raced /\ Fetched /\ Asked
  OBVIOUS
<1>1. Raced
  BY DEF TransportInit, IdleCapture, NoExit, Raced, Ended, RunReasons
<1>2. Fetched
  BY DEF TransportInit, IdleFetch, NoAnswer, Fetched, Wires, FetchReasons
<1>3. Asked
  BY TransportAssumption DEF TransportInit, Asked
<1>4. QED
  BY <1>1, <1>2, <1>3

LEMMA RaceIsTold == Raced /\ Fetched => ResultsAreTold
<1>. SUFFICES ASSUME Raced, Fetched PROVE ResultsAreTold
  OBVIOUS
<1>1. /\ classifyExit(capture.exit) = "ok" <=> capture.exit.code = 0
      /\ classifyExit(capture.exit) # "spawn_error"
  BY ExitIsTold DEF Raced
<1>2. QED
  BY <1>1 DEF Raced, Fetched, ResultsAreTold

\* Whatever the wire does and however a deadline races an answer, each run and each
\* request is told once, with what came of it, and no process is left behind by a
\* result (ssh.ts, http.ts).
THEOREM AsksAreTold == TransportSpec => [](TransportTypeOK /\ ResultsAreTold)
<1>1. TransportInit => Raced /\ Fetched /\ Asked
  BY InitTransport
<1>2. Raced /\ Fetched /\ Asked /\ [TransportNext]_transportVars => (Raced /\ Fetched /\ Asked)'
  BY RacedKeeps, FetchedKeeps, AskedKeeps
<1>3. Raced /\ Fetched /\ Asked => TransportTypeOK
  BY DEF Raced, Fetched, Asked, TransportTypeOK
<1>4. Raced /\ Fetched /\ Asked => ResultsAreTold
  BY RaceIsTold
<1>5. QED
  BY <1>1, <1>2, <1>3, <1>4, PTL DEF TransportSpec

---------------------------------------------------------------------------
\* Extremes of a bounded set of numbers.

LEMMA Least ==
  ASSUME NEW T \in SUBSET Nat, T # {}
  PROVE  \E x \in T : \A y \in T : x <= y
<1>. DEFINE R == OpToRel(<, Nat)
<1>1. IsWellFoundedOn(R, Nat)
  BY NatLessThanWellFounded
<1>2. PICK x \in T : \A y \in T : ~(<<y, x>> \in R)
  BY <1>1, WFMin
<1>3. ASSUME NEW y \in T PROVE x <= y
  <2>1. x \in Nat /\ y \in Nat
    OBVIOUS
  <2>2. ~(y < x)
    BY <1>2, <2>1 DEF OpToRel
  <2>3. QED
    BY <2>1, <2>2
<1>4. QED
  BY <1>3

LEMMA Greatest ==
  ASSUME NEW n \in Nat, NEW T \in SUBSET (0..n), T # {}
  PROVE  \E x \in T : \A y \in T : y <= x
<1>. DEFINE U == {n - y : y \in T}
<1>1. U \subseteq Nat /\ U # {}
  <2>1. \A y \in T : n - y \in Nat
    OBVIOUS
  <2>2. QED
    BY <2>1
<1>2. PICK u \in U : \A v \in U : u <= v
  BY <1>1, Least
<1>3. PICK x \in T : u = n - x
  OBVIOUS
<1>4. ASSUME NEW y \in T PROVE y <= x
  <2>1. n - y \in U /\ y \in Nat /\ x \in Nat
    OBVIOUS
  <2>2. n - x <= n - y
    BY <1>2, <1>3, <2>1
  <2>3. QED
    BY <2>1, <2>2
<1>5. QED
  BY <1>4

LEMMA MaxIs ==
  ASSUME NEW T \in SUBSET Int, NEW x \in T, \A y \in T : y <= x
  PROVE  Max(T) = x
<1>1. Max(T) \in T /\ \A y \in T : Max(T) >= y
  BY DEF Max
<1>2. Max(T) \in Int /\ x \in Int /\ Max(T) >= x /\ Max(T) <= x
  BY <1>1
<1>3. QED
  BY <1>2

LEMMA MinIs ==
  ASSUME NEW T \in SUBSET Int, NEW x \in T, \A y \in T : x <= y
  PROVE  Min(T) = x
<1>1. Min(T) \in T /\ \A y \in T : Min(T) <= y
  BY DEF Min
<1>2. Min(T) \in Int /\ x \in Int /\ Min(T) <= x /\ Min(T) >= x
  BY <1>1
<1>3. QED
  BY <1>2

---------------------------------------------------------------------------
\* What the dashboard says of a host.

\* However often the clock was set back, how long a family has been silent is told
\* by its rows to within the ticks it was set back by, for as long as they are kept,
\* and how long no round completed by the heartbeat.
FamiliesKept ==
  /\ \A s \in samples : s.at <= now + setBacks - quiet[MetricFamily[s.metric]]
  /\ \A f \in Families : quiet[f] <= Retention =>
       \E s \in samples : MetricFamily[s.metric] = f /\ s.at >= now - quiet[f]
BeatKept ==
  /\ beat = NoTime => idle = Never
  /\ beat # NoTime => /\ beat <= now + setBacks - idle
                      /\ idle <= Retention => beat >= now - idle
Timed == FamiliesKept /\ BeatKept

LEMMA InitFleet == FleetInit => FleetTypeOK /\ Timed
<1>. SUFFICES ASSUME FleetInit PROVE FleetTypeOK /\ Timed
  OBVIOUS
<1>1. FleetTypeOK
  BY FleetAssumption DEF FleetInit, FleetTypeOK, Never
<1>2. Timed
  BY FleetAssumption DEF FleetInit, Timed, FamiliesKept, BeatKept, Never
<1>3. QED
  BY <1>1, <1>2

\* A tick's rows keep the types and say that their families were heard.
LEMMA WrittenKeeps ==
  ASSUME FleetTypeOK, NEW read \in SUBSET Metrics, NEW level \in [Metrics -> Levels],
         writeSamples(read, level), quiet' = heard(read), now' = now, setBacks' = setBacks
  PROVE  /\ samples' \subseteq [metric : Metrics, at : 0..MaxNow, level : Levels]
         /\ quiet' \in [Families -> 0..Never]
         /\ FamiliesKept => FamiliesKept'
<1>. DEFINE kept == {s \in samples : ~(s.metric \in read /\ s.at = now)}
            new == {[metric |-> m, at |-> now, level |-> level[m]] : m \in read}
<1>0. samples' = kept \union new
  BY DEF writeSamples
<1>1. samples' \subseteq [metric : Metrics, at : 0..MaxNow, level : Levels]
  <2>1. new \subseteq [metric : Metrics, at : 0..MaxNow, level : Levels]
    BY DEF FleetTypeOK
  <2>2. QED
    BY <1>0, <2>1 DEF FleetTypeOK
<1>2. quiet' \in [Families -> 0..Never]
  BY FleetAssumption DEF heard, FleetTypeOK, Never
<1>3. ASSUME FamiliesKept PROVE FamiliesKept'
  <2>1. \A m \in Metrics : MetricFamily[m] \in Families
    BY DEF Families
  <2>2. \A f \in Families : quiet'[f] = IF \E m \in read : MetricFamily[m] = f THEN 0 ELSE quiet[f]
    BY DEF heard
  <2>3. \A s \in new : s.metric \in read /\ s.at = now
    OBVIOUS
  <2>4. ASSUME NEW m \in read PROVE \E s \in new : s.metric = m /\ s.at = now
    <3>. WITNESS [metric |-> m, at |-> now, level |-> level[m]] \in new
    <3>1. QED
      OBVIOUS
  <2>5. \A s \in samples : s.metric \in Metrics /\ s.at \in Nat
    BY DEF FleetTypeOK
  <2>6. now \in Nat /\ setBacks \in Nat /\ (\A f \in Families : quiet[f] \in Nat)
    BY FleetAssumption DEF FleetTypeOK, Never
  <2>. HIDE DEF new
  <2>7. ASSUME NEW s \in samples'
        PROVE  s.at <= now' + setBacks' - quiet'[MetricFamily[s.metric]]
    <3>1. CASE s \in new
      <4>1. s.metric \in read /\ s.at = now /\ MetricFamily[s.metric] \in Families
        BY <2>1, <2>3, <3>1
      <4>2. quiet'[MetricFamily[s.metric]] = 0
        BY <2>2, <4>1
      <4>3. QED
        BY <2>6, <4>1, <4>2
    <3>2. CASE s \in kept
      <4>1. /\ MetricFamily[s.metric] \in Families /\ s.at \in Nat
            /\ s.at <= now + setBacks - quiet[MetricFamily[s.metric]]
        BY <1>3, <2>1, <2>5, <3>2 DEF FamiliesKept
      <4>2. quiet'[MetricFamily[s.metric]] \in {0, quiet[MetricFamily[s.metric]]}
        BY <2>2, <4>1
      <4>3. QED
        BY <2>6, <4>1, <4>2
    <3>3. QED
      BY <1>0, <3>1, <3>2
  <2>8. ASSUME NEW f \in Families, quiet'[f] <= Retention
        PROVE  \E s \in samples' : MetricFamily[s.metric] = f /\ s.at >= now' - quiet'[f]
    <3>1. CASE \E m \in read : MetricFamily[m] = f
      <4>1. PICK m \in read : MetricFamily[m] = f
        BY <3>1
      <4>2. PICK s \in new : s.metric = m /\ s.at = now
        BY <2>4
      <4>3. quiet'[f] = 0
        BY <2>2, <3>1
      <4>4. QED
        BY <1>0, <2>6, <4>1, <4>2, <4>3
    <3>2. CASE ~\E m \in read : MetricFamily[m] = f
      <4>1. quiet'[f] = quiet[f]
        BY <2>2, <3>2
      <4>2. PICK s \in samples : MetricFamily[s.metric] = f /\ s.at >= now - quiet[f]
        BY <1>3, <2>8, <4>1 DEF FamiliesKept
      <4>3. s \in kept
        BY <3>2, <4>2
      <4>4. QED
        BY <1>0, <4>1, <4>2, <4>3
    <3>3. QED
      BY <3>1, <3>2
  <2>9. QED
    BY <2>7, <2>8 DEF FamiliesKept
<1>4. QED
  BY <1>1, <1>2, <1>3

LEMMA AloneIs ==
  ASSUME NEW metric, NEW level \in Levels
  PROVE  Alone(metric, level) \in [Metrics -> Levels]
BY DEF Alone, Levels

LEMMA FleetKeeps ==
  ASSUME FleetTypeOK, Timed, [FleetNext]_fleetVars
  PROVE  FleetTypeOK' /\ Timed'
<1>0. /\ now \in Nat /\ now <= MaxNow /\ MaxNow \in Nat /\ Retention \in Nat /\ setBacks \in Nat
      /\ \A f \in Families : quiet[f] \in Nat
      /\ \A s \in samples : s.at \in Nat /\ s.metric \in Metrics /\ MetricFamily[s.metric] \in Families
      /\ beat # NoTime => beat \in Nat
      /\ idle \in Nat
  BY FleetAssumption DEF FleetTypeOK, Never, Families
<1>1. ASSUME NEW silent \in SUBSET {MetricFamily[m] : m \in Metrics \ SlowMetrics},
             NEW load \in LoadLevels, VitalsRound(silent, load)
      PROVE  FleetTypeOK' /\ Timed'
  <2>. DEFINE read == {m \in sources \ SlowMetrics : MetricFamily[m] \notin silent}
              level == Alone(LoadMetric, load)
  <2>1. read \in SUBSET Metrics /\ level \in [Metrics -> Levels]
    <3>1. load \in Levels
      BY DEF Levels
    <3>2. QED
      BY <3>1, AloneIs DEF FleetTypeOK
  <2>2. /\ writeSamples(read, level) /\ quiet' = heard(read) /\ beat' = now /\ idle' = 0
        /\ now' = now /\ sources' = sources /\ setBacks' = setBacks
    BY <1>1 DEF VitalsRound
  <2>. HIDE DEF read, level
  <2>3. /\ samples' \subseteq [metric : Metrics, at : 0..MaxNow, level : Levels]
        /\ quiet' \in [Families -> 0..Never]
        /\ FamiliesKept => FamiliesKept'
    BY <2>1, <2>2, WrittenKeeps
  <2>4. FleetTypeOK'
    BY <2>2, <2>3, FleetAssumption DEF FleetTypeOK, Never
  <2>5. BeatKept'
    BY <1>0, <2>2, FleetAssumption DEF BeatKept, FleetTypeOK
  <2>6. QED
    BY <2>3, <2>4, <2>5 DEF Timed
<1>2. ASSUME NEW disk \in DiskLevels, SlowTier(disk)
      PROVE  FleetTypeOK' /\ Timed'
  <2>. DEFINE read == sources \intersect SlowMetrics
              level == Alone(DiskMetric, disk)
  <2>1. read \in SUBSET Metrics /\ level \in [Metrics -> Levels]
    <3>1. disk \in Levels
      BY DEF Levels
    <3>2. QED
      BY <3>1, AloneIs DEF FleetTypeOK
  <2>2. /\ writeSamples(read, level) /\ quiet' = heard(read)
        /\ now' = now /\ beat' = beat /\ sources' = sources /\ setBacks' = setBacks /\ idle' = idle
    BY <1>2 DEF SlowTier
  <2>. HIDE DEF read, level
  <2>3. /\ samples' \subseteq [metric : Metrics, at : 0..MaxNow, level : Levels]
        /\ quiet' \in [Families -> 0..Never]
        /\ FamiliesKept => FamiliesKept'
    BY <2>1, <2>2, WrittenKeeps
  <2>4. FleetTypeOK'
    BY <2>2, <2>3 DEF FleetTypeOK
  <2>5. BeatKept => BeatKept'
    BY <2>2 DEF BeatKept
  <2>6. QED
    BY <2>3, <2>4, <2>5 DEF Timed
<1>3. ASSUME NEW m \in Mortal, SourceGoes(m)
      PROVE  FleetTypeOK' /\ Timed'
  BY <1>3 DEF SourceGoes, FleetTypeOK, Timed, FamiliesKept, BeatKept
<1>4. CASE prune
  <2>1. /\ samples' = {s \in samples : s.at >= now - Retention}
        /\ now' = now /\ beat' = beat /\ sources' = sources /\ setBacks' = setBacks
        /\ quiet' = quiet /\ idle' = idle
    BY <1>4 DEF prune
  <2>2. FleetTypeOK'
    BY <2>1 DEF FleetTypeOK
  <2>3. ASSUME FamiliesKept PROVE FamiliesKept'
    <3>1. ASSUME NEW f \in Families, quiet[f] <= Retention
          PROVE  \E s \in samples' : MetricFamily[s.metric] = f /\ s.at >= now - quiet[f]
      <4>1. PICK s \in samples : MetricFamily[s.metric] = f /\ s.at >= now - quiet[f]
        BY <2>3, <3>1 DEF FamiliesKept
      <4>2. s.at >= now - Retention
        BY <1>0, <3>1, <4>1
      <4>3. QED
        BY <2>1, <4>1, <4>2
    <3>2. QED
      BY <2>1, <2>3, <3>1 DEF FamiliesKept
  <2>4. BeatKept => BeatKept'
    BY <2>1 DEF BeatKept
  <2>5. QED
    BY <2>2, <2>3, <2>4 DEF Timed
<1>5. CASE ClockTicks
  <2>1. /\ now < MaxNow /\ now' = now + 1
        /\ quiet' = [f \in Families |-> Older(quiet[f])] /\ idle' = Older(idle)
        /\ samples' = samples /\ beat' = beat /\ sources' = sources /\ setBacks' = setBacks
    BY <1>5 DEF ClockTicks
  <2>2. \A n \in 0..Never : Older(n) \in 0..Never /\ n <= Older(n) /\ Older(n) <= n + 1
                            /\ (Older(n) <= Retention => Older(n) = n + 1)
    BY FleetAssumption DEF Older, Never
  <2>3. \A f \in Families : quiet[f] \in 0..Never /\ quiet'[f] = Older(quiet[f])
    BY <2>1 DEF FleetTypeOK
  <2>4. FleetTypeOK'
    BY <1>0, <2>1, <2>2, <2>3 DEF FleetTypeOK
  <2>5. ASSUME FamiliesKept PROVE FamiliesKept'
    <3>1. ASSUME NEW s \in samples
          PROVE  s.at <= now' + setBacks - quiet'[MetricFamily[s.metric]]
      <4>1. s.at <= now + setBacks - quiet[MetricFamily[s.metric]]
        BY <2>5 DEF FamiliesKept
      <4>2. quiet'[MetricFamily[s.metric]] <= quiet[MetricFamily[s.metric]] + 1
        BY <1>0, <2>2, <2>3
      <4>3. quiet'[MetricFamily[s.metric]] \in Int
        BY <1>0, <2>2, <2>3
      <4>4. QED
        BY <1>0, <2>1, <4>1, <4>2, <4>3
    <3>2. ASSUME NEW f \in Families, quiet'[f] <= Retention
          PROVE  \E s \in samples : MetricFamily[s.metric] = f /\ s.at >= now' - quiet'[f]
      <4>1. quiet'[f] = quiet[f] + 1 /\ quiet[f] <= Retention
        BY <1>0, <2>2, <2>3, <3>2
      <4>2. PICK s \in samples : MetricFamily[s.metric] = f /\ s.at >= now - quiet[f]
        BY <2>5, <4>1 DEF FamiliesKept
      <4>3. s.at >= now' - quiet'[f]
        BY <1>0, <2>1, <4>1, <4>2
      <4>4. QED
        BY <4>2, <4>3
    <3>3. QED
      BY <2>1, <3>1, <3>2 DEF FamiliesKept
  <2>6. ASSUME BeatKept PROVE BeatKept'
    <3>1. idle \in 0..Never /\ idle' = Older(idle) /\ idle' \in Nat /\ idle' <= idle + 1
      BY <2>1, <2>2 DEF FleetTypeOK, Never
    <3>2. beat = NoTime => idle' = Never
      BY <2>1, <2>6 DEF BeatKept, Older
    <3>3. ASSUME beat # NoTime PROVE beat <= now' + setBacks - idle'
      BY <1>0, <2>1, <2>6, <3>1, <3>3 DEF BeatKept
    <3>4. ASSUME beat # NoTime, idle' <= Retention PROVE beat >= now' - idle'
      <4>1. idle' = idle + 1 /\ idle <= Retention
        BY <1>0, <2>2, <3>1, <3>4
      <4>2. QED
        BY <1>0, <2>1, <2>6, <3>4, <4>1 DEF BeatKept
    <3>5. QED
      BY <2>1, <3>2, <3>3, <3>4 DEF BeatKept, Never
  <2>7. QED
    BY <2>4, <2>5, <2>6 DEF Timed
<1>6. CASE ClockSetBack
  <2>1. /\ now' = now - 1 /\ setBacks' = setBacks + 1 /\ now > 1
        /\ samples' = samples /\ beat' = beat /\ quiet' = quiet /\ idle' = idle
    BY <1>6 DEF ClockSetBack
  <2>2. FleetTypeOK'
    BY <1>0, <1>6, FleetAssumption DEF ClockSetBack, FleetTypeOK
  <2>3. now' + setBacks' = now + setBacks /\ now' <= now /\ now' \in Nat
    BY <1>0, <2>1
  <2>4. FamiliesKept'
    <3>1. ASSUME NEW f \in Families, quiet[f] <= Retention
          PROVE  \E s \in samples : MetricFamily[s.metric] = f /\ s.at >= now' - quiet[f]
      <4>1. PICK s \in samples : MetricFamily[s.metric] = f /\ s.at >= now - quiet[f]
        BY <3>1 DEF FamiliesKept, Timed
      <4>2. s.at >= now' - quiet[f]
        BY <1>0, <2>3, <4>1
      <4>3. QED
        BY <4>1, <4>2
    <3>2. \A s \in samples : s.at <= now' + setBacks' - quiet[MetricFamily[s.metric]]
      <4>. SUFFICES ASSUME NEW s \in samples
                    PROVE  s.at <= now' + setBacks' - quiet[MetricFamily[s.metric]]
        OBVIOUS
      <4>1. s.at <= now + setBacks - quiet[MetricFamily[s.metric]]
        BY DEF FamiliesKept, Timed
      <4>2. quiet[MetricFamily[s.metric]] \in Nat /\ s.at \in Nat
        BY <1>0
      <4>3. QED
        BY <1>0, <2>1, <4>1, <4>2
    <3>3. QED
      BY <2>1, <3>1, <3>2 DEF FamiliesKept
  <2>5. BeatKept'
    BY <1>0, <2>1, <2>3 DEF BeatKept, Timed, Never
  <2>6. QED
    BY <2>2, <2>4, <2>5 DEF Timed
<1>7. CASE UNCHANGED fleetVars
  BY <1>7 DEF fleetVars, FleetTypeOK, Timed, FamiliesKept, BeatKept
<1>8. QED
  BY <1>1, <1>2, <1>3, <1>4, <1>5, <1>6, <1>7 DEF FleetNext

\* The metrics the page can date.
Dated == {m \in Metrics : \E s \in samples : s.metric = m /\ s.at >= since}

LEMMA NewestIs ==
  ASSUME FleetTypeOK, NEW m \in Metrics, rowsOf(m) # {}
  PROVE  newest(m) \in rowsOf(m) /\ \A t \in rowsOf(m) : t.at <= newest(m).at
<1>. DEFINE T == {s.at : s \in rowsOf(m)}
<1>1. \A s \in rowsOf(m) : s.at \in 0..MaxNow
  BY DEF FleetTypeOK, rowsOf
<1>2. T \in SUBSET (0..MaxNow) /\ T # {}
  BY <1>1
<1>3. PICK x \in T : \A y \in T : y <= x
  BY <1>2, FleetAssumption, Greatest
<1>4. PICK s \in rowsOf(m) : s.at = x
  OBVIOUS
<1>5. \A t \in rowsOf(m) : t.at <= s.at
  BY <1>3, <1>4
<1>6. QED
  BY <1>5, Zenon DEF newest

\* Each age is that of the metric's newest row, and what is shown is dated.
LEMMA AgesAre ==
  ASSUME FleetTypeOK
  PROVE  /\ DOMAIN metricAges = Dated
         /\ \A m \in Dated : /\ rowsOf(m) # {} /\ newest(m).at >= since
                             /\ metricAges[m] = newest(m).at
                             /\ metricAges[m] \in 0..MaxNow
         /\ latest = {newest(m) : m \in Dated}
         /\ \A m \in Dated : newest(m).metric = m /\ newest(m) \in samples
<1>. DEFINE seen(m) == {s.at : s \in {t \in rowsOf(m) : t.at >= since}}
            dated == {m \in Metrics : seen(m) # {}}
<1>1. metricAges = [m \in dated |-> Max(seen(m))]
  BY DEF metricAges
<1>2. dated = Dated
  BY DEF Dated, rowsOf
<1>3. \A s \in samples : s.at \in 0..MaxNow /\ s.at \in Int /\ s.metric \in Metrics
  BY FleetAssumption DEF FleetTypeOK
<1>4. since \in Int
  BY FleetAssumption DEF since, FleetTypeOK
<1>5. ASSUME NEW m \in Metrics, rowsOf(m) # {}, newest(m).at >= since
      PROVE  m \in Dated
  BY <1>5, NewestIs DEF Dated, rowsOf
<1>6. ASSUME NEW m \in Dated
      PROVE  /\ rowsOf(m) # {} /\ newest(m).at >= since /\ Max(seen(m)) = newest(m).at
             /\ newest(m).metric = m /\ newest(m) \in samples /\ newest(m).at \in 0..MaxNow
  <2>1. PICK s \in samples : s.metric = m /\ s.at >= since
    BY DEF Dated
  <2>2. s \in rowsOf(m) /\ m \in Metrics
    BY <2>1 DEF rowsOf, Dated
  <2>3. newest(m) \in rowsOf(m) /\ \A t \in rowsOf(m) : t.at <= newest(m).at
    BY <2>2, NewestIs
  <2>4. newest(m) \in samples /\ newest(m).metric = m /\ newest(m).at \in 0..MaxNow
    BY <1>3, <2>3 DEF rowsOf
  <2>5. newest(m).at >= since
    BY <1>3, <1>4, <2>1, <2>2, <2>3, <2>4
  <2>6. newest(m).at \in seen(m)
    BY <2>3, <2>5
  <2>7. \A y \in seen(m) : y \in Int /\ y <= newest(m).at
    BY <1>3, <2>3 DEF rowsOf
  <2>. HIDE DEF seen
  <2>8. Max(seen(m)) = newest(m).at
    BY <2>6, <2>7, MaxIs
  <2>9. QED
    BY <2>2, <2>4, <2>5, <2>8
<1>7. DOMAIN metricAges = Dated
  BY <1>1, <1>2
<1>8. \A m \in Dated : metricAges[m] = Max(seen(m))
  BY <1>1, <1>2
<1>9. {m \in {k \in Metrics : rowsOf(k) # {} /\ newest(k).at >= since} : TRUE} = Dated
  BY <1>5, <1>6 DEF Dated
<1>10. latest = {newest(m) : m \in Dated}
  <2>1. {k \in Metrics : rowsOf(k) # {} /\ newest(k).at >= since} = Dated
    BY <1>9
  <2>2. QED
    BY <2>1 DEF latest
<1>11. QED
  BY <1>6, <1>7, <1>8, <1>10

LEMMA WhatIsShown == FleetTypeOK => ShownIsDated
<1>. SUFFICES ASSUME FleetTypeOK PROVE ShownIsDated
  OBVIOUS
<1>. DEFINE dated(s) == s.at >= since
            cores == {c \in CoreMetrics : \E s \in samples : s.metric = c /\ dated(s)}
            warned == \E s \in samples :
                        /\ dated(s)
                        /\ \/ s.metric = DiskMetric /\ s.level >= 1
                           \/ s.metric = LoadMetric /\ cores # {} /\ s.level >= Cardinality(cores)
            unknown == \A s \in samples : ~dated(s)
<1>1. shown = Dated
  <2>1. shown = {newest(m).metric : m \in Dated}
    BY AgesAre DEF shown
  <2>2. \A m \in Dated : newest(m).metric = m
    BY AgesAre
  <2>3. QED
    BY <2>1, <2>2
<1>2. hostView.metrics = DOMAIN metricAges
  BY <1>1, AgesAre DEF hostView
<1>3. \A s \in latest : s.at = metricAges[s.metric] /\ s \in samples /\ dated(s)
  BY AgesAre
<1>4. hostView.state = hostState
  BY DEF hostView
<1>5. hostState = "warn" => warned
  <2>1. shown \intersect CoreMetrics = cores
    <3>1. \A s \in samples : s.metric \in Metrics
      BY DEF FleetTypeOK
    <3>2. QED
      BY <1>1, <3>1 DEF Dated
  <2>2. Dated \subseteq Metrics /\ (overLoad => cores # {})
    <3>1. coreCount > 0 => coreCount # 0
      OBVIOUS
    <3>2. cores = {} => coreCount = 0
      BY <2>1, FS_EmptySet DEF coreCount
    <3>3. QED
      BY <3>1, <3>2 DEF overLoad, Dated
  <2>3. overDisk => warned
    BY <1>3 DEF overDisk
  <2>4. overLoad => warned
    <3>1. coreCount = Cardinality(cores)
      BY <2>1 DEF coreCount
    <3>. HIDE DEF cores
    <3>2. QED
      BY <1>3, <2>2, <3>1 DEF overLoad
  <2>5. hostState = "warn" => overDisk \/ overLoad
    BY DEF hostState
  <2>. HIDE DEF warned
  <2>6. QED
    BY <2>3, <2>4, <2>5
<1>6. hostState = "unknown" <=> unknown
  <2>1. hostState = "unknown" <=> Dated = {}
    BY <1>1 DEF hostState, collected
  <2>2. \A s \in samples : s.metric \in Metrics
    BY DEF FleetTypeOK
  <2>3. Dated = {} <=> unknown
    BY <2>2 DEF Dated
  <2>4. QED
    BY <2>1, <2>3
<1>7. (hostView.state = "unknown") = unknown
  <2>. HIDE DEF unknown
  <2>1. unknown \in BOOLEAN
    BY DEF unknown
  <2>2. QED
    BY <1>4, <1>6, <2>1
<1>8. QED
  BY <1>2, <1>3, <1>4, <1>5, <1>7, Zenon DEF ShownIsDated

\* The moment a family was last heard, of those the page can date.
Freshest(f) == Max({metricAges[m] : m \in {k \in DOMAIN metricAges : MetricFamily[k] = f}})

\* The freshest of a family's dated metrics speaks for it.
LEMMA FreshestIs ==
  ASSUME FleetTypeOK, NEW m \in Dated
  PROVE  /\ Freshest(MetricFamily[m]) \in 0..MaxNow
         /\ \E k \in Dated : /\ MetricFamily[k] = MetricFamily[m]
                             /\ metricAges[k] = Freshest(MetricFamily[m])
         /\ \A k \in Dated : MetricFamily[k] = MetricFamily[m] =>
                               metricAges[k] <= Freshest(MetricFamily[m])
<1>. DEFINE T == {metricAges[k] : k \in {j \in DOMAIN metricAges : MetricFamily[j] = MetricFamily[m]}}
<1>1. DOMAIN metricAges = Dated /\ (\A k \in Dated : metricAges[k] \in 0..MaxNow)
  BY AgesAre
<1>2. T \in SUBSET (0..MaxNow) /\ T # {}
  BY <1>1
<1>3. PICK x \in T : \A y \in T : y <= x
  BY <1>2, FleetAssumption, Greatest
<1>4. T \in SUBSET Int
  BY <1>2, FleetAssumption
<1>5. Max(T) = x
  <2>. HIDE DEF T
  <2>1. QED
    BY <1>3, <1>4, MaxIs
<1>6. Freshest(MetricFamily[m]) = x
  BY <1>5 DEF Freshest
<1>7. PICK k \in Dated : MetricFamily[k] = MetricFamily[m] /\ metricAges[k] = x
  BY <1>1
<1>8. \A j \in Dated : MetricFamily[j] = MetricFamily[m] => metricAges[j] <= x
  BY <1>1, <1>3
<1>9. QED
  BY <1>2, <1>6, <1>7, <1>8

\* The host is as old as the family longest unheard of those the page can date.
LEMMA StalestIs ==
  ASSUME FleetTypeOK
  PROVE  /\ Dated = {} => stalestFamily = NoTime
         /\ Dated # {} => /\ \E m \in Dated : stalestFamily = Freshest(MetricFamily[m])
                          /\ \A m \in Dated : stalestFamily <= Freshest(MetricFamily[m])
<1>. DEFINE U == {Freshest(MetricFamily[m]) : m \in Dated}
<1>1. stalestFamily = IF Dated = {} THEN NoTime ELSE Min(U)
  BY AgesAre, Zenon DEF stalestFamily, Freshest
<1>2. ASSUME Dated # {}
      PROVE  /\ \E m \in Dated : stalestFamily = Freshest(MetricFamily[m])
             /\ \A m \in Dated : stalestFamily <= Freshest(MetricFamily[m])
  <2>1. \A m \in Dated : Freshest(MetricFamily[m]) \in Nat
    BY FreshestIs, FleetAssumption
  <2>2. U \in SUBSET Nat /\ U # {}
    BY <1>2, <2>1
  <2>3. PICK x \in U : \A y \in U : x <= y
    BY <2>2, Least
  <2>4. Min(U) = x
    <3>1. U \in SUBSET Int
      BY <2>2
    <3>. HIDE DEF U
    <3>2. QED
      BY <2>3, <3>1, MinIs
  <2>5. stalestFamily = x
    BY <1>1, <1>2, <2>4
  <2>6. QED
    BY <2>3, <2>5
<1>3. QED
  BY <1>1, <1>2

\* A family the page can date was heard within the window, give or take the ticks
\* the clock was set back by, and the later of its stamps no earlier than it was.
LEMMA HeardIs ==
  ASSUME FleetTypeOK, FamiliesKept
  PROVE  /\ \A m \in Dated :
              LET f == MetricFamily[m] IN
              /\ f \in Families /\ quiet[f] <= Window + setBacks
              /\ Freshest(f) <= now + setBacks - quiet[f] /\ Freshest(f) >= now - Window
              /\ quiet[f] <= Window => Freshest(f) >= now - quiet[f]
         /\ \A f \in Families : quiet[f] <= Window => \E m \in Dated : MetricFamily[m] = f
<1>0. /\ now \in Nat /\ Window \in Nat /\ Retention \in Nat /\ Window <= Retention /\ setBacks \in Nat
      /\ since = now - Window /\ MaxNow \in Nat
      /\ \A f \in Families : quiet[f] \in Nat
      /\ \A s \in samples : s.at \in Nat /\ s.metric \in Metrics
      /\ \A m \in Metrics : MetricFamily[m] \in Families
  BY FleetAssumption DEF FleetTypeOK, Never, since, Families
<1>1. ASSUME NEW f \in Families, quiet[f] <= Window
      PROVE  \E m \in Dated : MetricFamily[m] = f /\ metricAges[m] >= now - quiet[f]
  <2>1. quiet[f] <= Retention
    BY <1>0, <1>1
  <2>2. PICK s \in samples : MetricFamily[s.metric] = f /\ s.at >= now - quiet[f]
    BY <2>1 DEF FamiliesKept
  <2>3. s.at >= since
    BY <1>0, <1>1, <2>2
  <2>4. s.metric \in Dated
    BY <1>0, <2>3 DEF Dated
  <2>5. s \in rowsOf(s.metric) /\ s.metric \in Metrics
    BY <1>0 DEF rowsOf
  <2>6. s.at <= newest(s.metric).at
    BY <2>5, NewestIs
  <2>7. metricAges[s.metric] = newest(s.metric).at /\ metricAges[s.metric] \in Nat
    BY <1>0, <2>4, AgesAre
  <2>8. QED
    BY <1>0, <1>1, <2>2, <2>4, <2>6, <2>7
<1>2. ASSUME NEW m \in Dated
      PROVE  LET f == MetricFamily[m] IN
             /\ f \in Families /\ quiet[f] <= Window + setBacks
             /\ Freshest(f) <= now + setBacks - quiet[f] /\ Freshest(f) >= now - Window
             /\ quiet[f] <= Window => Freshest(f) >= now - quiet[f]
  <2>. DEFINE f == MetricFamily[m]
  <2>1. f \in Families
    BY <1>0 DEF Dated
  <2>2. PICK k \in Dated : MetricFamily[k] = f /\ metricAges[k] = Freshest(f)
    BY FreshestIs
  <2>3. /\ newest(k) \in samples /\ newest(k).metric = k
        /\ metricAges[k] = newest(k).at /\ newest(k).at >= since
    BY AgesAre
  <2>4. newest(k).at <= now + setBacks - quiet[f]
    BY <2>2, <2>3 DEF FamiliesKept
  <2>5. Freshest(f) \in Nat /\ Freshest(f) <= now + setBacks - quiet[f] /\ Freshest(f) >= now - Window
    BY <1>0, <2>2, <2>3, <2>4
  <2>6. ASSUME quiet[f] <= Window PROVE Freshest(f) >= now - quiet[f]
    <3>1. PICK j \in Dated : MetricFamily[j] = f /\ metricAges[j] >= now - quiet[f]
      BY <1>1, <2>1, <2>6
    <3>2. metricAges[j] <= Freshest(f) /\ metricAges[j] \in Nat
      BY <1>0, <3>1, FreshestIs, AgesAre
    <3>3. QED
      BY <1>0, <2>1, <2>5, <3>1, <3>2
  <2>. HIDE DEF f
  <2>7. quiet[f] <= Window + setBacks
    BY <1>0, <2>1, <2>5
  <2>8. QED
    BY <2>1, <2>5, <2>6, <2>7 DEF f
<1>3. QED
  BY <1>1, <1>2

\* What the page can date is ahead of the clock when the stalest family is.
LEMMA AheadIs ==
  ASSUME FleetTypeOK
  PROVE  Ahead <=> Dated # {} /\ stalestFamily > now
<1>0. now \in Nat /\ MaxNow \in Nat /\ DOMAIN metricAges = Dated /\ (\A m \in Dated : metricAges[m] \in Nat)
  BY AgesAre, FleetAssumption DEF FleetTypeOK
<1>1. ASSUME Ahead PROVE Dated # {} /\ stalestFamily > now
  <2>1. Dated # {}
    BY <1>0, <1>1 DEF Ahead
  <2>2. PICK m \in Dated : stalestFamily = Freshest(MetricFamily[m])
    BY <2>1, StalestIs
  <2>3. PICK k \in Dated : MetricFamily[k] = MetricFamily[m] /\ metricAges[k] > now
    BY <1>0, <1>1 DEF Ahead
  <2>4. metricAges[k] <= Freshest(MetricFamily[m]) /\ Freshest(MetricFamily[m]) \in Nat
    BY <1>0, <2>3, FreshestIs
  <2>5. QED
    BY <1>0, <2>1, <2>2, <2>3, <2>4
<1>2. ASSUME Dated # {}, stalestFamily > now PROVE Ahead
  <2>1. ASSUME NEW m \in Dated
        PROVE  \E k \in Dated : MetricFamily[k] = MetricFamily[m] /\ metricAges[k] > now
    <3>1. PICK k \in Dated : MetricFamily[k] = MetricFamily[m] /\ metricAges[k] = Freshest(MetricFamily[m])
      BY FreshestIs
    <3>2. PICK j \in Dated : stalestFamily = Freshest(MetricFamily[j])
      BY <1>2, StalestIs
    <3>3. stalestFamily <= Freshest(MetricFamily[m]) /\ stalestFamily \in Nat
      BY <1>0, <1>2, <3>2, StalestIs, FreshestIs
    <3>4. metricAges[k] > now
      BY <1>0, <1>2, <3>1, <3>3
    <3>5. QED
      BY <3>1, <3>4
  <2>2. QED
    BY <1>0, <1>2, <2>1 DEF Ahead
<1>3. QED
  BY <1>1, <1>2

LEMMA WhatIsSilent == FleetTypeOK /\ Timed => SilenceIsSaid
<1>. SUFFICES ASSUME FleetTypeOK, Timed PROVE SilenceIsSaid
  OBVIOUS
<1>0. /\ now \in Nat /\ Window \in Nat /\ MetricsStaleAfter \in Nat /\ StaleAfter \in Nat
      /\ Retention \in Nat /\ StaleAfter <= Retention /\ NoTime \notin 0..MaxNow /\ MaxNow \in Nat
      /\ now <= MaxNow /\ setBacks \in Nat /\ idle \in Nat /\ (\A f \in Families : quiet[f] \in Nat)
      /\ FamiliesKept /\ BeatKept
  BY FleetAssumption DEF FleetTypeOK, Never, Timed
<1>. DEFINE mute == \A f \in Families : quiet[f] > Window
            muteLong == \A f \in Families : quiet[f] > Window + setBacks
            late == \E f \in Families : quiet[f] > MetricsStaleAfter /\ quiet[f] <= Window + setBacks
            lateLong == \E f \in Families : quiet[f] > MetricsStaleAfter + setBacks /\ quiet[f] <= Window
<1>2. ASSUME Dated # {}
      PROVE  (muteLong \/ lateLong \/ Ahead => metricsStale) /\ (metricsStale => mute \/ late \/ Ahead)
  <2>1. PICK m \in Dated : stalestFamily = Freshest(MetricFamily[m])
    BY <1>2, StalestIs
  <2>2. \A k \in Dated : stalestFamily <= Freshest(MetricFamily[k]) /\ Freshest(MetricFamily[k]) \in Nat
    BY <1>0, <1>2, StalestIs, FreshestIs
  <2>3. stalestFamily \in 0..MaxNow /\ stalestFamily # NoTime
    BY <1>0, <2>1, FreshestIs
  <2>4. metricsStale <=> stalestFamily > now \/ now - stalestFamily > MetricsStaleAfter
    <3>1. CASE stalestFamily > now
      BY <3>1 DEF metricsStale, ageSeconds
    <3>2. CASE ~(stalestFamily > now)
      <4>1. ageSeconds(stalestFamily) = now - stalestFamily
        BY <2>3, <3>2 DEF ageSeconds
      <4>2. now - stalestFamily \in 0..MaxNow
        BY <1>0, <2>3, <3>2
      <4>3. now - stalestFamily # NoTime
        BY <1>0, <4>2
      <4>4. QED
        BY <3>2, <4>1, <4>3 DEF metricsStale
    <3>3. QED
      BY <3>1, <3>2
  <2>5. ~muteLong
    <3>1. MetricFamily[m] \in Families /\ quiet[MetricFamily[m]] <= Window + setBacks
      BY <1>0, HeardIs
    <3>2. QED
      BY <1>0, <3>1
  <2>6. ASSUME lateLong PROVE metricsStale
    <3>1. PICK f \in Families : quiet[f] > MetricsStaleAfter + setBacks /\ quiet[f] <= Window
      BY <2>6
    <3>2. PICK k \in Dated : MetricFamily[k] = f
      BY <1>0, <3>1, HeardIs
    <3>3. Freshest(f) <= now + setBacks - quiet[f] /\ Freshest(f) \in Nat /\ stalestFamily <= Freshest(f)
      BY <1>0, <2>2, <3>2, HeardIs
    <3>4. now - stalestFamily > MetricsStaleAfter
      BY <1>0, <2>3, <3>1, <3>3
    <3>5. QED
      BY <2>4, <3>4
  <2>7. ASSUME Ahead PROVE metricsStale
    BY <2>4, <2>7, AheadIs
  <2>8. ASSUME metricsStale, ~Ahead PROVE late
    <3>1. ~(stalestFamily > now)
      BY <1>2, <2>8, AheadIs
    <3>2. now - stalestFamily > MetricsStaleAfter
      BY <2>4, <2>8, <3>1
    <3>. DEFINE f == MetricFamily[m]
    <3>3. /\ f \in Families /\ quiet[f] <= Window + setBacks /\ stalestFamily = Freshest(f)
          /\ Freshest(f) >= now - Window
          /\ quiet[f] <= Window => Freshest(f) >= now - quiet[f]
      BY <1>0, <2>1, HeardIs
    <3>. HIDE DEF f
    <3>4. quiet[f] > MetricsStaleAfter
      BY <1>0, <2>3, <3>2, <3>3
    <3>5. QED
      BY <3>3, <3>4
  <2>9. QED
    BY <2>5, <2>6, <2>7, <2>8
<1>3. /\ idle > StaleAfter + setBacks \/ (beat # NoTime /\ beat > now) => stale
      /\ stale => idle > StaleAfter \/ (beat # NoTime /\ beat > now)
  <2>1. beat # NoTime => beat \in 0..MaxNow
    BY DEF FleetTypeOK
  <2>2. CASE beat = NoTime
    BY <1>0, <2>2 DEF BeatKept, stale, ageSeconds, Never
  <2>3. CASE beat # NoTime /\ beat > now
    BY <2>3 DEF stale, ageSeconds
  <2>4. CASE beat # NoTime /\ ~(beat > now)
    <3>1. beat \in Nat /\ beat <= now /\ now - beat \in 0..MaxNow
      BY <1>0, <2>1, <2>4
    <3>2. ageSeconds(beat) = now - beat /\ now - beat # NoTime
      BY <1>0, <2>4, <3>1 DEF ageSeconds
    <3>3. stale <=> now - beat > StaleAfter
      BY <3>2 DEF stale
    <3>4. beat <= now + setBacks - idle /\ (idle <= Retention => beat >= now - idle)
      BY <1>0, <2>4 DEF BeatKept
    <3>5. QED
      BY <1>0, <2>4, <3>1, <3>3, <3>4
  <2>5. QED
    BY <2>2, <2>3, <2>4
<1>4. fleetView.host.metrics_stale = metricsStale /\ fleetView.stale = stale /\ health.stale = stale
  BY DEF fleetView, hostView, health, stale
<1>5. (muteLong \/ lateLong \/ Ahead => metricsStale) /\ (metricsStale => mute \/ late \/ Ahead)
  <2>1. CASE Dated = {}
    <3>1. metricsStale
      BY <2>1, StalestIs DEF metricsStale, ageSeconds
    <3>2. mute
      <4>. SUFFICES ASSUME NEW f \in Families PROVE quiet[f] > Window
        OBVIOUS
      <4>1. ~(quiet[f] <= Window)
        BY <1>0, <2>1, HeardIs
      <4>2. QED
        BY <1>0, <4>1
    <3>3. QED
      BY <3>1, <3>2
  <2>2. QED
    BY <1>2, <2>1
<1>6. QED
  BY <1>3, <1>4, <1>5, Zenon DEF SilenceIsSaid

\* Whatever goes silent, goes away or is set back, the page shows what it can date,
\* and marks exactly the hosts a family of whose readings has fallen silent, give or
\* take the ticks the clock was set back by (fleetView, hostView).
THEOREM FleetTold == FleetSpec => [](FleetTypeOK /\ FleetIsTold)
<1>1. FleetInit => FleetTypeOK /\ Timed
  BY InitFleet
<1>2. FleetTypeOK /\ Timed /\ [FleetNext]_fleetVars => (FleetTypeOK /\ Timed)'
  BY FleetKeeps
<1>3. FleetTypeOK /\ Timed => FleetIsTold
  BY WhatIsShown, WhatIsSilent DEF FleetIsTold
<1>4. QED
  BY <1>1, <1>2, <1>3, PTL DEF FleetSpec

---------------------------------------------------------------------------
\* A host's files: what is printed of one has no number the whole of it lacks.

Texts == Seq([head : STRING, fields : Seq(Int)])

\* A row may lose its end, and a number of it may be spoilt.
LessRow(less, row) ==
  /\ less.head = row.head /\ Len(less.fields) <= Len(row.fields)
  /\ \A j \in DOMAIN less.fields : less.fields[j] \in {row.fields[j], Malformed}
Lessens(some, rows) ==
  /\ some \in Texts /\ rows \in Texts /\ Len(some) = Len(rows)
  /\ \A i \in DOMAIN some : LessRow(some[i], rows[i])

\* Readings are numbers, of the metrics a section has.
IsReading(s) == s.value \in Nat /\ s = sample(s.metric, s.value)
Numbered(made, heads) == \A s \in made : IsReading(s) /\ s.metric[1] \in heads

LEMMA RowsOfText ==
  ASSUME NEW rows \in Texts, NEW i \in DOMAIN rows
  PROVE  rows[i] \in [head : STRING, fields : Seq(Int)] /\ rows[i].fields \in Seq(Int)
<1>. DEFINE R == [head : STRING, fields : Seq(Int)]
<1>1. rows \in Seq(R)
  BY DEF Texts
<1>2. rows[i] \in R
  <2>. HIDE DEF R
  <2>1. QED
    BY <1>1
<1>3. QED
  BY <1>2

\* A number left in a row is the row's own.
LEMMA NumbersStay ==
  ASSUME NEW some, NEW rows, Lessens(some, rows), NEW i \in DOMAIN some, NEW j \in DOMAIN some[i].fields,
         isNumber(some[i].fields[j])
  PROVE  /\ i \in DOMAIN rows /\ some[i].head = rows[i].head
         /\ j \in DOMAIN rows[i].fields /\ some[i].fields[j] = rows[i].fields[j]
         /\ some[i].fields[j] \in Nat
<1>1. i \in DOMAIN rows /\ LessRow(some[i], rows[i])
  BY DEF Lessens, Texts
<1>2. some[i].fields \in Seq(Int) /\ rows[i].fields \in Seq(Int)
  BY <1>1, RowsOfText DEF Lessens
<1>3. j \in 1..Len(rows[i].fields) /\ some[i].fields[j] \in Int
  BY <1>1, <1>2 DEF LessRow
<1>4. some[i].fields[j] = rows[i].fields[j]
  BY <1>1, <1>3 DEF LessRow, isNumber, Malformed
<1>5. QED
  BY <1>1, <1>2, <1>3, <1>4 DEF LessRow, isNumber

\* So are the first numbers of a row that still has them.
LEMMA FirstStay ==
  ASSUME NEW some, NEW rows, Lessens(some, rows), NEW i \in DOMAIN some, NEW n \in Nat,
         Numbers(some[i].fields, n)
  PROVE  /\ i \in DOMAIN rows /\ some[i].head = rows[i].head /\ Numbers(rows[i].fields, n)
         /\ \A j \in 1..n : some[i].fields[j] = rows[i].fields[j] /\ some[i].fields[j] \in Nat
<1>1. i \in DOMAIN rows /\ LessRow(some[i], rows[i]) /\ Len(some[i].fields) >= n
  BY DEF Lessens, Texts, Numbers
<1>2. some[i].fields \in Seq(Int) /\ rows[i].fields \in Seq(Int)
  BY <1>1, RowsOfText DEF Lessens
<1>3. \A j \in 1..n : j \in DOMAIN some[i].fields /\ isNumber(some[i].fields[j])
  BY <1>1, <1>2 DEF Numbers
<1>4. \A j \in 1..n : some[i].fields[j] = rows[i].fields[j] /\ some[i].fields[j] \in Nat
  BY <1>3, NumbersStay
<1>5. Len(rows[i].fields) >= n
  BY <1>1, <1>2 DEF LessRow
<1>6. \A j \in 1..n : isNumber(rows[i].fields[j])
  BY <1>3, <1>4
<1>7. QED
  BY <1>1, <1>4, <1>5, <1>6 DEF LessRow, Numbers

LEMMA StatLessens ==
  ASSUME NEW some, NEW rows, Lessens(some, rows)
  PROVE  parseStat(some) \subseteq parseStat(rows) /\ Numbered(parseStat(some), CPU_LINES)
<1>1. ASSUME NEW s \in parseStat(some)
      PROVE  s \in parseStat(rows) /\ IsReading(s) /\ s.metric[1] \in CPU_LINES
  <2>1. PICK i \in DOMAIN some : 
          /\ some[i].head \in CPU_LINES
          /\ \E j \in DOMAIN CPU_FIELDS \intersect DOMAIN some[i].fields :
               isNumber(some[i].fields[j]) /\ s = sample(<<some[i].head, CPU_FIELDS[j]>>, some[i].fields[j])
    BY DEF parseStat, FromRows
  <2>2. PICK j \in DOMAIN CPU_FIELDS \intersect DOMAIN some[i].fields :
          isNumber(some[i].fields[j]) /\ s = sample(<<some[i].head, CPU_FIELDS[j]>>, some[i].fields[j])
    BY <2>1
  <2>3. /\ i \in DOMAIN rows /\ some[i].head = rows[i].head
        /\ j \in DOMAIN rows[i].fields /\ some[i].fields[j] = rows[i].fields[j]
        /\ some[i].fields[j] \in Nat
    BY <2>1, <2>2, NumbersStay
  <2>4. s \in parseStat(rows)
    BY <2>1, <2>2, <2>3 DEF parseStat, FromRows
  <2>5. QED
    BY <2>1, <2>2, <2>3, <2>4 DEF sample, IsReading
<1>2. QED
  BY <1>1 DEF Numbered

LEMMA MeminfoLessens ==
  ASSUME NEW some, NEW rows, Lessens(some, rows)
  PROVE  parseMeminfo(some) \subseteq parseMeminfo(rows) /\ Numbered(parseMeminfo(some), {"mem"})
<1>1. ASSUME NEW s \in parseMeminfo(some)
      PROVE  s \in parseMeminfo(rows) /\ IsReading(s) /\ s.metric[1] = "mem"
  <2>1. PICK i \in DOMAIN some :
          /\ some[i].head \in MEM_KEYS /\ Numbers(some[i].fields, 1)
          /\ s = sample(<<"mem", some[i].head>>, some[i].fields[1] * 1024)
    BY DEF parseMeminfo, FromRows
  <2>2. /\ i \in DOMAIN rows /\ some[i].head = rows[i].head /\ Numbers(rows[i].fields, 1)
        /\ some[i].fields[1] = rows[i].fields[1] /\ some[i].fields[1] \in Nat
    BY <2>1, FirstStay
  <2>3. s \in parseMeminfo(rows)
    BY <2>1, <2>2 DEF parseMeminfo, FromRows
  <2>4. QED
    BY <2>1, <2>2, <2>3 DEF sample, IsReading
<1>2. QED
  BY <1>1 DEF Numbered

LEMMA NetDevLessens ==
  ASSUME NEW some, NEW rows, Lessens(some, rows)
  PROVE  parseNetDev(some) \subseteq parseNetDev(rows) /\ Numbered(parseNetDev(some), {"rx_bytes", "tx_bytes"})
<1>1. ASSUME NEW s \in parseNetDev(some)
      PROVE  s \in parseNetDev(rows) /\ IsReading(s) /\ s.metric[1] \in {"rx_bytes", "tx_bytes"}
  <2>1. PICK i \in DOMAIN some :
          /\ some[i].head \notin Skipped /\ Len(some[i].fields) >= TX_BYTES
          /\ isNumber(some[i].fields[RX_BYTES]) /\ isNumber(some[i].fields[TX_BYTES])
          /\ \/ s = sample(<<"rx_bytes", some[i].head>>, some[i].fields[RX_BYTES])
             \/ s = sample(<<"tx_bytes", some[i].head>>, some[i].fields[TX_BYTES])
    <3>1. PICK i \in DOMAIN some :
            s \in IF some[i].head \in Skipped \/ ~(Len(some[i].fields) >= TX_BYTES) THEN {}
                  ELSE IF ~isNumber(some[i].fields[RX_BYTES]) \/ ~isNumber(some[i].fields[TX_BYTES]) THEN {}
                  ELSE {sample(<<"rx_bytes", some[i].head>>, some[i].fields[RX_BYTES]),
                        sample(<<"tx_bytes", some[i].head>>, some[i].fields[TX_BYTES])}
      <4>1. \A i \in DOMAIN some : Len(some[i].fields) \in Nat
        BY RowsOfText DEF Lessens
      <4>2. QED
        BY <4>1 DEF parseNetDev, FromRows, TX_BYTES
    <3>2. QED
      BY <3>1
  <2>2. some[i].fields \in Seq(Int)
    BY RowsOfText DEF Lessens
  <2>3. RX_BYTES \in DOMAIN some[i].fields /\ TX_BYTES \in DOMAIN some[i].fields
    BY <2>1, <2>2 DEF RX_BYTES, TX_BYTES
  <2>4. /\ i \in DOMAIN rows /\ some[i].head = rows[i].head
        /\ \A j \in {RX_BYTES, TX_BYTES} :
             some[i].fields[j] = rows[i].fields[j] /\ some[i].fields[j] \in Nat
    BY <2>1, <2>3, NumbersStay
  <2>5. TX_BYTES \in DOMAIN rows[i].fields
    BY <2>1, <2>3, NumbersStay
  <2>6. rows[i].fields \in Seq(Int)
    BY <2>4, RowsOfText DEF Lessens
  <2>7. ~(Len(rows[i].fields) < TX_BYTES)
    BY <2>5, <2>6 DEF TX_BYTES
  <2>8. s \in parseNetDev(rows)
    BY <2>1, <2>4, <2>7 DEF parseNetDev, FromRows
  <2>9. QED
    BY <2>1, <2>4, <2>8 DEF sample, IsReading
<1>2. QED
  BY <1>1 DEF Numbered

LEMMA LoadavgLessens ==
  ASSUME NEW some, NEW rows, Lessens(some, rows)
  PROVE  parseLoadavg(some) \subseteq parseLoadavg(rows) /\ Numbered(parseLoadavg(some), {"load"})
<1>1. ASSUME NEW s \in parseLoadavg(some)
      PROVE  s \in parseLoadavg(rows) /\ IsReading(s) /\ s.metric[1] = "load"
  <2>1. PICK i \in DOMAIN some :
          /\ Numbers(some[i].fields, 5)
          /\ \E j \in 1..5 : s = sample(<<"load", LOAD_METRICS[j]>>, some[i].fields[j])
    BY DEF parseLoadavg, FromRows
  <2>2. PICK j \in 1..5 : s = sample(<<"load", LOAD_METRICS[j]>>, some[i].fields[j])
    BY <2>1
  <2>3. /\ i \in DOMAIN rows /\ Numbers(rows[i].fields, 5)
        /\ some[i].fields[j] = rows[i].fields[j] /\ some[i].fields[j] \in Nat
    BY <2>1, <2>2, FirstStay
  <2>4. s \in parseLoadavg(rows)
    BY <2>2, <2>3 DEF parseLoadavg, FromRows
  <2>5. QED
    BY <2>2, <2>3, <2>4 DEF sample, IsReading
<1>2. QED
  BY <1>1 DEF Numbered

LEMMA UptimeLessens ==
  ASSUME NEW some, NEW rows, Lessens(some, rows)
  PROVE  parseUptime(some) \subseteq parseUptime(rows) /\ Numbered(parseUptime(some), {"uptime"})
<1>1. ASSUME NEW s \in parseUptime(some)
      PROVE  s \in parseUptime(rows) /\ IsReading(s) /\ s.metric[1] = "uptime"
  <2>1. PICK i \in DOMAIN some :
          Numbers(some[i].fields, 1) /\ s = sample(<<"uptime">>, some[i].fields[1])
    BY DEF parseUptime, FromRows
  <2>2. /\ i \in DOMAIN rows /\ Numbers(rows[i].fields, 1)
        /\ some[i].fields[1] = rows[i].fields[1] /\ some[i].fields[1] \in Nat
    BY <2>1, FirstStay
  <2>3. s \in parseUptime(rows)
    BY <2>1, <2>2 DEF parseUptime, FromRows
  <2>4. QED
    BY <2>1, <2>2, <2>3 DEF sample, IsReading
<1>2. QED
  BY <1>1 DEF Numbered

\* A share of a ceiling is a number of hundredths.
LEMMA RatioIsNumber ==
  ASSUME NEW metric, NEW value \in Int, NEW ceiling \in Int, NEW s \in ratio(metric, value, ceiling)
  PROVE  IsReading(s) /\ s.metric = metric
<1>1. value \in Nat /\ ceiling \in Nat /\ ceiling > 0 /\ s = sample(metric, (100 * value) \div ceiling)
  BY DEF ratio, isNumber
<1>2. (100 * value) \div ceiling \in Nat
  <2>. DEFINE scaled == 100 * value
  <2>1. scaled \in Nat
    BY <1>1
  <2>2. scaled \div ceiling \in Nat
    <3>. HIDE DEF scaled
    <3>1. QED
      BY <1>1, <2>1
  <2>3. QED
    BY <2>2
<1>3. QED
  BY <1>1, <1>2 DEF sample, IsReading

LEMMA GpuFreqLessens ==
  ASSUME NEW some, NEW rows, Lessens(some, rows)
  PROVE  parseGpuFreq(some) \subseteq parseGpuFreq(rows) /\ Numbered(parseGpuFreq(some), {"gpu"})
<1>1. ASSUME NEW s \in parseGpuFreq(some)
      PROVE  s \in parseGpuFreq(rows) /\ IsReading(s) /\ s.metric[1] = "gpu"
  <2>1. PICK i \in DOMAIN some :
          /\ Numbers(some[i].fields, 2)
          /\ \/ s = sample(<<"gpu", "freq_mhz">>, some[i].fields[1])
             \/ s = sample(<<"gpu", "freq_max_mhz">>, some[i].fields[2])
             \/ s \in ratio(<<"gpu", "freq_ratio">>, some[i].fields[1], some[i].fields[2])
    BY DEF parseGpuFreq, FromRows
  <2>2. /\ i \in DOMAIN rows /\ Numbers(rows[i].fields, 2)
        /\ some[i].fields[1] = rows[i].fields[1] /\ some[i].fields[1] \in Nat
        /\ some[i].fields[2] = rows[i].fields[2] /\ some[i].fields[2] \in Nat
    BY <2>1, FirstStay
  <2>3. s \in parseGpuFreq(rows)
    BY <2>1, <2>2 DEF parseGpuFreq, FromRows
  <2>4. IsReading(s) /\ s.metric[1] = "gpu"
    <3>1. CASE s \in ratio(<<"gpu", "freq_ratio">>, some[i].fields[1], some[i].fields[2])
      BY <2>2, <3>1, RatioIsNumber
    <3>2. CASE s = sample(<<"gpu", "freq_mhz">>, some[i].fields[1])
      BY <2>2, <3>2 DEF sample, IsReading
    <3>3. CASE s = sample(<<"gpu", "freq_max_mhz">>, some[i].fields[2])
      BY <2>2, <3>3 DEF sample, IsReading
    <3>4. QED
      BY <2>1, <3>1, <3>2, <3>3
  <2>5. QED
    BY <2>3, <2>4
<1>2. QED
  BY <1>1 DEF Numbered

LEMMA DfLessens ==
  ASSUME NEW some, NEW rows, Lessens(some, rows)
  PROVE  parseDf(some) \subseteq parseDf(rows) /\ Numbered(parseDf(some), {"disk"})
<1>1. ASSUME NEW s \in parseDf(some)
      PROVE  s \in parseDf(rows) /\ IsReading(s) /\ s.metric[1] = "disk"
  <2>1. PICK i \in DOMAIN some :
          /\ Numbers(some[i].fields, 4)
          /\ \E j \in 1..4 : s = sample(<<"disk", some[i].head, DF_METRICS[j]>>, inUnits(j, some[i].fields[j]))
    BY DEF parseDf, FromRows
  <2>2. PICK j \in 1..4 : s = sample(<<"disk", some[i].head, DF_METRICS[j]>>, inUnits(j, some[i].fields[j]))
    BY <2>1
  <2>3. /\ i \in DOMAIN rows /\ Numbers(rows[i].fields, 4) /\ some[i].head = rows[i].head
        /\ some[i].fields[j] = rows[i].fields[j] /\ some[i].fields[j] \in Nat
    BY <2>1, <2>2, FirstStay
  <2>4. s \in parseDf(rows)
    <3>1. s = sample(<<"disk", rows[i].head, DF_METRICS[j]>>, inUnits(j, rows[i].fields[j]))
      BY <2>2, <2>3
    <3>2. s \in {sample(<<"disk", rows[i].head, DF_METRICS[k]>>, inUnits(k, rows[i].fields[k])) : k \in 1..4}
      BY <3>1
    <3>. DEFINE read(row) == IF ~Numbers(row.fields, 4) THEN {}
                            ELSE {sample(<<"disk", row.head, DF_METRICS[k]>>, inUnits(k, row.fields[k])) : k \in 1..4}
    <3>3. parseDf(rows) = UNION {read(rows[k]) : k \in DOMAIN rows}
      BY DEF parseDf, FromRows
    <3>4. s \in read(rows[i])
      BY <2>3, <3>2
    <3>5. QED
      <4>. HIDE DEF read
      <4>1. QED
        BY <2>3, <3>3, <3>4
  <2>5. inUnits(j, some[i].fields[j]) \in Nat
    BY <2>3 DEF inUnits, BLOCK_BYTES
  <2>6. QED
    BY <2>2, <2>4, <2>5 DEF sample, IsReading
<1>2. QED
  BY <1>1 DEF Numbered

LEMMA HwmonLessens ==
  ASSUME NEW some, NEW rows, Lessens(some, rows)
  PROVE  parseHwmon(some) \subseteq parseHwmon(rows) /\ Numbered(parseHwmon(some), {"temp"})
<1>1. ASSUME NEW s \in parseHwmon(some)
      PROVE  s \in parseHwmon(rows) /\ IsReading(s) /\ s.metric[1] = "temp"
  <2>1. PICK i \in DOMAIN some :
          Numbers(some[i].fields, 1) /\ s = sample(<<"temp", some[i].head>>, some[i].fields[1])
    BY DEF parseHwmon, FromRows
  <2>2. /\ i \in DOMAIN rows /\ Numbers(rows[i].fields, 1) /\ some[i].head = rows[i].head
        /\ some[i].fields[1] = rows[i].fields[1] /\ some[i].fields[1] \in Nat
    BY <2>1, FirstStay
  <2>3. s \in parseHwmon(rows)
    BY <2>1, <2>2 DEF parseHwmon, FromRows
  <2>4. QED
    BY <2>1, <2>2, <2>3 DEF sample, IsReading
<1>2. QED
  BY <1>1 DEF Numbered

\* A key's value, where each key has one row.
Value(rows, key, default) ==
  LET good == {i \in DOMAIN rows : Numbers(rows[i].fields, 1)}
      of == {i \in good : rows[i].head = key}
  IN IF of = {} THEN default ELSE rows[Max(of)].fields[1]

LEMMA ValueOfRow ==
  ASSUME NEW rows \in Texts, OneAKey(rows), NEW key, NEW default,
         NEW i \in DOMAIN rows, Numbers(rows[i].fields, 1), rows[i].head = key
  PROVE  Value(rows, key, default) = rows[i].fields[1]
<1>. DEFINE of == {j \in {k \in DOMAIN rows : Numbers(rows[k].fields, 1)} : rows[j].head = key}
<1>1. of = {i}
  BY DEF OneAKey
<1>2. i \in Int
  BY DEF Texts
<1>3. Max({i}) = i
  BY <1>2, MaxIs
<1>4. QED
  BY <1>1, <1>3 DEF Value

LEMMA KeysStay ==
  ASSUME NEW some, NEW rows, Lessens(some, rows), OneAKey(rows)
  PROVE  OneAKey(some)
<1>1. DOMAIN some = DOMAIN rows
  <2>1. DOMAIN some = 1..Len(some) /\ DOMAIN rows = 1..Len(rows)
    BY DEF Lessens, Texts
  <2>2. QED
    BY <2>1 DEF Lessens
<1>2. \A i \in DOMAIN some : some[i].head = rows[i].head
  BY DEF Lessens, LessRow
<1>3. QED
  BY <1>1, <1>2 DEF OneAKey

LEMMA ValueStays ==
  ASSUME NEW some, NEW rows, Lessens(some, rows), OneAKey(rows), NEW key, NEW default,
         Value(some, key, default) # default
  PROVE  /\ Value(some, key, default) = Value(rows, key, default)
         /\ Value(some, key, default) \in Nat
<1>. DEFINE of == {j \in {k \in DOMAIN some : Numbers(some[k].fields, 1)} : some[j].head = key}
<1>1. PICK i \in of : TRUE
  BY DEF Value
<1>2. i \in DOMAIN some /\ Numbers(some[i].fields, 1) /\ some[i].head = key
  BY <1>1
<1>3. OneAKey(some)
  BY KeysStay
<1>4. Value(some, key, default) = some[i].fields[1]
  BY <1>2, <1>3, ValueOfRow DEF Lessens
<1>5. /\ i \in DOMAIN rows /\ some[i].head = rows[i].head /\ Numbers(rows[i].fields, 1)
      /\ some[i].fields[1] = rows[i].fields[1] /\ some[i].fields[1] \in Nat
  BY <1>2, FirstStay
<1>6. Value(rows, key, default) = rows[i].fields[1]
  BY <1>2, <1>5, ValueOfRow DEF Lessens
<1>7. QED
  BY <1>4, <1>5, <1>6

LEMMA InotifyIs ==
  ASSUME NEW rows
  PROVE  parseInotify(rows) =
           {sample(<<"inotify", rows[i].head>>, Value(rows, rows[i].head, 0)) :
              i \in {j \in DOMAIN rows : Numbers(rows[j].fields, 1)}}
             \union ratio(<<"inotify", "instances_used_ratio">>, Value(rows, "instances_in_use", Malformed),
                          Value(rows, "max_user_instances", 0))
<1>1. QED
  BY DEF parseInotify, Value

LEMMA InotifyLessens ==
  ASSUME NEW some, NEW rows, Lessens(some, rows), OneAKey(rows)
  PROVE  parseInotify(some) \subseteq parseInotify(rows) /\ Numbered(parseInotify(some), {"inotify"})
<1>1. ASSUME NEW i \in DOMAIN some, Numbers(some[i].fields, 1)
      PROVE  LET s == sample(<<"inotify", some[i].head>>, Value(some, some[i].head, 0))
             IN s \in parseInotify(rows) /\ IsReading(s) /\ s.metric[1] = "inotify"
  <2>1. /\ i \in DOMAIN rows /\ some[i].head = rows[i].head /\ Numbers(rows[i].fields, 1)
        /\ some[i].fields[1] = rows[i].fields[1] /\ some[i].fields[1] \in Nat
    BY <1>1, FirstStay
  <2>2. OneAKey(some)
    BY KeysStay
  <2>3. Value(some, some[i].head, 0) = some[i].fields[1]
    BY <1>1, <2>2, ValueOfRow DEF Lessens
  <2>4. Value(rows, rows[i].head, 0) = rows[i].fields[1]
    BY <2>1, ValueOfRow DEF Lessens
  <2>5. sample(<<"inotify", rows[i].head>>, Value(rows, rows[i].head, 0)) \in parseInotify(rows)
    BY <2>1, InotifyIs
  <2>6. QED
    BY <2>1, <2>3, <2>4, <2>5 DEF sample, IsReading
<1>2. ASSUME NEW s \in ratio(<<"inotify", "instances_used_ratio">>, Value(some, "instances_in_use", Malformed),
                             Value(some, "max_user_instances", 0))
      PROVE  s \in parseInotify(rows) /\ IsReading(s) /\ s.metric[1] = "inotify"
  <2>. DEFINE used == Value(some, "instances_in_use", Malformed)
              ceiling == Value(some, "max_user_instances", 0)
  <2>1. used # Malformed /\ ceiling # 0
    BY DEF ratio, isNumber, Malformed
  <2>2. used = Value(rows, "instances_in_use", Malformed) /\ used \in Nat
    BY <2>1, ValueStays
  <2>3. ceiling = Value(rows, "max_user_instances", 0) /\ ceiling \in Nat
    BY <2>1, ValueStays
  <2>4. IsReading(s) /\ s.metric = <<"inotify", "instances_used_ratio">>
    <3>. HIDE DEF used, ceiling
    <3>1. QED
      BY <2>2, <2>3, RatioIsNumber DEF used, ceiling
  <2>5. s \in parseInotify(rows)
    BY <2>2, <2>3, InotifyIs
  <2>6. QED
    BY <2>4, <2>5
<1>3. ASSUME NEW s \in parseInotify(some)
      PROVE  s \in parseInotify(rows) /\ IsReading(s) /\ s.metric[1] = "inotify"
  BY <1>1, <1>2, InotifyIs
<1>4. QED
  BY <1>3 DEF Numbered

\* Every section's parser, by the script that prints it.
VitalHeads == CPU_LINES \union {"mem", "rx_bytes", "tx_bytes", "load", "uptime", "gpu"}
SlowHeads == {"disk", "temp", "inotify"}

LEMMA VitalsLessen ==
  ASSUME NEW name \in VITALS_SCRIPT, NEW some, NEW rows, Lessens(some, rows)
  PROVE  parser(name, some) \subseteq parser(name, rows) /\ Numbered(parser(name, some), VitalHeads)
<1>1. CASE name = "stat"
  <2>1. parser(name, some) = parseStat(some) /\ parser(name, rows) = parseStat(rows)
    BY <1>1 DEF parser
  <2>2. QED
    BY <2>1, StatLessens DEF Numbered, VitalHeads
<1>2. CASE name = "meminfo"
  <2>1. parser(name, some) = parseMeminfo(some) /\ parser(name, rows) = parseMeminfo(rows)
    BY <1>2 DEF parser
  <2>2. QED
    BY <2>1, MeminfoLessens DEF Numbered, VitalHeads
<1>3. CASE name = "netdev"
  <2>1. parser(name, some) = parseNetDev(some) /\ parser(name, rows) = parseNetDev(rows)
    BY <1>3 DEF parser
  <2>2. QED
    BY <2>1, NetDevLessens DEF Numbered, VitalHeads
<1>4. CASE name = "loadavg"
  <2>1. parser(name, some) = parseLoadavg(some) /\ parser(name, rows) = parseLoadavg(rows)
    BY <1>4 DEF parser
  <2>2. QED
    BY <2>1, LoadavgLessens DEF Numbered, VitalHeads
<1>5. CASE name = "uptime"
  <2>1. parser(name, some) = parseUptime(some) /\ parser(name, rows) = parseUptime(rows)
    BY <1>5 DEF parser
  <2>2. QED
    BY <2>1, UptimeLessens DEF Numbered, VitalHeads
<1>6. CASE name = "gpu"
  <2>1. parser(name, some) = parseGpuFreq(some) /\ parser(name, rows) = parseGpuFreq(rows)
    BY <1>6 DEF parser
  <2>2. QED
    BY <2>1, GpuFreqLessens DEF Numbered, VitalHeads
<1>7. QED
  BY <1>1, <1>2, <1>3, <1>4, <1>5, <1>6 DEF VITALS_SCRIPT

LEMMA SlowLessens ==
  ASSUME NEW name \in SLOW_SCRIPT, NEW some, NEW rows, Lessens(some, rows),
         name = "inotify" => OneAKey(rows)
  PROVE  parser(name, some) \subseteq parser(name, rows) /\ Numbered(parser(name, some), SlowHeads)
<1>1. CASE name = "df"
  <2>1. parser(name, some) = parseDf(some) /\ parser(name, rows) = parseDf(rows)
    BY <1>1 DEF parser
  <2>2. QED
    BY <2>1, DfLessens DEF Numbered, SlowHeads
<1>2. CASE name = "hwmon"
  <2>1. parser(name, some) = parseHwmon(some) /\ parser(name, rows) = parseHwmon(rows)
    BY <1>2 DEF parser
  <2>2. QED
    BY <2>1, HwmonLessens DEF Numbered, SlowHeads
<1>3. CASE name = "inotify"
  <2>1. parser(name, some) = parseInotify(some) /\ parser(name, rows) = parseInotify(rows)
    BY <1>3 DEF parser
  <2>2. QED
    BY <1>3, <2>1, InotifyLessens DEF Numbered, SlowHeads
<1>4. QED
  BY <1>1, <1>2, <1>3 DEF SLOW_SCRIPT

\* What a damaged row still has is the row's.
LEMMA TornIsLess ==
  ASSUME NEW row \in [head : STRING, fields : Seq(Int)], NEW i \in DOMAIN row.fields
  PROVE  Torn(row, i) \in [head : STRING, fields : Seq(Int)] /\ LessRow(Torn(row, i), row)
<1>. DEFINE kept == SubSeq(row.fields, 1, i - 1)
<1>1. row.fields \in Seq(Int) /\ row.head \in STRING /\ row = [head |-> row.head, fields |-> row.fields]
  OBVIOUS
<1>2. i \in 1..Len(row.fields)
  BY <1>1
<1>3. /\ kept \in Seq(Int) /\ Len(kept) = i - 1
      /\ \A j \in DOMAIN kept : kept[j] = row.fields[j]
  BY <1>1, <1>2
<1>4. Torn(row, i) = [row EXCEPT !.fields = kept]
  BY DEF Torn
<1>. HIDE DEF kept
<1>5. QED
  BY <1>1, <1>2, <1>3, <1>4 DEF LessRow

LEMMA SpoiltIsLess ==
  ASSUME NEW row \in [head : STRING, fields : Seq(Int)], NEW i \in DOMAIN row.fields
  PROVE  Spoilt(row, i) \in [head : STRING, fields : Seq(Int)] /\ LessRow(Spoilt(row, i), row)
<1>. DEFINE kept == [row.fields EXCEPT ![i] = Malformed]
<1>1. row.fields \in Seq(Int) /\ row.head \in STRING /\ row = [head |-> row.head, fields |-> row.fields]
  OBVIOUS
<1>2. /\ kept \in Seq(Int) /\ Len(kept) = Len(row.fields)
      /\ \A j \in DOMAIN kept : kept[j] \in {row.fields[j], Malformed}
  BY <1>1 DEF Malformed
<1>3. Spoilt(row, i) = [row EXCEPT !.fields = kept]
  BY DEF Spoilt
<1>. HIDE DEF kept
<1>4. /\ Spoilt(row, i) \in [head : STRING, fields : Seq(Int)]
      /\ Spoilt(row, i).head = row.head /\ Spoilt(row, i).fields = kept
  BY <1>1, <1>2, <1>3
<1>5. Len(kept) <= Len(row.fields)
  BY <1>1, <1>2
<1>6. QED
  BY <1>2, <1>4, <1>5 DEF LessRow

\* Sections that say no more than a host's files.
Partial(sections, files, script) ==
  /\ DOMAIN sections \subseteq DOMAIN files \intersect script
  /\ \A name \in DOMAIN sections : Lessens(sections[name], files[name])

LEMMA RowsAreLess ==
  ASSUME NEW rows \in Texts
  PROVE  Lessens(rows, rows)
<1>1. \A i \in DOMAIN rows : rows[i].fields \in Seq(Int)
  BY RowsOfText
<1>2. \A i \in DOMAIN rows : LessRow(rows[i], rows[i])
  BY <1>1 DEF LessRow
<1>3. QED
  BY <1>2 DEF Lessens, Texts

LEMMA ReplacedIsLess ==
  ASSUME NEW rows \in Texts, NEW i \in DOMAIN rows, NEW row \in [head : STRING, fields : Seq(Int)],
         LessRow(row, rows[i])
  PROVE  Lessens([rows EXCEPT ![i] = row], rows)
<1>. DEFINE some == [rows EXCEPT ![i] = row]  R == [head : STRING, fields : Seq(Int)]
<1>1. some \in Texts /\ Len(some) = Len(rows) /\ DOMAIN some = DOMAIN rows
  <2>1. rows \in Seq(R) /\ row \in R
    BY DEF Texts
  <2>2. some \in Seq(R) /\ Len(some) = Len(rows) /\ DOMAIN some = DOMAIN rows
    <3>. HIDE DEF R
    <3>1. QED
      BY <2>1
  <2>3. QED
    BY <2>2 DEF Texts
<1>2. \A j \in DOMAIN rows : LessRow(rows[j], rows[j])
  BY RowsAreLess DEF Lessens
<1>3. \A j \in DOMAIN some : LessRow(some[j], rows[j])
  BY <1>1, <1>2
<1>4. Lessens(some, rows)
  <2>. HIDE DEF some
  <2>1. QED
    BY <1>1, <1>3 DEF Lessens
<1>5. QED
  BY <1>4

LEMMA PrintedIsPartial ==
  ASSUME NEW host \in Machines, NEW script, NEW printed \in Printed(host.files, script)
  PROVE  Partial(printed, host.files, script)
<1>. DEFINE files == host.files
            whole_ == [name \in DOMAIN files \intersect script |-> files[name]]
            places == {p \in (DOMAIN whole_) \X (1..4) \X {1, 2, 5, 9} :
                         p[2] \in DOMAIN whole_[p[1]] /\ p[3] \in DOMAIN whole_[p[1]][p[2]].fields}
<1>1. \A name \in DOMAIN whole_ : files[name] \in Texts /\ whole_[name] = files[name]
  BY ProbesAssumption DEF Texts
<1>2. CASE printed = whole_
  BY <1>1, <1>2, RowsAreLess DEF Partial
<1>3. CASE printed = <<>>
  BY <1>3 DEF Partial
<1>4. CASE \E lost \in DOMAIN whole_ : printed = [name \in DOMAIN whole_ \ {lost} |-> whole_[name]]
  BY <1>1, <1>4, RowsAreLess DEF Partial
<1>5. ASSUME NEW p \in places, NEW row,
             row \in {Torn(whole_[p[1]][p[2]], p[3]), Spoilt(whole_[p[1]][p[2]], p[3])},
             printed = Replaced(whole_, p[1], p[2], row)
      PROVE  Partial(printed, files, script)
  <2>1. /\ p[1] \in DOMAIN whole_ /\ p[2] \in DOMAIN whole_[p[1]]
        /\ p[3] \in DOMAIN whole_[p[1]][p[2]].fields
    OBVIOUS
  <2>2. whole_[p[1]] \in Texts
    BY <1>1, <2>1
  <2>3. whole_[p[1]][p[2]] \in [head : STRING, fields : Seq(Int)]
    BY <2>1, <2>2, RowsOfText
  <2>4. row \in [head : STRING, fields : Seq(Int)] /\ LessRow(row, whole_[p[1]][p[2]])
    BY <1>5, <2>1, <2>3, TornIsLess, SpoiltIsLess
  <2>5. Lessens([whole_[p[1]] EXCEPT ![p[2]] = row], whole_[p[1]])
    BY <2>1, <2>2, <2>4, ReplacedIsLess
  <2>6. printed = [whole_ EXCEPT ![p[1]] = [whole_[p[1]] EXCEPT ![p[2]] = row]]
    BY <1>5 DEF Replaced
  <2>7. \A name \in DOMAIN whole_ : Lessens(whole_[name], files[name])
    BY <1>1, RowsAreLess
  <2>8. DOMAIN printed = DOMAIN whole_ /\ \A name \in DOMAIN whole_ : Lessens(printed[name], files[name])
    BY <1>1, <2>1, <2>5, <2>6, <2>7
  <2>9. QED
    BY <2>8 DEF Partial
<1>6. \/ printed = whole_ \/ printed = <<>>
      \/ \E lost \in DOMAIN whole_ : printed = [name \in DOMAIN whole_ \ {lost} |-> whole_[name]]
      \/ \E p \in places : printed = Replaced(whole_, p[1], p[2], Torn(whole_[p[1]][p[2]], p[3]))
      \/ \E p \in places : printed = Replaced(whole_, p[1], p[2], Spoilt(whole_[p[1]][p[2]], p[3]))
  BY DEF Printed
<1>7. CASE \E p \in places : printed = Replaced(whole_, p[1], p[2], Torn(whole_[p[1]][p[2]], p[3]))
  <2>1. PICK p \in places : printed = Replaced(whole_, p[1], p[2], Torn(whole_[p[1]][p[2]], p[3]))
    BY <1>7
  <2>. HIDE DEF places, whole_, files
  <2>2. QED
    BY <1>5, <2>1 DEF files
<1>8. CASE \E p \in places : printed = Replaced(whole_, p[1], p[2], Spoilt(whole_[p[1]][p[2]], p[3]))
  <2>1. PICK p \in places : printed = Replaced(whole_, p[1], p[2], Spoilt(whole_[p[1]][p[2]], p[3]))
    BY <1>8
  <2>. HIDE DEF places, whole_, files
  <2>2. QED
    BY <1>5, <2>1 DEF files
<1>9. QED
  BY <1>2, <1>3, <1>4, <1>6, <1>7, <1>8

\* So the readings of what a script printed are readings of the host.
LEMMA SamplesAreHosts ==
  ASSUME NEW host \in Machines, NEW sections, NEW script, NEW heads,
         \/ script = VITALS_SCRIPT /\ heads = VitalHeads
         \/ script = SLOW_SCRIPT /\ heads = SlowHeads,
         sections \in Printed(host.files, script)
  PROVE  /\ samplesFromSections(sections) \subseteq samplesFromSections(host.files)
         /\ Numbered(samplesFromSections(sections), heads)
<1>1. Partial(sections, host.files, script)
  BY PrintedIsPartial
<1>2. ASSUME NEW name \in DOMAIN sections
      PROVE  /\ name \in DOMAIN host.files
             /\ parser(name, sections[name]) \subseteq parser(name, host.files[name])
             /\ Numbered(parser(name, sections[name]), heads)
  <2>1. name \in DOMAIN host.files /\ name \in script /\ Lessens(sections[name], host.files[name])
    BY <1>1 DEF Partial
  <2>2. CASE script = VITALS_SCRIPT /\ heads = VitalHeads
    BY <2>1, <2>2, VitalsLessen
  <2>3. CASE script = SLOW_SCRIPT /\ heads = SlowHeads
    BY <2>1, <2>3, SlowLessens, ProbesAssumption
  <2>4. QED
    BY <2>2, <2>3
<1>3. ASSUME NEW s \in samplesFromSections(sections)
      PROVE  s \in samplesFromSections(host.files) /\ IsReading(s) /\ s.metric[1] \in heads
  <2>1. PICK name \in DOMAIN sections : s \in parser(name, sections[name])
    BY DEF samplesFromSections
  <2>2. QED
    BY <1>2, <2>1 DEF samplesFromSections, Numbered
<1>4. QED
  BY <1>3 DEF Numbered

---------------------------------------------------------------------------
\* A round of probes.

\* What is remembered of a round, of a host as it may be.
Remembered ==
  [files : {m.files : m \in Machines}, containers : {m.containers : m \in Machines},
   ran : Reasons \union {OK, "not_run"}, listed : BOOLEAN]

\* A round with a job to do has begun, and is listed once its containers are.
Begun ==
  /\ machine \in Seq(Remembered)
  /\ pending # {} => round >= 1
  /\ "containers" \in pending => ~machine[round].listed

\* A reading is of a family the probes know, and what is not a container's is the host's.
HostsRead ==
  /\ \A g \in gauges : g.metric[1] \in VitalHeads \union SlowHeads \union {"container"}
  /\ ReadingsAreReal

\* A container's readings are all of one listing of it, the last.
AsTold(s) ==
  /\ \A g \in gauges : g.metric[1] = "container" /\ g.metric[2] = s.name =>
       sample(g.metric, g.value) \in toSamples({s})
  /\ \A u \in toSamples({s}) : \E g \in gauges : g.metric = u.metric /\ g.value = u.value
Named(name) == name # ""
ContainersRead ==
  \A g \in gauges : g.metric[1] = "container" =>
    /\ Named(g.metric[2])
    /\ \E r \in 1..round : /\ machine[r].listed /\ ~ListedSince(g.metric[2], r)
                           /\ \E s \in machine[r].containers : s.name = g.metric[2] /\ AsTold(s)

\* The host's check is of a run that ended, and a good one left a reading no later write
\* but the next vitals can take; it is of an earlier round while this one's is to come.
HostChecked ==
  hostTarget \in DOMAIN checks =>
    LET c == checks[hostTarget]  then == machine[c.at] IN
    /\ then.ran # "spawn_error"
    /\ c.ok => then.ran = OK /\ \E g \in gauges : g.at = c.at /\ g.metric[1] \in VitalHeads
    /\ "vitals" \in pending => c.at # round
DockerChecked ==
  dockerTarget \in DOMAIN checks => checks[dockerTarget].ok = machine[checks[dockerTarget].at].listed
ContainersChecked ==
  \A t \in DOMAIN checks : t \notin {hostTarget, dockerTarget} =>
    LET c == checks[t]  then == machine[c.at] IN
    /\ t[1] = "container" /\ then.listed
    /\ \E s \in then.containers : s.name = t[2] /\ c.ok = (s.running /\ s.check # "unhealthy")

ProbesInv ==
  /\ ProbesTypeOK /\ Begun
  /\ HostsRead /\ ContainersRead
  /\ HostChecked /\ DockerChecked /\ ContainersChecked

LEMMA InitProbes == ProbesInit => ProbesInv
<1>1. ASSUME ProbesInit PROVE ProbesInv
  <2>1. 0 \in 0..MaxRound /\ 0 \in 0..MaxDamage
    BY ProbesAssumption
  <2>2. ProbesTypeOK /\ Begun
    BY <1>1, <2>1 DEF ProbesInit, ProbesTypeOK, Begun
  <2>3. HostsRead /\ ContainersRead
    BY <1>1 DEF ProbesInit, HostsRead, ContainersRead, ReadingsAreReal
  <2>4. DOMAIN checks = {}
    BY <1>1 DEF ProbesInit
  <2>5. QED
    BY <2>2, <2>3, <2>4 DEF ProbesInv, HostChecked, DockerChecked, ContainersChecked
<1>2. QED
  BY <1>1

\* What a step may do to the rounds remembered: add one, or say more of this one.
Remembers ==
  /\ machine' \in Seq(Remembered)
  /\ \A r \in 1..round : /\ machine'[r].files = machine[r].files
                         /\ machine'[r].containers = machine[r].containers
                         /\ machine'[r].listed = machine[r].listed

\* A round that ends its job leaves no job of its name.
LEMMA JobIsDone ==
  ASSUME NEW job, Done(job), ProbesTypeOK, job \in pending
  PROVE  /\ pending' \subseteq {"vitals", "containers", "slow"} /\ (job \notin pending' \/ job = "slow")
         /\ pending' \intersect {"vitals", "containers"} \subseteq pending \ {job}
<1>1. QED
  BY DEF Done, ProbesTypeOK

\* Of this round, by what it did.
LEMMA ThisRound ==
  ASSUME ProbesTypeOK, Begun, pending # {}
  PROVE  /\ round \in 1..MaxRound /\ round \in DOMAIN machine /\ machine[round] \in Remembered
         /\ \E host \in Machines : machine[round].files = host.files
         /\ \E host \in Machines : machine[round].containers = host.containers
<1>1. round \in 1..MaxRound /\ round \in DOMAIN machine
  BY ProbesAssumption DEF ProbesTypeOK, Begun
<1>2. machine[round] \in Remembered
  <2>. HIDE DEF Remembered
  <2>1. QED
    BY <1>1 DEF Begun
<1>3. QED
  BY <1>1, <1>2 DEF Remembered

LEMMA RoundBegins == ProbesInv /\ BeginRound => ProbesInv'
<1>. SUFFICES ASSUME ProbesInv, BeginRound PROVE ProbesInv'
  OBVIOUS
<1>. USE DEF ProbesInv
<1>1. round \in Nat /\ round' = round + 1 /\ pending' = {"vitals", "containers"}
      /\ UNCHANGED <<damaged, gauges, checks>> /\ round' \in 0..MaxRound
  BY ProbesAssumption DEF BeginRound, ProbesTypeOK
<1>2. PICK host \in Machines :
        machine' = Append(machine, [files |-> host.files, containers |-> host.containers,
                                    ran |-> "not_run", listed |-> FALSE])
  BY DEF BeginRound
<1>. DEFINE new == [files |-> host.files, containers |-> host.containers, ran |-> "not_run", listed |-> FALSE]
<1>3. new \in Remembered
  BY DEF Remembered
<1>4. /\ machine' \in Seq(Remembered) /\ Len(machine') = round'
      /\ machine'[round'] = new
      /\ \A r \in 1..round : machine'[r] = machine[r]
  <2>1. machine \in Seq(Remembered) /\ Len(machine) = round
    BY DEF Begun, ProbesTypeOK
  <2>2. machine' = Append(machine, new)
    BY <1>2
  <2>. HIDE DEF new, Remembered
  <2>3. QED
    BY <1>1, <1>3, <2>1, <2>2
<1>5. ProbesTypeOK'
  BY <1>1, <1>4 DEF ProbesTypeOK
<1>6. Begun'
  BY <1>1, <1>4 DEF Begun
<1>7. HostsRead'
  BY <1>1, <1>4 DEF HostsRead, ReadingsAreReal, ProbesTypeOK
<1>8. ContainersRead'
  <2>1. SUFFICES ASSUME NEW g \in gauges, g.metric[1] = "container"
                 PROVE  /\ Named(g.metric[2])
                        /\ \E r \in 1..round' :
                             /\ machine'[r].listed /\ ~ListedSince(g.metric[2], r)'
                             /\ \E s \in machine'[r].containers : s.name = g.metric[2] /\ AsTold(s)'
    BY <1>1 DEF ContainersRead
  <2>2. PICK r \in 1..round : /\ machine[r].listed /\ ~ListedSince(g.metric[2], r)
                              /\ \E s \in machine[r].containers : s.name = g.metric[2] /\ AsTold(s)
    BY <2>1 DEF ContainersRead
  <2>3. r \in 1..round' /\ machine'[r] = machine[r]
    BY <1>1, <1>4, <2>2
  <2>4. \A s : AsTold(s)' <=> AsTold(s)
    BY <1>1 DEF AsTold
  <2>5. ~ListedSince(g.metric[2], r)'
    <3>1. \A q \in (r + 1)..round' : q # round' => q \in (r + 1)..round /\ machine'[q] = machine[q]
      BY <1>1, <1>4, <2>2
    <3>2. machine'[round'].listed = FALSE
      BY <1>4
    <3>. HIDE DEF new
    <3>3. QED
      BY <2>2, <3>1, <3>2 DEF ListedSince
  <2>6. QED
    BY <2>1, <2>2, <2>3, <2>4, <2>5 DEF ContainersRead
<1>9. \A t \in DOMAIN checks : checks'[t] = checks[t] /\ machine'[checks[t].at] = machine[checks[t].at]
                               /\ checks[t].at # round'
  BY <1>1, <1>4 DEF ProbesTypeOK
<1>10. HostChecked'
  BY <1>1, <1>9 DEF HostChecked
<1>11. DockerChecked' /\ ContainersChecked'
  BY <1>1, <1>9 DEF DockerChecked, ContainersChecked
<1>12. QED
  BY <1>5, <1>6, <1>7, <1>8, <1>10, <1>11

\* A write of the host's readings leaves the containers' alone.
LEMMA HostWrites ==
  ASSUME ProbesInv, pending # {}, Remembers, UNCHANGED round,
         NEW heads \in {VitalHeads, SlowHeads}, NEW made \in SUBSET samplesFromSections(machine[round].files),
         Numbered(made, heads), writeReadings(made)
  PROVE  /\ HostsRead' /\ ContainersRead'
         /\ \A g \in gauges' : g.at \in 1..round /\ g.value \in Nat
         /\ \A g \in gauges : g.metric[1] \notin heads => g \in gauges'
         /\ \A s \in made : \E g \in gauges' : g.at = round /\ g.metric = s.metric /\ g.value = s.value
<1>. USE DEF ProbesInv
<1>1. round \in 1..MaxRound
  BY ThisRound
<1>2. ASSUME NEW g \in gauges'
      PROVE  \/ g \in gauges
             \/ \E s \in made : g = [metric |-> s.metric, value |-> s.value, at |-> round]
  BY DEF writeReadings
<1>3. \A g \in gauges : (\A s \in made : s.metric # g.metric) => g \in gauges'
  BY DEF writeReadings
<1>4. \A s \in made : s.value \in Nat /\ s.metric[1] \in heads /\ s = sample(s.metric, s.value)
  BY DEF Numbered, IsReading
<1>5. \A s \in made : [metric |-> s.metric, value |-> s.value, at |-> round] \in gauges'
  BY DEF writeReadings
<1>6. "container" \notin heads
  BY DEF VitalHeads, SlowHeads, CPU_LINES
<1>7. \A g \in gauges' : g.at \in 1..round /\ g.value \in Nat
  <2>1. SUFFICES ASSUME NEW g \in gauges' PROVE g.at \in 1..round /\ g.value \in Nat
    OBVIOUS
  <2>2. CASE g \in gauges
    BY <2>2 DEF ProbesTypeOK
  <2>3. CASE \E s \in made : g = [metric |-> s.metric, value |-> s.value, at |-> round]
    BY <1>1, <1>4, <2>3
  <2>4. QED
    BY <1>2, <2>2, <2>3
<1>8. HostsRead'
  <2>1. SUFFICES ASSUME NEW g \in gauges'
                 PROVE  /\ g.metric[1] \in VitalHeads \union SlowHeads \union {"container"}
                        /\ g.metric[1] # "container" =>
                             sample(g.metric, g.value) \in samplesFromSections(machine'[g.at].files)
    BY DEF HostsRead, ReadingsAreReal
  <2>2. CASE g \in gauges
    <3>1. machine'[g.at].files = machine[g.at].files
      BY <2>2 DEF ProbesTypeOK, Remembers
    <3>2. QED
      BY <2>2, <3>1 DEF HostsRead, ReadingsAreReal
  <2>3. CASE \E s \in made : g = [metric |-> s.metric, value |-> s.value, at |-> round]
    <3>1. PICK s \in made : g = [metric |-> s.metric, value |-> s.value, at |-> round]
      BY <2>3
    <3>2. machine'[g.at].files = machine[round].files
      BY <1>1, <3>1 DEF Remembers
    <3>3. s \in samplesFromSections(machine[round].files)
      BY <3>1
    <3>4. sample(g.metric, g.value) = s
      BY <1>4, <3>1
    <3>5. QED
      BY <1>4, <3>1, <3>2, <3>3, <3>4
  <2>4. QED
    BY <1>2, <2>2, <2>3
<1>9. ContainersRead'
  <2>1. \A g : g.metric[1] = "container" => (g \in gauges' <=> g \in gauges)
    <3>1. SUFFICES ASSUME NEW g, g.metric[1] = "container" PROVE g \in gauges' <=> g \in gauges
      OBVIOUS
    <3>2. \A s \in made : s.metric # g.metric
      BY <1>4, <1>6, <3>1
    <3>3. g \in gauges => g \in gauges'
      BY <1>3, <3>2
    <3>4. g \in gauges' => g \in gauges
      BY <1>2, <3>2
    <3>5. QED
      BY <3>3, <3>4
  <2>2. SUFFICES ASSUME NEW g \in gauges', g.metric[1] = "container"
                 PROVE  /\ Named(g.metric[2])
                        /\ \E r \in 1..round' :
                             /\ machine'[r].listed /\ ~ListedSince(g.metric[2], r)'
                             /\ \E s \in machine'[r].containers : s.name = g.metric[2] /\ AsTold(s)'
    BY DEF ContainersRead
  <2>3. g \in gauges
    BY <2>1, <2>2
  <2>4. PICK r \in 1..round : /\ machine[r].listed /\ ~ListedSince(g.metric[2], r)
                              /\ \E s \in machine[r].containers : s.name = g.metric[2] /\ AsTold(s)
    BY <2>2, <2>3 DEF ContainersRead
  <2>5. PICK s \in machine[r].containers : s.name = g.metric[2] /\ AsTold(s)
    BY <2>4
  <2>6. machine'[r].listed /\ s \in machine'[r].containers
    BY <2>4, <2>5 DEF Remembers
  <2>7. AsTold(s)'
    <3>1. \A h \in gauges' : h.metric[1] = "container" /\ h.metric[2] = s.name =>
            sample(h.metric, h.value) \in toSamples({s})
      BY <2>1, <2>5 DEF AsTold
    <3>2. \A u \in toSamples({s}) : u.metric[1] = "container"
      BY DEF toSamples, sample
    <3>3. \A u \in toSamples({s}) : \E h \in gauges' : h.metric = u.metric /\ h.value = u.value
      BY <2>1, <2>5, <3>2 DEF AsTold
    <3>4. QED
      BY <3>1, <3>3 DEF AsTold
  <2>8. ~ListedSince(g.metric[2], r)'
    <3>1. \A q \in (r + 1)..round : q \in 1..round
      BY <1>1, <2>4
    <3>2. \A q \in (r + 1)..round : machine'[q].listed = machine[q].listed
                                   /\ machine'[q].containers = machine[q].containers
      BY <3>1 DEF Remembers
    <3>3. QED
      BY <2>4, <3>2 DEF ListedSince
  <2>9. Named(g.metric[2])
    BY <2>2, <2>3 DEF ContainersRead
  <2>10. QED
    BY <2>4, <2>5, <2>6, <2>7, <2>8, <2>9
<1>10. QED
  BY <1>3, <1>4, <1>5, <1>7, <1>8, <1>9

\* A run that is read says how it ended, and prints of the host's files.
LEMMA RunSays ==
  ASSUME ProbesInv, pending # {}, NEW script \in {VITALS_SCRIPT, SLOW_SCRIPT}, NEW run \in Runs(script)
  PROVE  /\ run.reason \in Reasons \union {OK}
         /\ run.reason = OK =>
              /\ samplesFromSections(run.printed) \subseteq samplesFromSections(machine[round].files)
              /\ Numbered(samplesFromSections(run.printed), IF script = VITALS_SCRIPT THEN VitalHeads ELSE SlowHeads)
<1>1. run.reason \in Reasons \union {OK} /\ (run.reason = OK => run.printed \in Printed(machine[round].files, script))
  BY ProbesAssumption DEF Runs
<1>2. PICK host \in Machines : machine[round].files = host.files
  BY ThisRound DEF ProbesInv
<1>3. QED
  BY <1>1, <1>2, SamplesAreHosts

LEMMA DamageIsBounded ==
  ASSUME ProbesTypeOK, NEW run, NEW script, Ran(run, script)
  PROVE  damaged' \in 0..MaxDamage
<1>1. QED
  BY ProbesAssumption DEF ProbesTypeOK, Ran

LEMMA HostIsCollected == ProbesInv /\ collectHost => ProbesInv'
<1>. SUFFICES ASSUME ProbesInv, collectHost PROVE ProbesInv'
  OBVIOUS
<1>. USE DEF ProbesInv
<1>1. "vitals" \in pending /\ Done("vitals") /\ round' = round
  BY DEF collectHost
<1>2. PICK run \in Runs(VITALS_SCRIPT) :
        LET made == IF run.reason = OK THEN samplesFromSections(run.printed) ELSE {}
            reason == IF run.reason # OK THEN run.reason ELSE IF made = {} THEN "empty_payload" ELSE OK
        IN /\ Ran(run, VITALS_SCRIPT)
           /\ IF run.reason = "spawn_error" THEN UNCHANGED <<gauges, checks>>
              ELSE /\ writeReadings(made)
                   /\ checks' = record(ofTarget(hostTarget, [ok |-> reason = OK, reason |-> reason, at |-> round]))
           /\ machine' = [machine EXCEPT ![round].ran = run.reason]
  BY DEF collectHost
<1>. DEFINE made == IF run.reason = OK THEN samplesFromSections(run.printed) ELSE {}
            reason == IF run.reason # OK THEN run.reason ELSE IF made = {} THEN "empty_payload" ELSE OK
            check == [ok |-> reason = OK, reason |-> reason, at |-> round]
<1>3. /\ round \in 1..MaxRound /\ round \in DOMAIN machine /\ machine[round] \in Remembered
      /\ pending' \subseteq {"vitals", "containers", "slow"} /\ "vitals" \notin pending'
      /\ pending' \intersect {"containers"} \subseteq pending
  BY <1>1, ThisRound, JobIsDone
<1>4. run.reason \in Reasons \union {OK}
  BY <1>1, <1>2, RunSays
<1>5. /\ machine' \in Seq(Remembered) /\ Len(machine') = round
      /\ \A r \in 1..round : /\ machine'[r].files = machine[r].files
                             /\ machine'[r].containers = machine[r].containers
                             /\ machine'[r].listed = machine[r].listed
                             /\ r # round => machine'[r].ran = machine[r].ran
      /\ machine'[round].ran = run.reason
  <2>. DEFINE new == [machine[round] EXCEPT !.ran = run.reason]
  <2>1. machine' = [machine EXCEPT ![round] = new]
    BY <1>2
  <2>2. /\ new \in Remembered /\ new.files = machine[round].files /\ new.listed = machine[round].listed
        /\ new.containers = machine[round].containers /\ new.ran = run.reason
    BY <1>3, <1>4 DEF Remembered
  <2>3. machine \in Seq(Remembered) /\ Len(machine) = round
    BY DEF Begun, ProbesTypeOK
  <2>. HIDE DEF new, Remembered
  <2>4. QED
    BY <1>3, <2>1, <2>2, <2>3
<1>6. Remembers
  BY <1>5 DEF Remembers
<1>7. /\ made \subseteq samplesFromSections(machine[round].files)
      /\ Numbered(made, VitalHeads)
  <2>1. CASE run.reason = OK
    BY <1>1, <1>2, <2>1, RunSays
  <2>2. CASE run.reason # OK
    BY <2>2 DEF Numbered
  <2>3. QED
    BY <2>1, <2>2
<1>8. Begun'
  BY <1>1, <1>3, <1>5 DEF Begun
<1>9. damaged' \in 0..MaxDamage
  BY <1>2, DamageIsBounded
<1>10. /\ HostsRead' /\ ContainersRead'
       /\ \A g \in gauges' : g.at \in 1..round /\ g.value \in Nat
       /\ run.reason # "spawn_error" =>
            \A s \in made : \E g \in gauges' : g.at = round /\ g.metric = s.metric /\ g.value = s.value
  <2>. HIDE DEF made
  <2>1. CASE run.reason = "spawn_error"
    <3>1. writeReadings({})
      BY <1>2, <2>1 DEF writeReadings
    <3>2. {} \in SUBSET samplesFromSections(machine[round].files) /\ Numbered({}, VitalHeads)
      BY DEF Numbered
    <3>3. QED
      BY <1>1, <1>6, <2>1, <3>1, <3>2, HostWrites
  <2>2. CASE run.reason # "spawn_error"
    <3>1. writeReadings(made)
      BY <1>2, <2>2 DEF made
    <3>2. QED
      BY <1>1, <1>6, <1>7, <3>1, HostWrites
  <2>3. QED
    BY <2>1, <2>2
<1>11. /\ \A t \in DOMAIN checks' : t # hostTarget => t \in DOMAIN checks /\ checks'[t] = checks[t]
       /\ run.reason # "spawn_error" => hostTarget \in DOMAIN checks' /\ checks'[hostTarget] = check
  <2>. HIDE DEF check
  <2>1. CASE run.reason = "spawn_error"
    BY <1>2, <2>1
  <2>2. CASE run.reason # "spawn_error"
    <3>1. checks' = record(ofTarget(hostTarget, check))
      BY <1>2, <2>2 DEF check
    <3>2. QED
      BY <3>1 DEF record, ofTarget
  <2>3. QED
    BY <2>1, <2>2
<1>12. \A t \in DOMAIN checks' : t # hostTarget =>
         /\ checks'[t].at \in 1..round
         /\ machine'[checks'[t].at].listed = machine[checks[t].at].listed
         /\ machine'[checks'[t].at].containers = machine[checks[t].at].containers
  BY <1>5, <1>11 DEF ProbesTypeOK
<1>13. HostChecked'
  <2>1. CASE run.reason = "spawn_error"
    <3>1. UNCHANGED <<gauges, checks>>
      BY <1>2, <2>1
    <3>2. hostTarget \in DOMAIN checks => machine'[checks[hostTarget].at].ran = machine[checks[hostTarget].at].ran
      BY <1>1, <1>5 DEF HostChecked, ProbesTypeOK
    <3>3. QED
      BY <1>1, <1>3, <3>1, <3>2 DEF HostChecked
  <2>2. CASE run.reason # "spawn_error"
    <3>1. checks'[hostTarget] = check
      BY <1>11, <2>2
    <3>2. check.at = round /\ (check.ok => reason = OK)
      OBVIOUS
    <3>3. machine'[round].ran = run.reason
      BY <1>5
    <3>4. ASSUME check.ok PROVE run.reason = OK /\ \E g \in gauges' : g.at = round /\ g.metric[1] \in VitalHeads
      <4>1. run.reason = OK /\ made # {}
        BY <3>2, <3>4 DEF OK
      <4>2. PICK s \in made : s.metric[1] \in VitalHeads
        BY <1>7, <4>1 DEF Numbered
      <4>3. PICK g \in gauges' : g.at = round /\ g.metric = s.metric
        <5>. HIDE DEF made
        <5>1. QED
          BY <1>10, <2>2, <4>2
      <4>4. QED
        BY <4>1, <4>2, <4>3
    <3>. HIDE DEF check
    <3>5. QED
      BY <1>3, <2>2, <3>1, <3>2, <3>3, <3>4 DEF HostChecked
  <2>3. QED
    BY <2>1, <2>2
<1>14. dockerTarget # hostTarget
  BY DEF dockerTarget, hostTarget
<1>15. DockerChecked'
  BY <1>11, <1>12, <1>14 DEF DockerChecked
<1>16. ContainersChecked'
  BY <1>11, <1>12 DEF ContainersChecked
<1>17. \A t \in DOMAIN checks' : checks'[t].at \in 1..round
  <2>1. hostTarget \in DOMAIN checks' => checks'[hostTarget].at \in 1..round
    <3>1. CASE run.reason = "spawn_error"
      BY <1>2, <3>1 DEF ProbesTypeOK
    <3>2. CASE run.reason # "spawn_error"
      BY <1>3, <1>11, <3>2
    <3>3. QED
      BY <3>1, <3>2
  <2>2. QED
    BY <1>12, <2>1
<1>18. ProbesTypeOK'
  BY <1>1, <1>3, <1>5, <1>9, <1>10, <1>17 DEF ProbesTypeOK
<1>19. QED
  BY <1>8, <1>10, <1>13, <1>15, <1>16, <1>18

LEMMA SlowIsCollected == ProbesInv /\ collectSlow => ProbesInv'
<1>. SUFFICES ASSUME ProbesInv, collectSlow PROVE ProbesInv'
  OBVIOUS
<1>. USE DEF ProbesInv
<1>1. "slow" \in pending /\ Done("slow") /\ UNCHANGED <<round, machine, checks>>
  BY DEF collectSlow
<1>2. PICK run \in Runs(SLOW_SCRIPT) :
        /\ Ran(run, SLOW_SCRIPT)
        /\ IF run.reason = OK THEN writeReadings(samplesFromSections(run.printed)) ELSE UNCHANGED gauges
  BY DEF collectSlow
<1>3. /\ round \in 1..MaxRound /\ pending' \subseteq pending
  BY <1>1, ThisRound DEF Done
<1>4. Remembers /\ Begun'
  BY <1>1, <1>3 DEF Remembers, Begun, ProbesTypeOK
<1>5. VITALS_SCRIPT # SLOW_SCRIPT
  <2>1. "df" \in SLOW_SCRIPT /\ "df" \notin VITALS_SCRIPT
    BY DEF VITALS_SCRIPT, SLOW_SCRIPT
  <2>2. QED
    BY <2>1
<1>6. /\ HostsRead' /\ ContainersRead'
      /\ \A g \in gauges' : g.at \in 1..round /\ g.value \in Nat
      /\ \A g \in gauges : g.metric[1] \notin SlowHeads => g \in gauges'
  <2>1. CASE run.reason = OK
    <3>1. /\ samplesFromSections(run.printed) \in SUBSET samplesFromSections(machine[round].files)
          /\ Numbered(samplesFromSections(run.printed), SlowHeads)
      BY <1>1, <1>2, <1>5, <2>1, RunSays
    <3>2. writeReadings(samplesFromSections(run.printed))
      BY <1>2, <2>1
    <3>3. QED
      BY <1>1, <1>4, <3>1, <3>2, HostWrites
  <2>2. CASE run.reason # OK
    <3>1. writeReadings({})
      BY <1>2, <2>2 DEF writeReadings
    <3>2. {} \in SUBSET samplesFromSections(machine[round].files) /\ Numbered({}, SlowHeads)
      BY DEF Numbered
    <3>3. QED
      BY <1>1, <1>4, <3>1, <3>2, HostWrites
  <2>3. QED
    BY <2>1, <2>2
<1>7. damaged' \in 0..MaxDamage
  BY <1>2, DamageIsBounded
<1>8. ProbesTypeOK'
  BY <1>1, <1>3, <1>6, <1>7 DEF ProbesTypeOK
<1>9. HostChecked'
  <2>1. VitalHeads \intersect SlowHeads = {}
    BY DEF VitalHeads, SlowHeads, CPU_LINES
  <2>2. \A g \in gauges : g.metric[1] \in VitalHeads => g \in gauges'
    BY <1>6, <2>1
  <2>3. QED
    BY <1>1, <1>3, <2>2 DEF HostChecked
<1>10. DockerChecked' /\ ContainersChecked'
  BY <1>1 DEF DockerChecked, ContainersChecked
<1>11. QED
  BY <1>4, <1>6, <1>8, <1>9, <1>10

\* The endpoint's failure says nothing of its containers.
LEMMA EndpointFails ==
  ProbesInv /\ collectContainers /\ UNCHANGED machine
    /\ (\E reason \in (Reasons \ {"spawn_error"}) \union {"bad_json"} : endpointOnly(reason)) => ProbesInv'
<1>. SUFFICES ASSUME ProbesInv, collectContainers, UNCHANGED machine,
                     NEW reason, endpointOnly(reason)
              PROVE  ProbesInv'
  OBVIOUS
<1>. USE DEF ProbesInv
<1>. DEFINE check == [ok |-> FALSE, reason |-> reason, at |-> round]
<1>1. /\ "containers" \in pending /\ Done("containers") /\ UNCHANGED <<round, damaged, gauges, machine>>
      /\ checks' = record(ofTarget(dockerTarget, check))
  BY DEF collectContainers, endpointOnly
<1>2. /\ round \in 1..MaxRound /\ machine[round] \in Remembered
      /\ pending' \subseteq {"vitals", "containers", "slow"} /\ "containers" \notin pending'
      /\ pending' \intersect {"vitals"} \subseteq pending
  BY <1>1, ThisRound, JobIsDone
<1>3. /\ dockerTarget \in DOMAIN checks' /\ checks'[dockerTarget] = check
      /\ \A t \in DOMAIN checks' : t # dockerTarget => t \in DOMAIN checks /\ checks'[t] = checks[t]
  <2>. HIDE DEF check
  <2>1. QED
    BY <1>1 DEF record, ofTarget
<1>4. check.at = round /\ check.ok = FALSE
  OBVIOUS
<1>. HIDE DEF check
<1>5. Begun' /\ ProbesTypeOK'
  <2>1. \A t \in DOMAIN checks' : checks'[t].at \in 1..round
    BY <1>2, <1>3, <1>4 DEF ProbesTypeOK
  <2>2. QED
    BY <1>1, <1>2, <2>1 DEF Begun, ProbesTypeOK
<1>6. HostsRead' /\ ContainersRead'
  <2>1. HostsRead'
    BY <1>1 DEF HostsRead, ReadingsAreReal
  <2>2. \A s : AsTold(s)' <=> AsTold(s)
    BY <1>1 DEF AsTold
  <2>3. \A name, r : ListedSince(name, r)' <=> ListedSince(name, r)
    BY <1>1 DEF ListedSince
  <2>4. ContainersRead'
    BY <1>1, <2>2, <2>3 DEF ContainersRead
  <2>5. QED
    BY <2>1, <2>4
<1>7. dockerTarget # hostTarget
  BY DEF dockerTarget, hostTarget
<1>8. HostChecked'
  BY <1>1, <1>2, <1>3, <1>7 DEF HostChecked
<1>9. DockerChecked'
  <2>1. machine[round].listed = FALSE
    BY <1>1, <1>2 DEF Begun, Remembered
  <2>2. QED
    BY <1>1, <1>3, <1>4, <2>1 DEF DockerChecked
<1>10. ContainersChecked'
  BY <1>1, <1>3 DEF ContainersChecked
<1>11. QED
  BY <1>5, <1>6, <1>8, <1>9, <1>10

\* The gauges of a container are three, and are its own.
LEMMA TripleOf ==
  ASSUME NEW states, NEW u
  PROVE  u \in toSamples(states) <=> \E s \in states : u \in toSamples({s})
<1>1. QED
  BY DEF toSamples

LEMMA TripleIs ==
  ASSUME NEW s, NEW t, NEW u \in toSamples({s})
  PROVE  /\ u.metric[1] = "container" /\ u.metric[2] = s.name /\ u.value \in Nat
         /\ u = sample(u.metric, u.value)
         /\ s.name = t.name => \E v \in toSamples({t}) : v.metric = u.metric
<1>1. \/ u = sample(<<"container", s.name, "up">>, IF s.running THEN 1 ELSE 0)
      \/ u = sample(<<"container", s.name, "healthy">>, IF s.check = "healthy" /\ s.running THEN 1 ELSE 0)
      \/ u = sample(<<"container", s.name, "has_healthcheck">>, IF s.check = "none" THEN 0 ELSE 1)
  BY DEF toSamples
<1>2. /\ u.metric[1] = "container" /\ u.metric[2] = s.name /\ u.value \in Nat
      /\ u = sample(u.metric, u.value)
      /\ u.metric[3] \in {"up", "healthy", "has_healthcheck"}
      /\ u.metric = <<"container", s.name, u.metric[3]>>
  BY <1>1 DEF sample
<1>3. \A kind \in {"up", "healthy", "has_healthcheck"} :
        \E v \in toSamples({t}) : v.metric = <<"container", t.name, kind>>
  <2>. DEFINE up == sample(<<"container", t.name, "up">>, IF t.running THEN 1 ELSE 0)
              healthy == sample(<<"container", t.name, "healthy">>, IF t.check = "healthy" /\ t.running THEN 1 ELSE 0)
              has == sample(<<"container", t.name, "has_healthcheck">>, IF t.check = "none" THEN 0 ELSE 1)
  <2>1. {up, healthy, has} \subseteq toSamples({t})
    BY DEF toSamples
  <2>2. /\ up.metric = <<"container", t.name, "up">> /\ healthy.metric = <<"container", t.name, "healthy">>
        /\ has.metric = <<"container", t.name, "has_healthcheck">>
    BY DEF sample
  <2>. HIDE DEF up, healthy, has
  <2>3. QED
    BY <2>1, <2>2
<1>4. QED
  BY <1>2, <1>3

\* The three gauges say what was listed.
LEMMA TripleSays ==
  ASSUME NEW s, AsTold(s)
  PROVE  /\ is1(<<"container", s.name, "up">>) <=> s.running
         /\ is1(<<"container", s.name, "healthy">>) <=> (s.running /\ s.check = "healthy")
         /\ is1(<<"container", s.name, "has_healthcheck">>) <=> s.check # "none"
<1>. DEFINE up == sample(<<"container", s.name, "up">>, IF s.running THEN 1 ELSE 0)
            healthy == sample(<<"container", s.name, "healthy">>, IF s.check = "healthy" /\ s.running THEN 1 ELSE 0)
            has == sample(<<"container", s.name, "has_healthcheck">>, IF s.check = "none" THEN 0 ELSE 1)
<1>1. toSamples({s}) = {up, healthy, has}
  BY DEF toSamples
<1>2. /\ up.metric = <<"container", s.name, "up">> /\ (up.value = 1 <=> s.running)
      /\ healthy.metric = <<"container", s.name, "healthy">>
      /\ (healthy.value = 1 <=> (s.running /\ s.check = "healthy"))
      /\ has.metric = <<"container", s.name, "has_healthcheck">> /\ (has.value = 1 <=> s.check # "none")
  BY DEF sample
<1>3. up.metric # healthy.metric /\ up.metric # has.metric /\ healthy.metric # has.metric
  BY <1>2
<1>4. ASSUME NEW u \in {up, healthy, has}
      PROVE  is1(u.metric) <=> u.value = 1
  <2>1. PICK g \in gauges : g.metric = u.metric /\ g.value = u.value
    BY <1>1, <1>4 DEF AsTold
  <2>2. u.metric[1] = "container" /\ u.metric[2] = s.name
    BY <1>2
  <2>3. ASSUME NEW h \in gauges, h.metric = u.metric PROVE h.value = u.value
    <3>1. sample(h.metric, h.value) \in {up, healthy, has}
      BY <1>1, <2>2, <2>3 DEF AsTold
    <3>2. sample(h.metric, h.value) = u
      <4>. HIDE DEF up, healthy, has
      <4>1. sample(h.metric, h.value).metric = u.metric
        BY <2>3 DEF sample
      <4>2. QED
        BY <1>3, <1>4, <3>1, <4>1
    <3>3. QED
      BY <3>2 DEF sample
  <2>4. QED
    BY <2>1, <2>3 DEF is1, latestOf
<1>5. QED
  <2>. HIDE DEF up, healthy, has
  <2>1. QED
    BY <1>2, <1>4

LEMMA CheckSays ==
  ASSUME NEW s
  PROVE  /\ s.running \in BOOLEAN => containerCheck(s).ok = (s.running /\ s.check # "unhealthy")
         /\ containerCheck(s).at = round
<1>1. containerCheck(s).ok <=> (s.running /\ s.check # "unhealthy")
  BY DEF containerCheck, OK
<1>2. containerCheck(s).ok \in BOOLEAN /\ containerCheck(s).at = round
  BY DEF containerCheck
<1>3. QED
  BY <1>1, <1>2

LEMMA ContainersAreObserved ==
  ProbesInv /\ collectContainers /\ allObserved /\ machine' = [machine EXCEPT ![round].listed = TRUE] => ProbesInv'
<1>0. SUFFICES ASSUME ProbesInv, collectContainers, allObserved, machine' = [machine EXCEPT ![round].listed = TRUE]
               PROVE  ProbesInv'
  OBVIOUS
<1>. USE DEF ProbesInv
<1>. DEFINE listed == machine[round].containers
            states == parseContainers(listed)
            names == {s.name : s \in states}
            ofName(n) == CHOOSE s \in states : s.name = n
            results == [t \in {dockerTarget} \union {containerTarget(n) : n \in names} |->
                          IF t = dockerTarget THEN [ok |-> TRUE, reason |-> OK, at |-> round]
                          ELSE containerCheck(ofName(t[2]))]
<1>1. /\ "containers" \in pending /\ Done("containers") /\ UNCHANGED <<round, damaged>>
      /\ writeReadings(toSamples(states))
      /\ \E open \in SUBSET {t \in DOMAIN checks : t[1] = "container"} :
           checks' = retireAbsent(record(results), names, open)
  BY <1>0 DEF collectContainers, allObserved
<1>2. /\ round \in 1..MaxRound /\ round \in DOMAIN machine /\ machine[round] \in Remembered
      /\ pending' \subseteq {"vitals", "containers", "slow"} /\ "containers" \notin pending'
      /\ pending' \intersect {"vitals"} \subseteq pending
  BY <1>0, <1>1, ThisRound, JobIsDone
<1>3. /\ OneAName(listed)
      /\ listed \subseteq [name : STRING, running : BOOLEAN, check : {"healthy", "unhealthy", "none"}]
  BY <1>0, <1>1, ThisRound, ProbesAssumption
<1>4. /\ states \subseteq listed
      /\ \A s, t \in states : s.name = t.name => s = t
  BY <1>3 DEF parseContainers, OneAName
<1>5. /\ machine' \in Seq(Remembered) /\ Len(machine') = round
      /\ \A r \in 1..round : /\ machine'[r].files = machine[r].files
                             /\ machine'[r].containers = machine[r].containers
                             /\ machine'[r].ran = machine[r].ran
                             /\ machine[r].listed => machine'[r].listed
                             /\ r # round => machine'[r].listed = machine[r].listed
      /\ machine'[round].listed = TRUE
  <2>. DEFINE new == [machine[round] EXCEPT !.listed = TRUE]
  <2>1. machine' = [machine EXCEPT ![round] = new]
    BY <1>0
  <2>2. /\ new \in Remembered /\ new.files = machine[round].files /\ new.listed = TRUE
        /\ new.containers = machine[round].containers /\ new.ran = machine[round].ran
    BY <1>2 DEF Remembered
  <2>3. machine \in Seq(Remembered) /\ Len(machine) = round
    BY <1>0 DEF Begun, ProbesTypeOK
  <2>4. /\ machine' \in Seq(Remembered) /\ Len(machine') = round
        /\ machine'[round] = new /\ \A r \in 1..round : r # round => machine'[r] = machine[r]
    <3>. HIDE DEF new, Remembered
    <3>1. QED
      BY <1>2, <2>1, <2>2, <2>3
  <2>. HIDE DEF new, Remembered
  <2>5. \A r \in 1..round : machine[r].listed => machine'[r].listed
    BY <2>2, <2>4
  <2>6. QED
    BY <2>2, <2>4, <2>5
<1>. HIDE DEF results, names, ofName, states, listed
<1>6. ASSUME NEW g \in gauges'
      PROVE  \/ g \in gauges /\ \A u \in toSamples(states) : u.metric # g.metric
             \/ \E u \in toSamples(states) : g = [metric |-> u.metric, value |-> u.value, at |-> round]
  BY <1>1 DEF writeReadings
<1>7. /\ \A g \in gauges : (\A u \in toSamples(states) : u.metric # g.metric) => g \in gauges'
      /\ \A u \in toSamples(states) : [metric |-> u.metric, value |-> u.value, at |-> round] \in gauges'
  BY <1>1 DEF writeReadings
<1>8. ASSUME NEW u \in toSamples(states)
      PROVE  /\ u.metric[1] = "container" /\ u.metric[2] \in names /\ u.value \in Nat
             /\ u = sample(u.metric, u.value)
             /\ \A s \in states : s.name = u.metric[2] => u \in toSamples({s})
  <2>1. PICK s \in states : u \in toSamples({s})
    BY TripleOf
  <2>2. /\ u.metric[1] = "container" /\ u.metric[2] = s.name /\ u.value \in Nat
        /\ u = sample(u.metric, u.value)
    BY <2>1, TripleIs
  <2>3. QED
    BY <1>4, <2>1, <2>2 DEF names
<1>9. HostsRead'
  <2>1. SUFFICES ASSUME NEW g \in gauges'
                 PROVE  /\ g.metric[1] \in VitalHeads \union SlowHeads \union {"container"}
                        /\ g.metric[1] # "container" =>
                             sample(g.metric, g.value) \in samplesFromSections(machine'[g.at].files)
    BY DEF HostsRead, ReadingsAreReal
  <2>2. CASE g \in gauges
    <3>1. machine'[g.at].files = machine[g.at].files
      BY <1>0, <1>5, <2>2 DEF ProbesTypeOK
    <3>2. QED
      BY <1>0, <2>2, <3>1 DEF HostsRead, ReadingsAreReal
  <2>3. CASE g \notin gauges
    BY <1>6, <1>8, <2>3
  <2>4. QED
    BY <2>2, <2>3
<1>10. ContainersRead'
  <2>1. SUFFICES ASSUME NEW g \in gauges', g.metric[1] = "container"
                 PROVE  /\ Named(g.metric[2])
                        /\ \E r \in 1..round :
                             /\ machine'[r].listed /\ ~ListedSince(g.metric[2], r)'
                             /\ \E s \in machine'[r].containers : s.name = g.metric[2] /\ AsTold(s)'
    BY <1>1 DEF ContainersRead
  <2>2. CASE g.metric[2] \in names
    <3>1. PICK s \in states : s.name = g.metric[2]
      BY <2>2 DEF names
    <3>2. ASSUME NEW h \in gauges', h.metric[1] = "container", h.metric[2] = s.name
          PROVE  sample(h.metric, h.value) \in toSamples({s})
      <4>1. CASE h \in gauges /\ \A u \in toSamples(states) : u.metric # h.metric
        <5>1. PICK r \in 1..round : /\ machine[r].listed /\ ~ListedSince(h.metric[2], r)
                                    /\ \E t \in machine[r].containers : t.name = h.metric[2] /\ AsTold(t)
          BY <1>0, <3>2, <4>1 DEF ContainersRead
        <5>2. PICK t \in machine[r].containers : t.name = s.name /\ AsTold(t)
          BY <3>2, <5>1
        <5>3. sample(h.metric, h.value) \in toSamples({t})
          BY <3>2, <4>1, <5>2 DEF AsTold
        <5>4. \A u \in toSamples({t}) : \E v \in toSamples({s}) : v.metric = u.metric
          BY <5>2, TripleIs
        <5>5. PICK v \in toSamples({s}) : v.metric = sample(h.metric, h.value).metric
          BY <5>3, <5>4
        <5>6. v \in toSamples(states) /\ v.metric = h.metric
          BY <3>1, <5>5, TripleOf DEF sample
        <5>7. QED
          BY <4>1, <5>6
      <4>2. CASE \E u \in toSamples(states) : h = [metric |-> u.metric, value |-> u.value, at |-> round]
        <5>1. PICK u \in toSamples(states) : h = [metric |-> u.metric, value |-> u.value, at |-> round]
          BY <4>2
        <5>2. u \in toSamples({s}) /\ u = sample(u.metric, u.value)
          BY <1>8, <3>1, <3>2, <5>1
        <5>3. QED
          BY <5>1, <5>2
      <4>3. QED
        BY <1>6, <4>1, <4>2
    <3>3. ASSUME NEW u \in toSamples({s})
          PROVE  \E h \in gauges' : h.metric = u.metric /\ h.value = u.value
      <4>1. [metric |-> u.metric, value |-> u.value, at |-> round] \in gauges'
        BY <1>7, <3>1, TripleOf
      <4>2. QED
        BY <4>1
    <3>4. AsTold(s)'
      BY <3>2, <3>3 DEF AsTold
    <3>5. s \in machine'[round].containers /\ machine'[round].listed
      <4>1. machine'[round].containers = listed
        BY <1>2, <1>5 DEF listed
      <4>2. machine'[round].listed
        BY <1>5
      <4>3. QED
        BY <1>4, <3>1, <4>1, <4>2
    <3>6. ASSUME NEW r \in 1..round, r = round PROVE ~ListedSince(g.metric[2], r)'
      <4>1. (r + 1)..round' = {}
        BY <1>1, <1>2, <3>6, ProbesAssumption
      <4>2. QED
        BY <4>1 DEF ListedSince
    <3>7. Named(g.metric[2])
      <4>1. Named(s.name)
        BY <3>1, Zenon DEF Named, states, parseContainers
      <4>2. QED
        BY <3>1, <4>1
    <3>8. PICK r \in 1..round : r = round
      BY <1>2
    <3>9. s \in machine'[r].containers /\ machine'[r].listed /\ ~ListedSince(g.metric[2], r)'
      BY <3>5, <3>6, <3>8
    <3>10. QED
      BY <3>1, <3>4, <3>7, <3>8, <3>9
  <2>3. CASE g.metric[2] \notin names
    <3>1. \A h : h.metric[1] = "container" /\ h.metric[2] = g.metric[2] => (h \in gauges' <=> h \in gauges)
      <4>1. \A u \in toSamples(states) : u.metric[2] # g.metric[2]
        BY <1>8, <2>3
      <4>2. QED
        BY <1>6, <1>7, <4>1
    <3>0. Named(g.metric[2])
      BY <1>0, <2>1, <3>1 DEF ContainersRead
    <3>2. PICK r \in 1..round : /\ machine[r].listed /\ ~ListedSince(g.metric[2], r)
                                /\ \E t \in machine[r].containers : t.name = g.metric[2] /\ AsTold(t)
      BY <1>0, <2>1, <3>1 DEF ContainersRead
    <3>3. PICK t \in machine[r].containers : t.name = g.metric[2] /\ AsTold(t)
      BY <3>2
    <3>4. AsTold(t)'
      <4>1. \A h \in gauges' : h.metric[1] = "container" /\ h.metric[2] = t.name =>
              sample(h.metric, h.value) \in toSamples({t})
        BY <3>1, <3>3 DEF AsTold
      <4>2. \A u \in toSamples({t}) : u.metric[1] = "container" /\ u.metric[2] = t.name
        BY TripleIs
      <4>3. \A u \in toSamples({t}) : \E h \in gauges' : h.metric = u.metric /\ h.value = u.value
        BY <3>1, <3>3, <4>2 DEF AsTold
      <4>4. QED
        BY <4>1, <4>3 DEF AsTold
    <3>5. t \in machine'[r].containers /\ machine'[r].listed
      BY <1>5, <3>2, <3>3
    <3>6. ~ListedSince(g.metric[2], r)'
      <4>1. \A s \in listed : s.name # g.metric[2]
        BY <2>3, <3>0, Zenon DEF Named, names, states, parseContainers
      <4>2. \A q \in (r + 1)..round : q # round =>
              machine'[q].listed = machine[q].listed /\ machine'[q].containers = machine[q].containers
        BY <1>2, <1>5, <3>2
      <4>3. \A s \in machine'[round].containers : s.name # g.metric[2]
        BY <1>2, <1>5, <4>1 DEF listed
      <4>4. QED
        BY <1>1, <3>2, <4>2, <4>3 DEF ListedSince
    <3>7. QED
      BY <3>0, <3>2, <3>3, <3>4, <3>5, <3>6
  <2>4. QED
    BY <2>2, <2>3
<1>11. /\ \A t \in DOMAIN checks' :
            \/ t \in DOMAIN results /\ checks'[t] = results[t]
            \/ t \in DOMAIN checks /\ t \notin DOMAIN results /\ checks'[t] = checks[t]
  <2>1. PICK open \in SUBSET {t \in DOMAIN checks : t[1] = "container"} :
               checks' = retireAbsent(record(results), names, open)
    BY <1>1
  <2>2. QED
    BY <2>1 DEF record, retireAbsent
<1>12. /\ DOMAIN results = {dockerTarget} \union {containerTarget(n) : n \in names}
       /\ results[dockerTarget] = [ok |-> TRUE, reason |-> OK, at |-> round]
       /\ \A n \in names : results[containerTarget(n)] = containerCheck(ofName(n))
  BY DEF results, dockerTarget, containerTarget
<1>13. hostTarget # dockerTarget /\ hostTarget \notin DOMAIN results
  BY <1>12 DEF hostTarget, dockerTarget, containerTarget
<1>14. \A n \in names : ofName(n) \in states /\ ofName(n).name = n
  BY DEF names, ofName
<1>15. \A t \in DOMAIN checks : checks[t].at \in 1..round
  BY <1>0 DEF ProbesTypeOK
<1>16. \A t \in DOMAIN checks' : checks'[t].at \in 1..round
  <2>1. \A t \in DOMAIN results : results[t].at = round
    BY <1>12, CheckSays
  <2>2. QED
    BY <1>2, <1>11, <1>15, <2>1
<1>17. \A g \in gauges' : g.at \in 1..round /\ g.value \in Nat
  BY <1>0, <1>2, <1>6, <1>8 DEF ProbesTypeOK
<1>18. ProbesTypeOK' /\ Begun'
  BY <1>0, <1>1, <1>2, <1>5, <1>16, <1>17 DEF ProbesTypeOK, Begun
<1>19. HostChecked'
  <2>1. hostTarget \in DOMAIN checks' => hostTarget \in DOMAIN checks /\ checks'[hostTarget] = checks[hostTarget]
    BY <1>11, <1>13
  <2>2. "container" \notin VitalHeads
    BY DEF VitalHeads, CPU_LINES
  <2>3. \A g \in gauges : g.metric[1] \in VitalHeads => g \in gauges'
    BY <1>7, <1>8, <2>2
  <2>4. \A r \in 1..round : machine'[r].ran = machine[r].ran
    BY <1>5
  <2>5. QED
    BY <1>0, <1>1, <1>2, <1>15, <2>1, <2>3, <2>4 DEF HostChecked
<1>20. DockerChecked'
  <2>1. dockerTarget \in DOMAIN checks' => checks'[dockerTarget] = [ok |-> TRUE, reason |-> OK, at |-> round]
    BY <1>11, <1>12
  <2>2. SUFFICES ASSUME dockerTarget \in DOMAIN checks'
                 PROVE  checks'[dockerTarget].ok = machine'[checks'[dockerTarget].at].listed
    BY DEF DockerChecked
  <2>3. checks'[dockerTarget].ok = TRUE /\ checks'[dockerTarget].at = round
    BY <2>1, <2>2
  <2>4. QED
    BY <1>5, <2>3
<1>21. ContainersChecked'
  <2>1. SUFFICES ASSUME NEW t \in DOMAIN checks', t \notin {hostTarget, dockerTarget}
                 PROVE  /\ t[1] = "container" /\ machine'[checks'[t].at].listed
                        /\ \E s \in machine'[checks'[t].at].containers :
                             s.name = t[2] /\ checks'[t].ok = (s.running /\ s.check # "unhealthy")
    BY DEF ContainersChecked
  <2>2. CASE t \in DOMAIN results /\ checks'[t] = results[t]
    <3>1. PICK n \in names : t = containerTarget(n)
      BY <1>12, <2>1, <2>2
    <3>2. t[1] = "container" /\ t[2] = n
      BY <3>1 DEF containerTarget
    <3>3. ofName(n) \in listed /\ ofName(n).name = n /\ ofName(n).running \in BOOLEAN
      BY <1>3, <1>4, <1>14
    <3>4. /\ checks'[t].at = round
          /\ checks'[t].ok = (ofName(n).running /\ ofName(n).check # "unhealthy")
      <4>1. checks'[t] = containerCheck(ofName(n))
        BY <1>12, <2>2, <3>1
      <4>2. QED
        BY <3>3, <4>1, CheckSays
    <3>5. ofName(n) \in machine'[round].containers /\ machine'[round].listed
      <4>1. machine'[round].containers = listed
        BY <1>2, <1>5 DEF listed
      <4>2. machine'[round].listed
        BY <1>5
      <4>3. QED
        BY <3>3, <4>1, <4>2
    <3>6. QED
      BY <3>2, <3>3, <3>4, <3>5
  <2>3. CASE t \in DOMAIN checks /\ checks'[t] = checks[t]
    <3>1. checks[t].at \in 1..round
      BY <1>15, <2>3
    <3>2. machine[checks[t].at].listed => machine'[checks[t].at].listed
      BY <1>5, <3>1
    <3>3. machine'[checks[t].at].containers = machine[checks[t].at].containers
      BY <1>5, <3>1
    <3>4. QED
      BY <1>0, <2>1, <2>3, <3>2, <3>3 DEF ContainersChecked
  <2>4. QED
    BY <1>11, <2>2, <2>3
<1>22. QED
  BY <1>9, <1>10, <1>18, <1>19, <1>20, <1>21

LEMMA ProbesKeep == ProbesInv /\ [ProbesNext]_probeVars => ProbesInv'
<1>0. SUFFICES ASSUME ProbesInv, [ProbesNext]_probeVars PROVE ProbesInv'
  OBVIOUS
<1>1. CASE BeginRound
  BY <1>0, <1>1, RoundBegins
<1>2. CASE collectHost
  BY <1>0, <1>2, HostIsCollected
<1>3. CASE collectSlow
  BY <1>0, <1>3, SlowIsCollected
<1>4. CASE collectContainers
  <2>1. CASE /\ \E reason \in (Reasons \ {"spawn_error"}) \union {"bad_json"} : endpointOnly(reason)
             /\ UNCHANGED machine
    BY <1>0, <1>4, <2>1, EndpointFails
  <2>2. CASE allObserved /\ machine' = [machine EXCEPT ![round].listed = TRUE]
    BY <1>0, <1>4, <2>2, ContainersAreObserved
  <2>3. QED
    BY <1>4, <2>1, <2>2 DEF collectContainers
<1>5. CASE UNCHANGED probeVars
  <2>1. UNCHANGED <<round, machine, pending, damaged, gauges, checks>>
    BY <1>5 DEF probeVars
  <2>2. ProbesTypeOK' /\ Begun' /\ HostsRead'
    BY <1>0, <2>1 DEF ProbesInv, ProbesTypeOK, Begun, HostsRead, ReadingsAreReal
  <2>3. ContainersRead'
    <3>1. \A s : AsTold(s)' <=> AsTold(s)
      BY <2>1 DEF AsTold
    <3>2. \A name, r : ListedSince(name, r)' <=> ListedSince(name, r)
      BY <2>1 DEF ListedSince
    <3>3. QED
      BY <1>0, <2>1, <3>1, <3>2 DEF ProbesInv, ContainersRead
  <2>4. HostChecked' /\ DockerChecked' /\ ContainersChecked'
    BY <1>0, <2>1 DEF ProbesInv, HostChecked, DockerChecked, ContainersChecked
  <2>5. QED
    BY <2>2, <2>3, <2>4 DEF ProbesInv
<1>6. QED
  BY <1>0, <1>1, <1>2, <1>3, <1>4, <1>5 DEF ProbesNext

\* What is kept of a host's answers is what it showed.
LEMMA ProbesSay == ProbesInv => ProbesTellTheTruth
<1>. SUFFICES ASSUME ProbesInv PROVE ProbesTellTheTruth
  OBVIOUS
<1>. USE DEF ProbesInv
<1>1. ReadingsAreReal
  BY DEF HostsRead
<1>2. ContainersAsListed
  <2>0. SUFFICES ASSUME NEW c \in fromSamples
                 PROVE  \E r \in 1..round :
                          /\ machine[r].listed /\ ~ListedSince(c.name, r)
                          /\ \E s \in machine[r].containers :
                               /\ s.name = c.name /\ c.up = s.running
                               /\ c.healthy = (s.running /\ s.check = "healthy")
                               /\ c.has_healthcheck = (s.check # "none")
    BY DEF ContainersAsListed
  <2>1. PICK g \in gauges :
          /\ g.metric[1] = "container"
          /\ c = [name |-> g.metric[2], up |-> is1(<<"container", g.metric[2], "up">>),
                  healthy |-> is1(<<"container", g.metric[2], "healthy">>),
                  has_healthcheck |-> is1(<<"container", g.metric[2], "has_healthcheck">>)]
    BY <2>0 DEF fromSamples
  <2>2. PICK r \in 1..round : /\ machine[r].listed /\ ~ListedSince(g.metric[2], r)
                              /\ \E s \in machine[r].containers : s.name = g.metric[2] /\ AsTold(s)
    BY <2>1 DEF ContainersRead
  <2>3. PICK s \in machine[r].containers : s.name = g.metric[2] /\ AsTold(s)
    BY <2>2
  <2>4. s.running \in BOOLEAN
    <3>1. machine \in Seq(Remembered) /\ r \in DOMAIN machine
      BY DEF Begun, ProbesTypeOK
    <3>2. machine[r] \in Remembered
      <4>. HIDE DEF Remembered
      <4>1. QED
        BY <3>1
    <3>3. PICK host \in Machines : machine[r].containers = host.containers
      BY <3>2 DEF Remembered
    <3>4. QED
      BY <2>3, <3>3, ProbesAssumption
  <2>5. /\ is1(<<"container", s.name, "up">>) <=> s.running
        /\ is1(<<"container", s.name, "healthy">>) <=> (s.running /\ s.check = "healthy")
        /\ is1(<<"container", s.name, "has_healthcheck">>) <=> s.check # "none"
    BY <2>3, TripleSays
  <2>6. \A m : is1(m) \in BOOLEAN
    BY DEF is1
  <2>7. /\ is1(<<"container", s.name, "up">>) = s.running
        /\ is1(<<"container", s.name, "healthy">>) = (s.running /\ s.check = "healthy")
        /\ is1(<<"container", s.name, "has_healthcheck">>) = (s.check # "none")
    BY <2>4, <2>5, <2>6, Zenon
  <2>8. /\ c.name = s.name /\ c.up = is1(<<"container", s.name, "up">>)
        /\ c.healthy = is1(<<"container", s.name, "healthy">>)
        /\ c.has_healthcheck = is1(<<"container", s.name, "has_healthcheck">>)
    BY <2>1, <2>3
  <2>9. c.name = g.metric[2]
    BY <2>1
  <2>10. QED
    BY <2>2, <2>3, <2>7, <2>8, <2>9
<1>3. ChecksAreObserved
  <2>1. SUFFICES ASSUME NEW t \in DOMAIN checks
                 PROVE  LET c == checks[t]  then == machine[c.at] IN
                        CASE t = hostTarget -> /\ then.ran # "spawn_error"
                                               /\ c.ok => then.ran = OK /\ \E g \in gauges : g.at = c.at
                          [] t = dockerTarget -> c.ok = then.listed
                          [] OTHER -> /\ then.listed
                                      /\ \E s \in then.containers :
                                           s.name = t[2] /\ c.ok = (s.running /\ s.check # "unhealthy")
    BY DEF ChecksAreObserved
  <2>2. hostTarget # dockerTarget
    BY DEF hostTarget, dockerTarget
  <2>3. CASE t = hostTarget
    BY <2>1, <2>2, <2>3 DEF HostChecked
  <2>4. CASE t = dockerTarget
    BY <2>1, <2>2, <2>4 DEF DockerChecked
  <2>5. CASE t \notin {hostTarget, dockerTarget}
    BY <2>1, <2>5 DEF ContainersChecked
  <2>6. QED
    BY <2>3, <2>4, <2>5
<1>4. QED
  BY <1>1, <1>2, <1>3 DEF ProbesTellTheTruth

\* However its answers are cut or garbled and whichever of a round's jobs fail, in
\* whatever order they end, a stored reading, container and check is what the machine
\* showed in the round that stamps it (collector.ts, probes/).
THEOREM ProbesTold == ProbesSpec => [](ProbesTypeOK /\ ProbesTellTheTruth)
<1>1. ProbesInit => ProbesInv
  BY InitProbes
<1>2. ProbesInv /\ [ProbesNext]_probeVars => ProbesInv'
  BY ProbesKeep
<1>3. ProbesInv => ProbesTypeOK /\ ProbesTellTheTruth
  BY ProbesSay DEF ProbesInv
<1>4. QED
  BY <1>1, <1>2, <1>3, PTL DEF ProbesSpec

---------------------------------------------------------------------------
\* The parts beside each other: a step of one leaves the others as they are.

LEMMA PartsBegin == MonitorInit => TasksInit /\ TransportInit /\ ProbesInit /\ FleetInit
<1>1. QED
  BY DEF MonitorInit

LEMMA PartsAct ==
  [MonitorNext]_monitorVars =>
    [TasksNext]_tasksVars /\ [TransportNext]_transportVars /\ [ProbesNext]_probeVars /\ [FleetNext]_fleetVars
<1>0. SUFFICES ASSUME [MonitorNext]_monitorVars
               PROVE  /\ [TasksNext]_tasksVars /\ [TransportNext]_transportVars
                      /\ [ProbesNext]_probeVars /\ [FleetNext]_fleetVars
  OBVIOUS
<1>1. CASE MonitorNext
  BY <1>1 DEF MonitorNext, onWire, onPage
<1>2. CASE UNCHANGED monitorVars
  BY <1>2 DEF monitorVars, onWire, onPage
<1>3. QED
  BY <1>0, <1>1, <1>2

\* The monitor as a whole: its rounds stay on the grid and it exits with no thread in
\* SQLite, what it knows of a machine is what the machine said, and what it says of a
\* host is of the readings it has (tasks.ts, transport/, probes/, collector.ts, fleet.ts).
THEOREM MonitorHolds ==
  MonitorSpec => [](OnTheGrid /\ NoExitInsideSqlite /\ MachinesAreRead /\ FleetIsTold)
<1>1. MonitorSpec => TasksSpec /\ TransportSpec /\ ProbesSpec /\ FleetSpec
  BY PartsBegin, PartsAct, PTL DEF MonitorSpec, TasksSpec, TransportSpec, ProbesSpec, FleetSpec
<1>2. ResultsAreTold /\ ProbesTellTheTruth => MachinesAreRead
  BY DEF MachinesAreRead
<1>3. QED
  BY <1>1, <1>2, GridKept, ExitIsSafe, AsksAreTold, ProbesTold, FleetTold, PTL

=============================================================================

--------------------------- MODULE CollectorTasks ---------------------------
(***************************************************************************)
(* The collector's process: every() paces the vitals rounds, a slow round  *)
(* ends with a prune on a thread of its own, the history loop runs beside, *)
(* and collectorMain stops it all, by a signal or because a loop failed.   *)
(* Node runs each step below to its next await.                            *)
(***************************************************************************)
EXTENDS Naturals, FiniteSets

CONSTANTS Jobs,        \* the probes of one round
          Interval,    \* ticks between rounds (VITALS_INTERVAL)
          SlowEvery,   \* every how many rounds the slow tier is due
          MaxTime      \* ticks of the monotonic clock

ASSUME TasksAssumption ==
  /\ Interval \in Nat \ {0} /\ SlowEvery \in Nat \ {0} /\ MaxTime \in Nat

VARIABLES
  time,        \* the monotonic clock
  loop,        \* where the vitals loop is
  index,       \* rounds begun before this one
  due,         \* when this round, or the one slept for, is due
  waiting,     \* probes of this round, or of its slow tier, not settled
  abandoned,   \* probes nobody waits for any more
  threads,     \* prune threads inside SQLite, each known by the round that began it
  joined,      \* the threads main waits for
  other,       \* the history loop
  aborted,     \* the signal
  process,     \* up, joining, exited, or killed from outside
  stopping,    \* a first SIGTERM or SIGINT has been handled
  began, ended \* history: when this round began, when the one before it ended

tasksVars == <<time, loop, index, due, waiting, abandoned, threads, joined, other, aborted,
               process, stopping, began, ended>>
roundVars == <<loop, index, due, waiting, abandoned, threads, began, ended>>
mainVars == <<joined, other, aborted, process, stopping>>

Phases == {"tick", "slow", "prune", "asleep", "returned", "failed"}
Rounds == 0..MaxTime

TasksTypeOK ==
  /\ time \in 0..MaxTime /\ index \in Rounds /\ due \in Nat
  /\ loop \in Phases /\ other \in {"running", "returned", "failed"}
  /\ waiting \subseteq Jobs /\ abandoned \subseteq Jobs
  /\ threads \subseteq Rounds /\ joined \subseteq Rounds
  /\ aborted \in BOOLEAN /\ stopping \in BOOLEAN
  /\ process \in {"up", "joining", "exited", "killed"}
  /\ began \in 0..MaxTime /\ ended \in 0..MaxTime

TasksInit ==
  /\ time = 0 /\ index = 0 /\ due = 0
  /\ loop = "tick" /\ waiting = Jobs /\ abandoned = {}
  /\ threads = {} /\ joined = {}
  /\ other = "running"
  /\ aborted = FALSE /\ stopping = FALSE /\ process = "up"
  /\ began = 0 /\ ended = 0

running == process \in {"up", "joining"}

\* A probe settles, whichever way: its answer, its failure or its timeout. One
\* that was abandoned runs on to the same end.
Settle(j) ==
  /\ running
  /\ \/ j \in waiting /\ waiting' = waiting \ {j} /\ UNCHANGED abandoned
     \/ j \in abandoned /\ abandoned' = abandoned \ {j} /\ UNCHANGED waiting
  /\ UNCHANGED <<time, loop, index, due, threads, began, ended, mainVars>>

isSlowRound(i) == i % SlowEvery = 0

\* Mutant: the interval is counted from the end of the round.
SleptFromNow ==
  /\ loop' = "asleep"
  /\ due' = time + Interval
  /\ ended' = time
  /\ UNCHANGED <<index, began>>

\* The end of a round: the next is due an interval after this one was. Not before
\* then, and at once when that is past.
Slept ==
  /\ loop' = "asleep"
  /\ due' = due + Interval
  /\ ended' = time
  /\ UNCHANGED <<index, began>>

SleepOver ==
  /\ process = "up" /\ ~aborted
  /\ loop = "asleep" /\ due <= time
  /\ index < MaxTime
  /\ loop' = "tick" /\ waiting' = Jobs
  /\ index' = index + 1
  /\ began' = time
  /\ UNCHANGED <<time, due, abandoned, threads, ended, mainVars>>

\* Every probe of the tick has settled: the heartbeat, then the slow tier or sleep.
TickEnds ==
  /\ process = "up" /\ ~aborted
  /\ loop = "tick" /\ waiting = {}
  /\ IF isSlowRound(index) THEN loop' = "slow" /\ waiting' = Jobs /\ UNCHANGED <<index, due, began, ended>>
     ELSE Slept /\ UNCHANGED waiting
  /\ UNCHANGED <<time, abandoned, threads, mainVars>>

\* The slow tier has settled: the prune starts, tracked from that moment on.
SlowEnds ==
  /\ process = "up" /\ ~aborted
  /\ loop = "slow" /\ waiting = {}
  /\ loop' = "prune"
  /\ threads' = threads \union {index}
  /\ UNCHANGED <<time, index, due, waiting, abandoned, began, ended, mainVars>>

\* A prune thread exits, by itself or by a throw of SQLite's; a round still
\* waiting for it ends with it, or fails with it.
PruneExits(t) ==
  /\ running /\ t \in threads
  /\ threads' = threads \ {t}
  /\ \/ /\ loop = "prune" /\ t = index /\ ~aborted
        /\ \/ Slept
           \/ loop' = "failed" /\ UNCHANGED <<index, due, began, ended>>
     \/ (loop # "prune" \/ aborted) /\ UNCHANGED <<loop, index, due, began, ended>>
  /\ UNCHANGED <<time, waiting, abandoned, mainVars>>

\* A session of the tick throws: the round does, and the loop with it.
RoundFails ==
  /\ process = "up" /\ ~aborted
  /\ loop = "tick" /\ waiting = {}
  /\ loop' = "failed"
  /\ UNCHANGED <<time, index, due, waiting, abandoned, threads, began, ended, mainVars>>

\* The abort reaches whatever the loop is waiting for, and what it waited for goes on.
LoopReturns ==
  /\ aborted /\ loop \notin {"returned", "failed"} /\ running
  /\ loop' = "returned"
  /\ abandoned' = abandoned \union waiting /\ waiting' = {}
  /\ UNCHANGED <<time, index, due, threads, began, ended, mainVars>>

OtherLoop ==
  /\ running /\ other = "running"
  /\ \/ ~aborted /\ other' = "failed"
     \/ aborted /\ other' = "returned"
  /\ UNCHANGED <<time, roundVars, joined, aborted, process, stopping>>

---------------------------------------------------------------------------
\* collectorMain.

\* The first signal aborts; the second finds Node's own handler.
Signal ==
  /\ running
  /\ IF stopping THEN process' = "killed" /\ UNCHANGED <<aborted, stopping>>
     ELSE aborted' = TRUE /\ stopping' = TRUE /\ UNCHANGED process
  /\ UNCHANGED <<time, roundVars, joined, other>>

oneFailed == "failed" \in {loop, other}
bothReturned == loop = "returned" /\ other = "returned"

\* Mutant: nothing is waited for once a loop has failed.
JoinUnlessFailed ==
  /\ process = "up" /\ (oneFailed \/ bothReturned)
  /\ aborted' = TRUE
  /\ joined' = IF oneFailed THEN {} ELSE threads
  /\ process' = "joining"
  /\ UNCHANGED <<time, roundVars, other, stopping>>

\* runAll is over: at the first failure, or when both loops have returned. The
\* signal is raised, for the loop that is left, and the threads there are are joined.
joinPrunes ==
  /\ process = "up" /\ (oneFailed \/ bothReturned)
  /\ aborted' = TRUE
  /\ joined' = threads
  /\ process' = "joining"
  /\ UNCHANGED <<time, roundVars, other, stopping>>

Exit ==
  /\ process = "joining" /\ joined \intersect threads = {}
  /\ process' = "exited"
  /\ UNCHANGED <<time, roundVars, joined, other, aborted, stopping>>

\* Time passes; a sleep that is over is not slept on.
TimePasses ==
  /\ running /\ time < MaxTime
  /\ ~(loop = "asleep" /\ due <= time)
  /\ time' = time + 1
  /\ UNCHANGED <<roundVars, mainVars>>

TasksNext ==
  \/ \E j \in Jobs : Settle(j)
  \/ SleepOver \/ TickEnds \/ SlowEnds \/ RoundFails \/ LoopReturns \/ OtherLoop
  \/ \E t \in Rounds : PruneExits(t)
  \/ Signal \/ joinPrunes \/ Exit
  \/ TimePasses

TasksSpec == TasksInit /\ [][TasksNext]_tasksVars

---------------------------------------------------------------------------
\* Properties.

\* A round that outlasts its interval delays the next to its own end and no round
\* after that: each begins at its own multiple of the interval, or at the end of
\* the one before it, whichever is later, so the loop is back on its grid as soon
\* as the rounds fit again (every).
OnTheGrid ==
  loop \in {"tick", "slow", "prune"} =>
    began = IF ended > index * Interval THEN ended ELSE index * Interval

\* The process never leaves of itself under a prune that is inside SQLite, whatever
\* the stop interrupted and whichever loop failed: only a kill does (joinPrunes).
NoExitInsideSqlite == process = "exited" => threads = {}
=============================================================================

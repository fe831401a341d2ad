---------------------------- MODULE PlexHistory -----------------------------
(***************************************************************************)
(* fleet-monitor's history pass over one Plex server: the server's ledger  *)
(* is paged from a cursor in the store, and each page commits its plays    *)
(* together with the cursor it advanced.                                   *)
(*                                                                         *)
(* The collector's loop runs one pass at a time, and a round started by    *)
(* hand is a second process on the same database. A page is answered and   *)
(* kept in one step: what the server adds in between it may as well add    *)
(* after. The server's ledger only grows.                                  *)
(***************************************************************************)
EXTENDS Integers, Sequences, FiniteSets, FiniteSetsExt

CONSTANTS Excluded,       \* plays in a library under an excluded folder
          Unparsed,       \* rows that are not plays the page counts
          HistoryRows,       \* HISTORY_PAGE
          Overlap,        \* OVERLAP_SECONDS, in ticks
          Lookback,       \* how far a first pass reads back
          Late,           \* how late a play may reach the server's ledger
          MaxPlays, MaxTime, MaxStops,
          NoCursor

ASSUME HistoryAssumption ==
  /\ HistoryRows \in Nat \ {0}
  /\ {Overlap, Lookback, Late, MaxPlays, MaxTime, MaxStops} \subseteq Nat
  /\ Late <= Overlap
  /\ NoCursor \notin Int

\* The collector's own passes, and those of a round run by hand.
Passes == {"loop", "hand"}
Times == 0..MaxTime

VARIABLES
  time,     \* the clock the server and the collector go by
  viewed,   \* the server's ledger: when each play was viewed, by history id
  plays,    \* plex_plays, by history id
  cursor,   \* history_cursor
  pass,     \* each pass under way
  stops,   \* passes that stopped before their end
  origin    \* history: where the first passes to commit began

plexVars == <<time, viewed>>
storeVars == <<plays, cursor, origin>>
historyVars == <<plexVars, storeVars, pass, stops>>

\* A pass: where it reads from, whether it found no cursor, and the offset of its
\* next page; and, for the properties, when it began and what the ledger held then.
NoPass == [stage |-> "idle"]
Reading(since, first) ==
  [stage |-> "reading", since |-> since, first |-> first, start |-> 0,
   from |-> time, held |-> Len(viewed)]

reading(p) == pass[p].stage = "reading"

HistoryTypeOK ==
  /\ time \in Times
  /\ viewed \in Seq(Times) /\ Len(viewed) <= MaxPlays
  /\ plays \subseteq (DOMAIN viewed) \ (Excluded \union Unparsed)
  /\ cursor \in Times \union {NoCursor}
  /\ DOMAIN pass = Passes
  /\ \A p \in Passes :
       \/ pass[p] = NoPass
       \/ pass[p] \in [stage : {"reading"}, since : -(Overlap + Lookback)..MaxTime,
                       first : BOOLEAN, start : 0..MaxPlays, from : Times,
                       held : 0..MaxPlays]
  /\ stops \in 0..MaxStops
  /\ origin \in Times

HistoryInit ==
  /\ time = 0
  /\ viewed = <<>>
  /\ plays = {}
  /\ cursor = NoCursor
  /\ pass = [p \in Passes |-> NoPass]
  /\ stops = 0
  /\ origin = 0

---------------------------------------------------------------------------
\* The server's answer: the plays viewed no earlier than `since`, oldest first.

before(i, j) == viewed[i] < viewed[j] \/ (viewed[i] = viewed[j] /\ i < j)
ledgerFrom(since) == {i \in DOMAIN viewed : viewed[i] >= since}
position(since, i) == Cardinality({j \in ledgerFrom(since) : before(j, i)})
historyPage(since, start) == {i \in ledgerFrom(since) : position(since, i) \in start..(start + HistoryRows - 1)}

\* Mutant: one play too early.
lastHistoryPageEarly(since, start, rows) ==
  rows = {} \/ start + Cardinality(rows) >= Cardinality(ledgerFrom(since)) - 1

\* pageAll's end: an empty page, or one that reaches the total.
lastHistoryPage(since, start, rows) ==
  rows = {} \/ start + Cardinality(rows) >= Cardinality(ledgerFrom(since))

---------------------------------------------------------------------------
\* The pass.

\* Mutant: a pass reads on from the cursor itself.
startingPointNoOverlap == IF cursor # NoCursor THEN cursor ELSE time - Lookback

startingPoint == IF cursor # NoCursor THEN cursor - Overlap ELSE time - Lookback

\* syncHistory up to its listing: the server has said who it is, and the cursor is
\* read. The round's stamp is older by that one request, which is less than a tick.
BeginPass(p) ==
  /\ pass[p] = NoPass
  /\ pass' = [pass EXCEPT ![p] = Reading(startingPoint, cursor = NoCursor)]
  /\ UNCHANGED <<plexVars, storeVars, stops>>

\* Mutant: the cursor is the clock's, not the newest play's.
keepPlaysByClock(p, rows) ==
  LET entries == rows \ Unparsed
  IN /\ plays' = plays \union (entries \ Excluded)
     /\ cursor' = IF entries = {} THEN cursor ELSE time
     /\ origin' = IF entries # {} /\ pass[p].first
                  THEN Max({origin, pass[p].since}) ELSE origin

\* One page's session: its plays and the newest viewedAt among its entries.
keepPlays(p, rows) ==
  LET entries == rows \ Unparsed
  IN /\ plays' = plays \union (entries \ Excluded)
     /\ cursor' = IF entries = {} THEN cursor ELSE Max({viewed[i] : i \in entries})
     /\ origin' = IF entries # {} /\ pass[p].first
                  THEN Max({origin, pass[p].since}) ELSE origin

\* pageHistory: a page lands, and the pass asks for the next or is done.
KeepPlays(p) ==
  /\ reading(p)
  /\ LET rows == historyPage(pass[p].since, pass[p].start)
         done == lastHistoryPage(pass[p].since, pass[p].start, rows)
     IN /\ keepPlays(p, rows)
        /\ pass' = [pass EXCEPT ![p] =
                      IF done THEN NoPass ELSE [pass[p] EXCEPT !.start = @ + Cardinality(rows)]]
  /\ UNCHANGED <<plexVars, stops>>

\* A pass is over before its end: a request that did not answer (`failed`), a
\* 200 without a page in it, which is taken for the end, an abort or a crash.
\* The pages that landed stay.
StopPass(p) ==
  /\ stops < MaxStops
  /\ stops' = stops + 1
  /\ pass[p] # NoPass
  /\ pass' = [pass EXCEPT ![p] = NoPass]
  /\ UNCHANGED <<plexVars, storeVars>>

---------------------------------------------------------------------------
\* The server and the clock.

\* A play is completed, or a device that was offline reports one.
View ==
  /\ Len(viewed) < MaxPlays
  /\ \E when \in Times : when \in (time - Late)..time /\ viewed' = Append(viewed, when)
  /\ UNCHANGED <<time, storeVars, pass, stops>>

\* A pass is over before a play reported in it could leave the overlap.
Tick ==
  /\ time < MaxTime
  /\ \A p \in Passes : reading(p) => time + 1 - pass[p].from <= Overlap - Late
  /\ time' = time + 1
  /\ UNCHANGED <<viewed, storeVars, pass, stops>>

PassStep(p) == BeginPass(p) \/ KeepPlays(p)

HistoryNext ==
  \/ \E p \in Passes : PassStep(p) \/ StopPass(p)
  \/ View
  \/ Tick

HistorySpec == HistoryInit /\ [][HistoryNext]_historyVars

\* The collector starts pass after pass, and each of its requests ends.
HistoryFairSpec == HistorySpec /\ WF_historyVars(PassStep("loop"))

---------------------------------------------------------------------------
\* Properties.

Counted == DOMAIN viewed \ (Excluded \union Unparsed)

\* A pass that reads to the end has every play that the ledger held when it read
\* the cursor, from where it started on, although pages shift as plays arrive.
SyncIsComplete ==
  [][\A p \in Passes :
       reading(p) /\ pass'[p] = NoPass /\ stops' = stops =>
         \A i \in Counted : i <= pass[p].held /\ viewed[i] >= pass[p].since => i \in plays']_historyVars

\* Wherever a pass stops, and whichever of two moved the cursor last: a play that is
\* not stored is one the next pass still asks for, or older than the first backfill
\* reached. The overlap of OVERLAP_SECONDS leaves nothing behind the cursor.
NothingLeftBehind ==
  \A i \in Counted :
    i \in plays \/ viewed[i] < origin \/ cursor = NoCursor \/ viewed[i] >= cursor - Overlap

\* An outage is a delay, not a hole: every play within the window comes to be
\* stored, once requests answer again.
EveryPlayArrives ==
  <>[]\A i \in Counted :
       \/ i \in plays
       \/ viewed[i] < origin
       \/ cursor = NoCursor /\ viewed[i] < time - Lookback
=============================================================================

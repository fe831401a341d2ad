----------------------------- MODULE Plex_proofs -----------------------------
(***************************************************************************)
(* Proofs about the passes over one Plex server that MCPlex checks side by *)
(* side: the history passes, the inventories, the pager and the exclusion  *)
(* rule, for any plays, libraries, listings, page sizes and faults.        *)
(***************************************************************************)
EXTENDS MCPlex, FiniteSetTheorems, WellFoundedInduction, TLAPS

---------------------------------------------------------------------------
\* Pages. A listing in a total order is paged by rank: a row's rank is how many
\* rows come before it.

\* Ranks are distinct, and count from zero to the number of rows less one.
LEMMA RanksAreDistinct ==
  ASSUME NEW S, IsFiniteSet(S), NEW below \in [S -> SUBSET S],
         \A i \in S : i \notin below[i],
         \A i, j \in S : i # j => i \in below[j] \/ j \in below[i],
         \A i, j \in S : i \in below[j] => below[i] \subseteq below[j]
  PROVE  /\ [i \in S |-> Cardinality(below[i])] \in Injection(S, 0..(Cardinality(S) - 1))
         /\ \A i, j \in S : i \in below[j] => Cardinality(below[i]) < Cardinality(below[j])
<1>. DEFINE f == [i \in S |-> Cardinality(below[i])]
<1>1. \A i \in S : /\ below[i] \in SUBSET S /\ IsFiniteSet(below[i]) /\ f[i] = Cardinality(below[i])
                   /\ f[i] \in Nat
  BY FS_Subset, FS_CardinalityType
<1>2. Cardinality(S) \in Nat
  BY FS_CardinalityType
<1>3. ASSUME NEW i \in S
      PROVE  f[i] \in 0..(Cardinality(S) - 1)
  <2>1. below[i] # S
    OBVIOUS
  <2>2. Cardinality(below[i]) <= Cardinality(S) /\ Cardinality(below[i]) # Cardinality(S)
    BY <1>1, <2>1, FS_Subset
  <2>3. QED
    BY <1>1, <1>2, <2>2
<1>4. ASSUME NEW i \in S, NEW j \in S, i \in below[j]
      PROVE  f[i] < f[j]
  <2>1. below[i] \in SUBSET below[j] /\ below[i] # below[j]
    BY <1>4
  <2>2. Cardinality(below[i]) <= Cardinality(below[j]) /\ Cardinality(below[i]) # Cardinality(below[j])
    BY <1>1, <2>1, FS_Subset
  <2>3. QED
    BY <1>1, <2>2
<1>5. ASSUME NEW i \in S, NEW j \in S, f[i] = f[j]
      PROVE  i = j
  <2>1. CASE i \in below[j]
    BY <1>1, <1>4, <1>5, <2>1
  <2>2. CASE j \in below[i]
    BY <1>1, <1>4, <1>5, <2>2
  <2>3. QED
    BY <2>1, <2>2
<1>6. f \in [S -> 0..(Cardinality(S) - 1)]
  BY <1>3
<1>7. \A i, j \in S : i \in below[j] => Cardinality(below[i]) < Cardinality(below[j])
  BY <1>4
<1>. HIDE DEF f
<1>8. f \in Injection(S, 0..(Cardinality(S) - 1))
  BY <1>5, <1>6 DEF Injection, IsInjective
<1>9. QED
  BY <1>7, <1>8 DEF f

\* A page of the rows of `size` ranks from `start` on: the last page, an empty one or
\* one that reaches the number of rows, leaves no row of a later rank; and a page that
\* is not the last leaves none below the next one's start.
LEMMA PagesLeaveNoGap ==
  ASSUME NEW S, IsFiniteSet(S), NEW f \in Injection(S, 0..(Cardinality(S) - 1)),
         NEW start \in Nat, NEW size \in Nat \ {0}, NEW rows \in SUBSET S,
         \A i \in S : i \in rows <=> f[i] \in start..(start + size - 1)
  PROVE  /\ IsFiniteSet(rows) /\ Cardinality(rows) \in 0..size
         /\ rows = {} \/ start + Cardinality(rows) >= Cardinality(S)
              => \A i \in S : f[i] < start \/ i \in rows
         /\ \A i \in S : f[i] < start + Cardinality(rows) => f[i] < start \/ i \in rows
         /\ \A i \in rows, j \in S : i # j /\ j \notin rows /\ f[j] >= start => f[i] < f[j]
<1>1. Cardinality(S) \in Nat /\ IsFiniteSet(rows) /\ Cardinality(rows) \in Nat
  BY FS_CardinalityType, FS_Subset
<1>2. /\ \A i \in S : f[i] \in 0..(Cardinality(S) - 1)
      /\ \A i, j \in S : f[i] = f[j] => i = j
  BY DEF Injection, IsInjective
<1>3. Cardinality(rows) <= size
  <2>. DEFINE T == start..(start + size - 1)
              g == [i \in rows |-> f[i]]
  <2>2. IsFiniteSet(T) /\ Cardinality(T) = size
    BY FS_Interval
  <2>3. \A i \in rows : f[i] \in T
    OBVIOUS
  <2>. HIDE DEF T
  <2>4. g \in Injection(rows, T)
    BY <1>2, <2>3 DEF Injection, IsInjective
  <2>. HIDE DEF g
  <2>5. Cardinality(rows) <= Cardinality(T)
    BY <2>2, <2>4, FS_Injection
  <2>6. QED
    BY <2>2, <2>5
<1>4. ASSUME NEW r \in 0..(Cardinality(S) - 1)
      PROVE  \E i \in S : f[i] = r
  <2>. DEFINE T == 0..(Cardinality(S) - 1)
  <2>1. IsFiniteSet(T) /\ Cardinality(T) = Cardinality(S)
    BY <1>1, FS_Interval
  <2>2. f \in Injection(S, T) /\ r \in T
    OBVIOUS
  <2>. HIDE DEF T
  <2>3. f \in Surjection(S, T)
    BY <2>1, <2>2, FS_Injection
  <2>4. QED
    BY <2>2, <2>3 DEF Surjection
<1>5. ASSUME rows = {} \/ start + Cardinality(rows) >= Cardinality(S), NEW i \in S, ~(f[i] < start)
      PROVE  i \in rows
  <2>1. CASE rows = {}
    <3>1. start \in 0..(Cardinality(S) - 1)
      BY <1>1, <1>2, <1>5
    <3>2. PICK j \in S : f[j] = start
      BY <1>4, <3>1
    <3>3. j \in rows
      BY <3>2
    <3>4. QED
      BY <2>1, <3>3
  <2>2. CASE start + Cardinality(rows) >= Cardinality(S)
    BY <1>1, <1>2, <1>3, <1>5, <2>2
  <2>3. QED
    BY <1>5, <2>1, <2>2
<1>6. \A i \in S : f[i] < start + Cardinality(rows) => f[i] < start \/ i \in rows
  BY <1>1, <1>2, <1>3
<1>7. \A i \in rows, j \in S : i # j /\ j \notin rows /\ f[j] >= start => f[i] < f[j]
  BY <1>2
<1>8. QED
  BY <1>1, <1>3, <1>5, <1>6, <1>7

\* The newest of some plays is one of them.
LEMMA NewestIsOne ==
  ASSUME NEW T \in SUBSET Int, NEW n \in Int, \A t \in T : t <= n, T # {}
  PROVE  Max(T) \in T /\ \A t \in T : t <= Max(T)
<1>. DEFINE D == {m \in Nat : n - m \in T}
<1>1. D # {}
  <2>1. PICK t \in T : TRUE
    OBVIOUS
  <2>2. n - t \in D
    BY <2>1
  <2>3. QED
    BY <2>2
<1>2. PICK m \in D : \A k \in D : ~(k < m)
  <2>. DEFINE R == OpToRel(<, Nat)
  <2>1. IsWellFoundedOn(R, Nat)
    BY NatLessThanWellFounded
  <2>. HIDE DEF R
  <2>2. \E m \in D : \A k \in D : ~(<<k, m>> \in R)
    BY <1>1, <2>1, WFMin
  <2>3. QED
    BY <2>2 DEF R, OpToRel
<1>3. n - m \in T /\ \A t \in T : t <= n - m
  <2>1. ASSUME NEW t \in T
        PROVE  t <= n - m
    <3>1. n - t \in D
      OBVIOUS
    <3>2. ~(n - t < m)
      BY <1>2, <3>1
    <3>3. QED
      BY <3>2
  <2>2. QED
    BY <2>1
<1>4. QED
  BY <1>3 DEF Max

---------------------------------------------------------------------------
\* The history.

\* What a ledger of viewing times answers from s on, and a play's place in it: the
\* model's ledgerFrom and position, of any ledger.
From(v, s) == {i \in DOMAIN v : v[i] >= s}
Earlier(v, s, i) == {j \in From(v, s) : v[j] < v[i] \/ (v[j] = v[i] /\ j < i)}
PlaceIn(v, s, i) == Cardinality(Earlier(v, s, i))

LEMMA PlacesAreRanks ==
  ASSUME NEW v \in Seq(Int), NEW s \in Int
  PROVE  LET S == From(v, s)
         IN /\ IsFiniteSet(S)
            /\ [i \in S |-> PlaceIn(v, s, i)] \in Injection(S, 0..(Cardinality(S) - 1))
            /\ \A i, j \in S : v[i] < v[j] => PlaceIn(v, s, i) < PlaceIn(v, s, j)
<1>. DEFINE S == From(v, s)
            below == [i \in S |-> Earlier(v, s, i)]
<1>1. IsFiniteSet(S)
  <2>1. DOMAIN v = 1..Len(v) /\ Len(v) \in Nat
    OBVIOUS
  <2>2. IsFiniteSet(DOMAIN v)
    BY <2>1, FS_Interval
  <2>3. QED
    BY <2>2, FS_Subset DEF From
<1>2. S \subseteq Int /\ \A i \in S : v[i] \in Int
  BY DEF From
<1>3. /\ below \in [S -> SUBSET S]
      /\ \A i \in S : i \notin below[i]
      /\ \A i, j \in S : i # j => i \in below[j] \/ j \in below[i]
      /\ \A i, j \in S : i \in below[j] => below[i] \subseteq below[j]
      /\ \A i, j \in S : v[i] < v[j] => i \in below[j]
  BY <1>2 DEF Earlier
<1>4. \A i \in S : Cardinality(below[i]) = PlaceIn(v, s, i)
  BY DEF PlaceIn
<1>5. [i \in S |-> PlaceIn(v, s, i)] = [i \in S |-> Cardinality(below[i])]
  BY <1>4
<1>. HIDE DEF below, S
<1>6. /\ [i \in S |-> Cardinality(below[i])] \in Injection(S, 0..(Cardinality(S) - 1))
      /\ \A i, j \in S : i \in below[j] => Cardinality(below[i]) < Cardinality(below[j])
  BY <1>1, <1>3, RanksAreDistinct
<1>7. QED
  BY <1>1, <1>3, <1>4, <1>5, <1>6 DEF S

\* A play that arrives moves no play to an earlier place.
LEMMA PlacesGrow ==
  ASSUME NEW v \in Seq(Int), NEW s \in Int, NEW w \in Int, NEW i \in DOMAIN v
  PROVE  /\ PlaceIn(v, s, i) \in Nat /\ PlaceIn(Append(v, w), s, i) \in Nat
         /\ PlaceIn(v, s, i) <= PlaceIn(Append(v, w), s, i)
<1>1. Append(v, w) \in Seq(Int) /\ \A j \in DOMAIN v : j \in DOMAIN Append(v, w) /\ Append(v, w)[j] = v[j]
  OBVIOUS
<1>2. Earlier(v, s, i) \subseteq Earlier(Append(v, w), s, i)
  BY <1>1 DEF Earlier, From
<1>3. IsFiniteSet(Earlier(Append(v, w), s, i))
  <2>1. IsFiniteSet(From(Append(v, w), s))
    BY <1>1, PlacesAreRanks
  <2>2. QED
    BY <2>1, FS_Subset DEF Earlier
<1>4. QED
  BY <1>2, <1>3, FS_Subset, FS_CardinalityType DEF PlaceIn

\* The states of the history part, and what is worth knowing of a pass's page.
ReadingPass ==
  [stage : {"reading"}, since : -(Overlap + Lookback)..MaxTime, first : BOOLEAN,
   start : 0..MaxPlays, from : Times, held : 0..MaxPlays]
HistoryTyped ==
  /\ time \in Times
  /\ viewed \in Seq(Times) /\ Len(viewed) <= MaxPlays
  /\ \A i \in DOMAIN viewed : viewed[i] <= time
  /\ plays \subseteq Counted
  /\ cursor \in Times \union {NoCursor} /\ (cursor # NoCursor => cursor <= time)
  /\ pass \in [Passes -> {NoPass} \union ReadingPass]
  /\ stops \in 0..MaxStops
  /\ origin \in Times

\* A pass under way has lasted no longer than the overlap allows for.
InTime(p) == pass[p].from <= time /\ time - pass[p].from <= Overlap - Late

\* What it has paged past is stored, of the plays that were there when it began.
KeptSoFar(p) ==
  \A i \in Counted :
    i <= pass[p].held /\ viewed[i] >= pass[p].since
      /\ PlaceIn(viewed, pass[p].since, i) < pass[p].start => i \in plays

\* What it does not ask for is stored, or is behind the first backfill, which it may be.
NoneBefore(p) ==
  \A i \in Counted :
    i <= pass[p].held /\ viewed[i] < pass[p].since =>
      pass[p].first \/ i \in plays \/ viewed[i] < origin

\* What came in since may be missed, but was viewed lately.
NewOnesAreRecent(p) ==
  \A i \in Counted : i > pass[p].held => viewed[i] >= pass[p].from - Late

\* It counts no play as there that was not.
HeldIsThere(p) == pass[p].held <= Len(viewed)

\* The inductive invariant. A pass moves the cursor over plays it never saw, so that
\* nothing is left behind takes all these facts about each pass under way.
PassInv(p) ==
  reading(p) =>
    InTime(p) /\ KeptSoFar(p) /\ NoneBefore(p) /\ NewOnesAreRecent(p) /\ HeldIsThere(p)
HistoryInv == HistoryTyped /\ (\A p \in Passes : PassInv(p)) /\ NothingLeftBehind

LEMMA HistoryTypes ==
  ASSUME HistoryTyped
  PROVE  HistoryTypeOK
<1>1. \A p \in Passes : pass[p] = NoPass \/ pass[p] \in ReadingPass
  BY DEF HistoryTyped
<1>2. DOMAIN pass = Passes
  BY DEF HistoryTyped
<1>3. plays \subseteq (DOMAIN viewed) \ (Excluded \union Unparsed)
  BY DEF HistoryTyped, Counted
<1>4. QED
  BY <1>1, <1>2, <1>3 DEF HistoryTyped, HistoryTypeOK, ReadingPass

\* A pass that reads has the fields it needs.
LEMMA ReadingTyped ==
  ASSUME HistoryTyped, NEW p \in Passes, reading(p)
  PROVE  /\ pass[p] \in ReadingPass
         /\ pass[p].since \in Int /\ pass[p].since <= MaxTime /\ pass[p].first \in BOOLEAN
         /\ pass[p].start \in Nat /\ pass[p].from \in Nat /\ pass[p].held \in Nat
<1>1. pass[p] \in {NoPass} \union ReadingPass
  BY DEF HistoryTyped
<1>2. pass[p] \in ReadingPass
  BY <1>1 DEF reading, NoPass
<1>3. QED
  BY <1>2, HistoryAssumption DEF ReadingPass, Times

\* The model's places are those of its ledger.
LEMMA PlacesOfTheLedger ==
  /\ \A s : ledgerFrom(s) = From(viewed, s)
  /\ \A s, i : position(s, i) = PlaceIn(viewed, s, i)
BY DEF ledgerFrom, position, before, From, Earlier, PlaceIn

\* A ledger of times is one of integers.
LEMMA LedgerOfIntegers ==
  ASSUME HistoryTyped
  PROVE  viewed \in Seq(Int) /\ Len(viewed) \in Nat /\ DOMAIN viewed = 1..Len(viewed)
<1>1. viewed \in Seq(Int)
  BY HistoryAssumption DEF HistoryTyped, Times
<1>2. QED
  BY <1>1

\* A pass that the step leaves alone, over a ledger and a clock it leaves alone and a
\* store it only adds to, is as good as it was.
LEMMA OthersKeep ==
  ASSUME HistoryTyped, NEW q \in Passes, PassInv(q), pass'[q] = pass[q],
         UNCHANGED <<time, viewed>>, plays \subseteq plays', origin \in Int, origin' \in Int, origin <= origin'
  PROVE  PassInv(q)'
<1>1. reading(q)' => reading(q)
  BY DEF reading
<1>2. CASE reading(q)
  <2>1. pass[q].since \in Int /\ \A i \in DOMAIN viewed : viewed[i] \in Int
    BY <1>2, ReadingTyped, LedgerOfIntegers
  <2>2. InTime(q)'
    BY <1>2 DEF PassInv, InTime
  <2>3. KeptSoFar(q)'
    BY <1>2 DEF PassInv, KeptSoFar, Counted, PlaceIn, Earlier, From
  <2>4. NoneBefore(q)'
    BY <1>2, <2>1 DEF PassInv, NoneBefore, Counted
  <2>5. NewOnesAreRecent(q)'
    BY <1>2 DEF PassInv, NewOnesAreRecent, Counted
  <2>6. HeldIsThere(q)'
    BY <1>2 DEF PassInv, HeldIsThere
  <2>7. QED
    BY <2>2, <2>3, <2>4, <2>5, <2>6 DEF PassInv
<1>3. QED
  BY <1>1, <1>2 DEF PassInv

\* What a pass that begins does not ask for, the passes before it have stored.
LEMMA BeginKeeps ==
  ASSUME HistoryInv, NEW p \in Passes, BeginPass(p)
  PROVE  HistoryInv'
<1>. DEFINE r == Reading(startingPoint, cursor = NoCursor)
<1>1. /\ pass' = [pass EXCEPT ![p] = r]
      /\ UNCHANGED <<time, viewed, plays, cursor, origin, stops>>
  BY DEF BeginPass, plexVars, storeVars
<1>2. /\ r.stage = "reading" /\ r.since = startingPoint /\ r.first = (cursor = NoCursor)
      /\ r.start = 0 /\ r.from = time /\ r.held = Len(viewed)
  BY DEF Reading
<1>3. HistoryTyped /\ time \in Times /\ cursor \in Times \union {NoCursor} /\ viewed \in Seq(Int)
      /\ Len(viewed) \in 0..MaxPlays /\ origin \in Int
  <2>1. Len(viewed) \in Nat /\ viewed \in Seq(Int)
    BY LedgerOfIntegers DEF HistoryInv
  <2>2. QED
    BY <2>1, HistoryAssumption DEF HistoryInv, HistoryTyped, Times
<1>4. startingPoint \in -(Overlap + Lookback)..MaxTime
  BY <1>3, HistoryAssumption DEF startingPoint, Times
<1>5. r \in ReadingPass
  BY <1>3, <1>4, HistoryAssumption DEF Reading, ReadingPass, Times
<1>6. HistoryTyped'
  <2>1. pass' \in [Passes -> {NoPass} \union ReadingPass]
    BY <1>1, <1>3, <1>5 DEF HistoryTyped
  <2>2. Counted' = Counted
    BY <1>1 DEF Counted
  <2>3. QED
    BY <1>1, <1>3, <2>1, <2>2 DEF HistoryTyped
<1>7. pass'[p] = r
  BY <1>1, <1>3 DEF HistoryTyped
<1>. HIDE DEF r
<1>8. PassInv(p)'
  <2>1. InTime(p)'
    BY <1>1, <1>2, <1>3, <1>7, HistoryAssumption DEF InTime, Times
  <2>2. KeptSoFar(p)'
    <3>1. ASSUME NEW i \in Counted'
          PROVE  ~(PlaceIn(viewed', r.since, i) < 0)
      <4>1. i \in DOMAIN viewed /\ r.since \in Int /\ 0 \in Int
        BY <1>1, <1>2, <1>4 DEF Counted
      <4>2. PlaceIn(viewed, r.since, i) \in Nat
        BY <1>3, <4>1, PlacesGrow
      <4>3. QED
        BY <1>1, <4>2
    <3>2. QED
      BY <1>2, <1>7, <3>1 DEF KeptSoFar
  <2>3. NoneBefore(p)'
    <3>1. ASSUME NEW i \in Counted, viewed[i] < startingPoint
          PROVE  cursor = NoCursor \/ i \in plays \/ viewed[i] < origin
      <4>1. viewed[i] \in Int
        BY <1>3 DEF Counted
      <4>2. QED
        BY <1>3, <3>1, <4>1, HistoryAssumption DEF HistoryInv, NothingLeftBehind, startingPoint, Times
    <3>2. QED
      BY <1>1, <1>2, <1>7, <3>1 DEF NoneBefore, Counted
  <2>4. NewOnesAreRecent(p)'
    BY <1>1, <1>2, <1>3, <1>7 DEF NewOnesAreRecent, Counted
  <2>5. HeldIsThere(p)'
    BY <1>1, <1>2, <1>3, <1>7 DEF HeldIsThere
  <2>6. QED
    BY <2>1, <2>2, <2>3, <2>4, <2>5 DEF PassInv
<1>9. ASSUME NEW q \in Passes, q # p
      PROVE  PassInv(q)'
  <2>1. pass'[q] = pass[q]
    BY <1>1, <1>3, <1>9 DEF HistoryTyped
  <2>2. QED
    BY <1>1, <1>3, <2>1, OthersKeep DEF HistoryInv
<1>10. NothingLeftBehind'
  BY <1>1 DEF HistoryInv, NothingLeftBehind, Counted
<1>11. QED
  BY <1>6, <1>8, <1>9, <1>10 DEF HistoryInv

LEMMA StopKeeps ==
  ASSUME HistoryInv, NEW p \in Passes, StopPass(p)
  PROVE  HistoryInv'
<1>1. /\ pass' = [pass EXCEPT ![p] = NoPass]
      /\ UNCHANGED <<time, viewed, plays, cursor, origin>>
      /\ stops < MaxStops /\ stops' = stops + 1
  BY DEF StopPass, plexVars, storeVars
<1>2. HistoryTyped /\ origin \in Int
  BY HistoryAssumption DEF HistoryInv, HistoryTyped, Times
<1>3. HistoryTyped'
  <2>1. pass' \in [Passes -> {NoPass} \union ReadingPass]
    BY <1>1, <1>2 DEF HistoryTyped
  <2>2. Counted' = Counted
    BY <1>1 DEF Counted
  <2>3. stops' \in 0..MaxStops
    BY <1>1, <1>2, HistoryAssumption DEF HistoryTyped
  <2>4. QED
    BY <1>1, <1>2, <2>1, <2>2, <2>3 DEF HistoryTyped
<1>4. ASSUME NEW q \in Passes
      PROVE  PassInv(q)'
  <2>1. CASE q = p
    <3>1. pass'[p] = NoPass
      BY <1>1, <1>2 DEF HistoryTyped
    <3>2. QED
      BY <2>1, <3>1 DEF PassInv, reading, NoPass
  <2>2. CASE q # p
    <3>1. pass'[q] = pass[q]
      BY <1>1, <1>2, <2>2 DEF HistoryTyped
    <3>2. QED
      BY <1>1, <1>2, <3>1, OthersKeep DEF HistoryInv
  <2>3. QED
    BY <2>1, <2>2
<1>5. NothingLeftBehind'
  BY <1>1 DEF HistoryInv, NothingLeftBehind, Counted
<1>6. QED
  BY <1>3, <1>4, <1>5 DEF HistoryInv

LEMMA TickKeeps ==
  ASSUME HistoryInv, Tick
  PROVE  HistoryInv'
<1>1. /\ time < MaxTime /\ time' = time + 1
      /\ \A p \in Passes : reading(p) => time + 1 - pass[p].from <= Overlap - Late
      /\ UNCHANGED <<viewed, plays, cursor, origin, pass, stops>>
  BY DEF Tick, storeVars
<1>2. HistoryTyped /\ time \in Nat /\ MaxTime \in Nat /\ viewed \in Seq(Int)
  BY LedgerOfIntegers, HistoryAssumption DEF HistoryInv, HistoryTyped, Times
<1>3. HistoryTyped'
  <2>1. time' \in Times
    BY <1>1, <1>2 DEF Times
  <2>2. \A i \in DOMAIN viewed : viewed[i] <= time'
    BY <1>1, <1>2 DEF HistoryTyped
  <2>3. cursor # NoCursor => cursor <= time'
    BY <1>1, <1>2 DEF HistoryTyped, Times
  <2>4. Counted' = Counted
    BY <1>1 DEF Counted
  <2>5. QED
    BY <1>1, <1>2, <2>1, <2>2, <2>3, <2>4 DEF HistoryTyped
<1>4. ASSUME NEW q \in Passes
      PROVE  PassInv(q)'
  <2>1. CASE reading(q)
    <3>1. PassInv(q) /\ pass[q].from \in Nat /\ pass[q].from <= time
      BY <1>2, <2>1, ReadingTyped DEF HistoryInv, PassInv, InTime
    <3>2. InTime(q)'
      BY <1>1, <1>2, <2>1, <3>1 DEF InTime
    <3>3. KeptSoFar(q)' /\ NoneBefore(q)' /\ NewOnesAreRecent(q)' /\ HeldIsThere(q)'
      BY <1>1, <2>1, <3>1
      DEF PassInv, KeptSoFar, NoneBefore, NewOnesAreRecent, HeldIsThere, Counted, PlaceIn, Earlier, From
    <3>4. QED
      BY <3>2, <3>3 DEF PassInv
  <2>2. CASE ~reading(q)
    BY <1>1, <2>2 DEF PassInv, reading
  <2>3. QED
    BY <2>1, <2>2
<1>5. NothingLeftBehind'
  BY <1>1 DEF HistoryInv, NothingLeftBehind, Counted
<1>6. QED
  BY <1>3, <1>4, <1>5 DEF HistoryInv

\* A play that comes in shifts what has been paged past to the back, never to the front.
LEMMA ViewKeeps ==
  ASSUME HistoryInv, View
  PROVE  HistoryInv'
<1>1. PICK when \in Times : when \in (time - Late)..time /\ viewed' = Append(viewed, when)
  BY DEF View
<1>2. Len(viewed) < MaxPlays /\ UNCHANGED <<time, plays, cursor, origin, pass, stops>>
  BY DEF View, storeVars
<1>3. /\ HistoryTyped /\ time \in Nat /\ MaxTime \in Nat /\ viewed \in Seq(Int) /\ when \in Int
      /\ Len(viewed) \in Nat /\ Late \in Nat /\ Overlap \in Nat /\ Late <= Overlap /\ MaxPlays \in Nat
  BY LedgerOfIntegers, HistoryAssumption DEF HistoryInv, HistoryTyped, Times
<1>4. /\ viewed' \in Seq(Times) /\ Len(viewed') = Len(viewed) + 1
      /\ DOMAIN viewed' = DOMAIN viewed \union {Len(viewed) + 1}
      /\ \A i \in DOMAIN viewed : viewed'[i] = viewed[i]
      /\ viewed'[Len(viewed) + 1] = when
      /\ \A i \in DOMAIN viewed : i <= Len(viewed)
  <2>1. viewed \in Seq(Times)
    BY <1>3 DEF HistoryTyped
  <2>. HIDE DEF Times
  <2>2. QED
    BY <1>1, <2>1
<1>5. Counted \subseteq Counted' /\ Counted' \subseteq Counted \union {Len(viewed) + 1}
  BY <1>4 DEF Counted
<1>6. HistoryTyped'
  <2>1. \A i \in DOMAIN viewed' : viewed'[i] <= time'
    BY <1>1, <1>2, <1>3, <1>4 DEF HistoryTyped
  <2>2. Len(viewed') <= MaxPlays
    BY <1>2, <1>3, <1>4
  <2>3. QED
    BY <1>2, <1>3, <1>4, <1>5, <2>1, <2>2 DEF HistoryTyped
<1>7. ASSUME NEW q \in Passes
      PROVE  PassInv(q)'
  <2>1. CASE reading(q)
    <3>1. PassInv(q) /\ pass[q] \in ReadingPass /\ pass[q].from \in Nat /\ pass[q].since \in Int
          /\ pass[q].start \in Nat /\ pass[q].held \in 0..MaxPlays
      BY <1>3, <2>1, ReadingTyped DEF HistoryInv, ReadingPass
    <3>2. InTime(q)'
      BY <1>2, <2>1, <3>1 DEF PassInv, InTime
    <3>3. when >= pass[q].from - Late
      <4>1. pass[q].from <= time
        BY <2>1, <3>1 DEF PassInv, InTime
      <4>2. when >= time - Late
        BY <1>1, <1>3
      <4>3. QED
        BY <1>3, <3>1, <4>1, <4>2
    <3>4. ASSUME NEW i \in Counted', i <= pass[q].held
          PROVE  i \in Counted /\ viewed'[i] = viewed[i] /\ viewed[i] \in Int
                 /\ (PlaceIn(viewed', pass[q].since, i) < pass[q].start
                       => PlaceIn(viewed, pass[q].since, i) < pass[q].start)
      <4>1. i \in Counted
        <5>1. CASE i = Len(viewed) + 1
          <6>1. pass[q].held <= Len(viewed)
            BY <3>1, <2>1 DEF PassInv, HeldIsThere
          <6>2. QED
            BY <1>3, <3>1, <3>4, <5>1, <6>1
        <5>2. QED
          BY <1>5, <5>1
      <4>2. i \in DOMAIN viewed
        BY <4>1 DEF Counted
      <4>3. /\ PlaceIn(viewed, pass[q].since, i) \in Nat /\ PlaceIn(viewed', pass[q].since, i) \in Nat
            /\ PlaceIn(viewed, pass[q].since, i) <= PlaceIn(viewed', pass[q].since, i)
        BY <1>1, <1>3, <3>1, <4>2, PlacesGrow
      <4>4. QED
        BY <1>3, <1>4, <3>1, <4>1, <4>2, <4>3
    <3>5. KeptSoFar(q)'
      BY <1>2, <2>1, <3>1, <3>4 DEF PassInv, KeptSoFar
    <3>6. NoneBefore(q)'
      BY <1>2, <2>1, <3>1, <3>4 DEF PassInv, NoneBefore
    <3>7. NewOnesAreRecent(q)'
      <4>1. ASSUME NEW i \in Counted', i > pass[q].held
            PROVE  viewed'[i] >= pass[q].from - Late
        <5>1. CASE i \in Counted
          BY <1>4, <2>1, <3>1, <4>1, <5>1 DEF PassInv, NewOnesAreRecent, Counted
        <5>2. QED
          BY <1>4, <1>5, <3>3, <5>1
      <4>2. QED
        BY <1>2, <4>1 DEF NewOnesAreRecent
    <3>8. HeldIsThere(q)'
      BY <1>2, <1>3, <1>4, <2>1, <3>1 DEF PassInv, HeldIsThere
    <3>9. QED
      BY <3>2, <3>5, <3>6, <3>7, <3>8 DEF PassInv
  <2>2. CASE ~reading(q)
    BY <1>2, <2>2 DEF PassInv, reading
  <2>3. QED
    BY <2>1, <2>2
<1>8. NothingLeftBehind'
  <2>1. ASSUME NEW i \in Counted', cursor # NoCursor
        PROVE  i \in plays \/ viewed'[i] < origin \/ viewed'[i] >= cursor - Overlap
    <3>1. CASE i \in Counted
      BY <1>4, <2>1, <3>1 DEF HistoryInv, NothingLeftBehind, Counted
    <3>2. CASE i = Len(viewed) + 1
      <4>1. cursor \in Int /\ cursor <= time
        BY <1>3, <2>1 DEF HistoryTyped, Times
      <4>2. QED
        BY <1>1, <1>3, <1>4, <3>2, <4>1
    <3>3. QED
      BY <1>5, <3>1, <3>2
  <2>2. QED
    BY <1>2, <2>1 DEF NothingLeftBehind
<1>9. QED
  BY <1>6, <1>7, <1>8 DEF HistoryInv

\* A page of a pass, by the places its rows have: the last one leaves nothing behind it,
\* no page leaves a gap before the next, and none is newer than what it leaves.
LEMMA PageOfPlays ==
  ASSUME HistoryTyped, NEW p \in Passes, reading(p)
  PROVE  LET since == pass[p].since
             start == pass[p].start
             rows == historyPage(since, start)
         IN /\ rows \subseteq DOMAIN viewed /\ Cardinality(rows) \in Nat
            /\ lastHistoryPage(since, start, rows) =>
                 \A i \in DOMAIN viewed :
                   viewed[i] >= since => PlaceIn(viewed, since, i) < start \/ i \in rows
            /\ \A i \in DOMAIN viewed :
                 viewed[i] >= since /\ PlaceIn(viewed, since, i) < start + Cardinality(rows) =>
                   PlaceIn(viewed, since, i) < start \/ i \in rows
            /\ \A e \in rows, i \in DOMAIN viewed :
                 viewed[i] >= since /\ i \notin rows /\ ~(PlaceIn(viewed, since, i) < start) =>
                   viewed[e] <= viewed[i]
            /\ ~lastHistoryPage(since, start, rows) => start + Cardinality(rows) <= MaxPlays
<1>. DEFINE since == pass[p].since
            start == pass[p].start
            rows == historyPage(since, start)
            S == From(viewed, since)
            f == [i \in S |-> PlaceIn(viewed, since, i)]
<1>1. since \in Int /\ start \in Nat /\ HistoryRows \in Nat \ {0} /\ viewed \in Seq(Int) /\ MaxPlays \in Nat
  BY ReadingTyped, LedgerOfIntegers, HistoryAssumption
<1>2. /\ IsFiniteSet(S) /\ f \in Injection(S, 0..(Cardinality(S) - 1))
      /\ \A i, j \in S : viewed[i] < viewed[j] => PlaceIn(viewed, since, i) < PlaceIn(viewed, since, j)
  <2>. HIDE DEF since
  <2>1. QED
    BY <1>1, PlacesAreRanks
<1>3. /\ rows = {i \in S : PlaceIn(viewed, since, i) \in start..(start + HistoryRows - 1)}
      /\ lastHistoryPage(since, start, rows) <=> (rows = {} \/ start + Cardinality(rows) >= Cardinality(S))
  BY PlacesOfTheLedger DEF historyPage, lastHistoryPage
<1>4. /\ \A i \in S : f[i] = PlaceIn(viewed, since, i)
      /\ S \subseteq DOMAIN viewed /\ \A i \in DOMAIN viewed : i \in S <=> viewed[i] >= since
  BY DEF From
<1>5. \A i \in S : f[i] \in Nat
  BY <1>2 DEF Injection
<1>6. Cardinality(S) \in Nat /\ Cardinality(S) <= MaxPlays
  <2>0. Len(viewed) <= MaxPlays
    BY DEF HistoryTyped
  <2>1. DOMAIN viewed = 1..Len(viewed) /\ Len(viewed) \in Nat
    BY LedgerOfIntegers
  <2>2. \A n \in Nat : IsFiniteSet(1..n) /\ Cardinality(1..n) = n
    BY FS_Interval
  <2>3. Cardinality(S) <= Len(viewed)
    BY <1>4, <2>1, <2>2, FS_Subset
  <2>4. QED
    BY <1>1, <1>2, <2>0, <2>1, <2>3, FS_CardinalityType
<1>. HIDE DEF since, start, rows, S, f
<1>7. /\ rows \in SUBSET S
      /\ \A i \in S : i \in rows <=> f[i] \in start..(start + HistoryRows - 1)
  BY <1>3, <1>4
<1>8. /\ IsFiniteSet(rows) /\ Cardinality(rows) \in 0..HistoryRows
      /\ rows = {} \/ start + Cardinality(rows) >= Cardinality(S)
           => \A i \in S : f[i] < start \/ i \in rows
      /\ \A i \in S : f[i] < start + Cardinality(rows) => f[i] < start \/ i \in rows
      /\ \A i \in rows, j \in S : i # j /\ j \notin rows /\ f[j] >= start => f[i] < f[j]
  BY <1>1, <1>2, <1>7, PagesLeaveNoGap
<1>9. \A e \in rows, i \in DOMAIN viewed :
        viewed[i] >= since /\ i \notin rows /\ ~(PlaceIn(viewed, since, i) < start) =>
          viewed[e] <= viewed[i]
  <2>1. SUFFICES ASSUME NEW e \in rows, NEW i \in S, i \notin rows, ~(f[i] < start)
                 PROVE  viewed[e] <= viewed[i]
    BY <1>4
  <2>2. f[e] < f[i] /\ f[e] \in Nat /\ f[i] \in Nat /\ e \in S
    BY <1>1, <1>5, <1>7, <1>8, <2>1
  <2>3. ~(viewed[i] < viewed[e])
    BY <1>2, <1>4, <2>2
  <2>4. viewed[i] \in Int /\ viewed[e] \in Int
    BY <1>1, <1>4, <2>2
  <2>5. QED
    BY <2>3, <2>4
<1>10. ~lastHistoryPage(since, start, rows) => start + Cardinality(rows) <= MaxPlays
  BY <1>1, <1>3, <1>6, <1>8
<1>11. /\ lastHistoryPage(since, start, rows) =>
            \A i \in DOMAIN viewed :
              viewed[i] >= since => PlaceIn(viewed, since, i) < start \/ i \in rows
       /\ \A i \in DOMAIN viewed :
            viewed[i] >= since /\ PlaceIn(viewed, since, i) < start + Cardinality(rows) =>
              PlaceIn(viewed, since, i) < start \/ i \in rows
  BY <1>3, <1>4, <1>8
<1>12. rows \subseteq DOMAIN viewed /\ Cardinality(rows) \in Nat
  BY <1>1, <1>4, <1>7, <1>8
<1>13. QED
  BY <1>9, <1>10, <1>11, <1>12 DEF since, start, rows

\* What a page commits: its plays, a cursor that is the newest of them, and where the
\* ledger begins.
LEMMA PageCommits ==
  ASSUME HistoryTyped, NEW p \in Passes, KeepPlays(p)
  PROVE  LET rows == historyPage(pass[p].since, pass[p].start)
             entries == rows \ Unparsed
         IN /\ plays' = plays \union (entries \ Excluded)
            /\ entries = {} => cursor' = cursor /\ origin' = origin
            /\ entries # {} => /\ cursor' \in Times /\ cursor' <= time
                               /\ \E e \in entries : cursor' = viewed[e]
                               /\ \A e \in entries : viewed[e] <= cursor'
                               /\ pass[p].first => origin' >= pass[p].since
            /\ origin' \in Times /\ origin' >= origin
<1>. DEFINE since == pass[p].since
            rows == historyPage(since, pass[p].start)
            entries == rows \ Unparsed
            T == {viewed[i] : i \in entries}
<1>1. /\ plays' = plays \union (entries \ Excluded)
      /\ cursor' = IF entries = {} THEN cursor ELSE Max(T)
      /\ origin' = IF entries # {} /\ pass[p].first THEN Max({origin, since}) ELSE origin
  BY DEF KeepPlays, keepPlays
<1>2. rows \subseteq DOMAIN viewed
  BY PageOfPlays DEF KeepPlays
<1>3. \A i \in entries : viewed[i] \in Times /\ viewed[i] <= time
  BY <1>2 DEF HistoryTyped
<1>4. MaxTime \in Nat /\ time \in Int /\ origin \in Times /\ since \in Int /\ since <= MaxTime
  BY HistoryAssumption, ReadingTyped DEF HistoryTyped, Times, KeepPlays
<1>5. ASSUME entries # {}
      PROVE  Max(T) \in T /\ \A t \in T : t <= Max(T)
  <2>1. T \in SUBSET Int /\ T # {} /\ \A t \in T : t <= time
    BY <1>3, <1>4, <1>5 DEF Times
  <2>. HIDE DEF T
  <2>2. QED
    BY <1>4, <2>1, NewestIsOne
<1>6. Max({origin, since}) \in {origin, since} /\ Max({origin, since}) >= origin /\ Max({origin, since}) >= since
  <2>1. origin \in Int /\ {origin, since} \in SUBSET Int /\ \A t \in {origin, since} : t <= MaxTime
    BY <1>4 DEF Times
  <2>2. /\ Max({origin, since}) \in {origin, since}
        /\ \A t \in {origin, since} : t <= Max({origin, since})
    BY <1>4, <2>1, NewestIsOne
  <2>. HIDE DEF since
  <2>3. QED
    BY <1>4, <2>1, <2>2
<1>7. origin' \in Times /\ origin' >= origin
  BY <1>1, <1>4, <1>6 DEF Times
<1>. HIDE DEF entries
<1>8. QED
  BY <1>1, <1>3, <1>5, <1>6, <1>7 DEF entries

\* What a page leaves is newer than the cursor it moves, within the overlap.
LEMMA KeepKeeps ==
  ASSUME HistoryInv, NEW p \in Passes, KeepPlays(p)
  PROVE  HistoryInv'
<1>. DEFINE since == pass[p].since
            start == pass[p].start
            rows == historyPage(since, start)
            entries == rows \ Unparsed
            done == lastHistoryPage(since, start, rows)
            next == [pass[p] EXCEPT !.start = start + Cardinality(rows)]
<1>1. /\ reading(p)
      /\ pass' = [pass EXCEPT ![p] = IF done THEN NoPass ELSE next]
      /\ UNCHANGED <<time, viewed, stops>>
  <2>1. pass' = [pass EXCEPT ![p] = IF done THEN NoPass ELSE next]
    BY Zenon DEF KeepPlays
  <2>2. QED
    BY <2>1 DEF KeepPlays, plexVars
<1>2. HistoryTyped /\ PassInv(p) /\ NothingLeftBehind
  BY DEF HistoryInv
<1>3. /\ rows \subseteq DOMAIN viewed /\ Cardinality(rows) \in Nat
      /\ done => \A i \in DOMAIN viewed :
                   viewed[i] >= since => PlaceIn(viewed, since, i) < start \/ i \in rows
      /\ \A i \in DOMAIN viewed :
           viewed[i] >= since /\ PlaceIn(viewed, since, i) < start + Cardinality(rows) =>
             PlaceIn(viewed, since, i) < start \/ i \in rows
      /\ \A e \in rows, i \in DOMAIN viewed :
           viewed[i] >= since /\ i \notin rows /\ ~(PlaceIn(viewed, since, i) < start) =>
             viewed[e] <= viewed[i]
      /\ ~done => start + Cardinality(rows) <= MaxPlays
  BY <1>1, <1>2, PageOfPlays
<1>4. /\ plays' = plays \union (entries \ Excluded)
      /\ entries = {} => cursor' = cursor /\ origin' = origin
      /\ entries # {} => /\ cursor' \in Times /\ cursor' <= time
                         /\ \E e \in entries : cursor' = viewed[e]
                         /\ \A e \in entries : viewed[e] <= cursor'
                         /\ pass[p].first => origin' >= since
      /\ origin' \in Times /\ origin' >= origin
  BY <1>2, PageCommits
<1>5. /\ pass[p] \in ReadingPass /\ since \in Int /\ start \in Nat /\ pass[p].from \in Nat
      /\ pass[p].held \in Nat /\ pass[p].first \in BOOLEAN
      /\ InTime(p) /\ KeptSoFar(p) /\ NoneBefore(p) /\ NewOnesAreRecent(p) /\ HeldIsThere(p)
  BY <1>1, <1>2, ReadingTyped DEF PassInv
<1>6. /\ MaxTime \in Nat /\ time \in Nat /\ origin \in Int /\ origin' \in Int /\ Overlap \in Nat /\ Late \in Nat
      /\ \A i \in DOMAIN viewed : viewed[i] \in Int
  BY <1>2, <1>4, HistoryAssumption DEF HistoryTyped, Times
<1>7. Counted' = Counted /\ \A i \in Counted : i \in DOMAIN viewed /\ (i \in rows => i \in plays')
  BY <1>1, <1>4 DEF Counted
<1>. HIDE DEF since, start, rows, entries, done, next
<1>8. next \in ReadingPass \/ done
  BY <1>3, <1>5, HistoryAssumption DEF next, start, ReadingPass
<1>9. HistoryTyped'
  <2>1. pass' \in [Passes -> {NoPass} \union ReadingPass]
    BY <1>1, <1>2, <1>8 DEF HistoryTyped
  <2>2. plays' \subseteq Counted'
    BY <1>2, <1>3, <1>4, <1>7 DEF HistoryTyped, Counted, entries
  <2>3. cursor' \in Times \union {NoCursor} /\ (cursor' # NoCursor => cursor' <= time')
    BY <1>1, <1>2, <1>4 DEF HistoryTyped
  <2>4. QED
    BY <1>1, <1>2, <1>4, <2>1, <2>2, <2>3 DEF HistoryTyped
<1>10. PassInv(p)'
  <2>1. CASE done
    <3>1. pass'[p] = NoPass
      BY <1>1, <1>2, <2>1 DEF HistoryTyped
    <3>2. QED
      BY <3>1 DEF PassInv, reading, NoPass
  <2>2. CASE ~done
    <3>1. pass'[p] = next
      BY <1>1, <1>2, <2>2 DEF HistoryTyped
    <3>2. /\ next.since = since /\ next.first = pass[p].first /\ next.from = pass[p].from
          /\ next.held = pass[p].held /\ next.start = start + Cardinality(rows)
      BY <1>5 DEF next, since, ReadingPass
    <3>3. InTime(p)'
      BY <1>1, <1>5, <3>1, <3>2 DEF InTime
    <3>4. KeptSoFar(p)'
      BY <1>1, <1>3, <1>4, <1>5, <1>7, <3>1, <3>2 DEF KeptSoFar, since, start
    <3>5. NoneBefore(p)'
      BY <1>1, <1>4, <1>5, <1>6, <1>7, <3>1, <3>2 DEF NoneBefore, since
    <3>6. NewOnesAreRecent(p)'
      BY <1>1, <1>5, <1>7, <3>1, <3>2 DEF NewOnesAreRecent
    <3>7. HeldIsThere(p)'
      BY <1>1, <1>5, <3>1, <3>2 DEF HeldIsThere
    <3>8. QED
      BY <3>3, <3>4, <3>5, <3>6, <3>7 DEF PassInv
  <2>3. QED
    BY <2>1, <2>2
<1>11. ASSUME NEW q \in Passes, q # p
       PROVE  PassInv(q)'
  <2>1. pass'[q] = pass[q]
    BY <1>1, <1>2, <1>11 DEF HistoryTyped
  <2>2. plays \subseteq plays' /\ origin <= origin'
    BY <1>4, <1>6
  <2>3. QED
    BY <1>1, <1>2, <1>6, <2>1, <2>2, OthersKeep DEF HistoryInv
<1>12. NothingLeftBehind'
  <2>1. CASE entries = {}
    BY <1>1, <1>2, <1>4, <1>7, <2>1 DEF NothingLeftBehind
  <2>2. CASE entries # {}
    <3>1. cursor' \in Int /\ cursor' <= time
      BY <1>4, <1>6, <2>2 DEF Times
    <3>2. ASSUME NEW i \in Counted
          PROVE  i \in plays' \/ viewed[i] < origin' \/ viewed[i] >= cursor' - Overlap
      <4>1. CASE i > pass[p].held
        <5>1. viewed[i] >= pass[p].from - Late
          BY <1>5, <4>1 DEF NewOnesAreRecent
        <5>2. time - pass[p].from <= Overlap - Late
          BY <1>5 DEF InTime
        <5>3. QED
          BY <1>5, <1>6, <1>7, <3>1, <5>1, <5>2
      <4>2. CASE i <= pass[p].held /\ viewed[i] < since
        <5>1. pass[p].first \/ i \in plays \/ viewed[i] < origin
          BY <1>5, <4>2 DEF NoneBefore, since
        <5>2. CASE pass[p].first
          BY <1>4, <1>5, <1>6, <1>7, <2>2, <4>2, <5>2
        <5>3. CASE i \in plays \/ viewed[i] < origin
          BY <1>4, <1>6, <1>7, <5>3
        <5>4. QED
          BY <5>1, <5>2, <5>3
      <4>3. CASE i <= pass[p].held /\ viewed[i] >= since
        <5>1. CASE PlaceIn(viewed, since, i) < start
          BY <1>4, <1>5, <4>3, <5>1 DEF KeptSoFar, since, start
        <5>2. CASE i \in rows
          BY <1>7, <5>2
        <5>3. CASE i \notin rows /\ ~(PlaceIn(viewed, since, i) < start)
          <6>1. PICK e \in entries : cursor' = viewed[e]
            BY <1>4, <2>2
          <6>2. viewed[e] <= viewed[i]
            BY <1>3, <1>7, <4>3, <5>3, <6>1 DEF entries
          <6>3. QED
            BY <1>6, <1>7, <3>1, <6>1, <6>2
        <5>4. QED
          BY <5>1, <5>2, <5>3
      <4>4. i \in Int
        BY <1>2, <1>7, LedgerOfIntegers
      <4>5. QED
        BY <1>5, <1>6, <1>7, <4>1, <4>2, <4>3, <4>4
    <3>3. QED
      BY <1>1, <1>7, <3>2 DEF NothingLeftBehind
  <2>3. QED
    BY <2>1, <2>2
<1>13. QED
  BY <1>9, <1>10, <1>11, <1>12 DEF HistoryInv

LEMMA HistoryStarts == HistoryInit => HistoryInv
<1>. SUFFICES ASSUME HistoryInit PROVE HistoryInv
  OBVIOUS
<1>1. /\ time = 0 /\ viewed = <<>> /\ plays = {} /\ cursor = NoCursor /\ stops = 0 /\ origin = 0
      /\ pass = [p \in Passes |-> NoPass] /\ 0 \in Times /\ MaxPlays \in Nat /\ MaxStops \in Nat
  BY HistoryAssumption DEF HistoryInit, Times
<1>2. Len(viewed) = 0 /\ DOMAIN viewed = {} /\ viewed \in Seq(Times)
  BY <1>1
<1>3. HistoryTyped
  BY <1>1, <1>2 DEF HistoryTyped
<1>4. \A p \in Passes : ~reading(p)
  BY <1>1 DEF reading, NoPass
<1>5. NothingLeftBehind
  BY <1>1 DEF NothingLeftBehind
<1>6. QED
  BY <1>3, <1>4, <1>5 DEF HistoryInv, PassInv

LEMMA HistoryKeeps == HistoryInv /\ [HistoryNext]_historyVars => HistoryInv'
<1>. SUFFICES ASSUME HistoryInv, [HistoryNext]_historyVars PROVE HistoryInv'
  OBVIOUS
<1>1. CASE HistoryNext
  <2>1. CASE \E p \in Passes : PassStep(p) \/ StopPass(p)
    BY <2>1, BeginKeeps, KeepKeeps, StopKeeps DEF PassStep
  <2>2. CASE View
    BY <2>2, ViewKeeps
  <2>3. CASE Tick
    BY <2>3, TickKeeps
  <2>4. QED
    BY <1>1, <2>1, <2>2, <2>3 DEF HistoryNext
<1>2. CASE UNCHANGED historyVars
  <2>1. UNCHANGED <<time, viewed, plays, cursor, origin, pass, stops>>
    BY <1>2 DEF historyVars, plexVars, storeVars
  <2>2. HistoryTyped' /\ NothingLeftBehind'
    BY <2>1 DEF HistoryInv, HistoryTyped, NothingLeftBehind, Counted
  <2>3. ASSUME NEW q \in Passes
        PROVE  PassInv(q)'
    BY <2>1 DEF HistoryInv, PassInv, reading, InTime, KeptSoFar, NoneBefore, NewOnesAreRecent,
                HeldIsThere, Counted, PlaceIn, Earlier, From
  <2>4. QED
    BY <2>2, <2>3 DEF HistoryInv
<1>3. QED
  BY <1>1, <1>2

\* The step that ends a pass at its end.
EndsComplete ==
  \A p \in Passes :
    reading(p) /\ pass'[p] = NoPass /\ stops' = stops =>
      \A i \in Counted : i <= pass[p].held /\ viewed[i] >= pass[p].since => i \in plays'

\* A pass that ends at its end has stored what it was there to store: only its last
\* page ends it, and that page leaves nothing behind it.
LEMMA LastPageCompletes ==
  ASSUME HistoryInv, [HistoryNext]_historyVars
  PROVE  EndsComplete
<1>. SUFFICES ASSUME NEW p \in Passes, reading(p), pass'[p] = NoPass, stops' = stops,
                     NEW i \in Counted, i <= pass[p].held, viewed[i] >= pass[p].since
              PROVE  i \in plays'
  BY DEF EndsComplete
<1>1. HistoryTyped /\ PassInv(p) /\ pass[p] # NoPass
  BY DEF HistoryInv, reading, NoPass
<1>2. stops \in Nat
  BY <1>1, HistoryAssumption DEF HistoryTyped
<1>3. PICK q \in Passes : PassStep(q) \/ StopPass(q)
  <2>1. ~(UNCHANGED historyVars) /\ ~View /\ ~Tick
    BY <1>1 DEF historyVars, View, Tick
  <2>2. QED
    BY <2>1 DEF HistoryNext
<1>4. ~StopPass(q)
  BY <1>2 DEF StopPass
<1>5. ~BeginPass(q)
  <2>1. SUFFICES ASSUME BeginPass(q) PROVE FALSE
    OBVIOUS
  <2>2. pass' = [pass EXCEPT ![q] = Reading(startingPoint, cursor = NoCursor)]
        /\ Reading(startingPoint, cursor = NoCursor).stage = "reading"
    BY <2>1 DEF BeginPass, Reading
  <2>3. pass'[p] = pass[p] \/ pass'[p] = Reading(startingPoint, cursor = NoCursor)
    BY <1>1, <2>2 DEF HistoryTyped
  <2>4. QED
    BY <1>1, <2>2, <2>3 DEF NoPass
<1>6. KeepPlays(q)
  BY <1>3, <1>4, <1>5 DEF PassStep
<1>. DEFINE rows == historyPage(pass[q].since, pass[q].start)
            done == lastHistoryPage(pass[q].since, pass[q].start, rows)
            next == [pass[q] EXCEPT !.start = pass[q].start + Cardinality(rows)]
<1>7. reading(q) /\ pass' = [pass EXCEPT ![q] = IF done THEN NoPass ELSE next]
  BY Zenon, <1>6 DEF KeepPlays
<1>8. next.stage = "reading"
  BY <1>1, <1>7, ReadingTyped DEF ReadingPass
<1>. HIDE DEF rows, done, next
<1>9. q = p /\ done
  BY <1>1, <1>7, <1>8 DEF HistoryTyped, reading, NoPass
<1>10. PlaceIn(viewed, pass[p].since, i) < pass[p].start \/ i \in rows
  BY <1>1, <1>9, PageOfPlays DEF Counted, rows, done
<1>11. CASE PlaceIn(viewed, pass[p].since, i) < pass[p].start
  <2>1. i \in plays
    BY <1>1, <1>11 DEF PassInv, KeptSoFar
  <2>2. QED
    BY <1>1, <1>6, <2>1, PageCommits
<1>12. CASE i \in rows
  BY <1>1, <1>6, <1>9, <1>12, PageCommits DEF rows, Counted
<1>13. QED
  BY <1>10, <1>11, <1>12

---------------------------------------------------------------------------
\* The inventory.

ItemRow == [present : BOOLEAN, seen : 0..3]
PagingRound ==
  [stage : {"paging"}, now : 0..3, section : Nat \ {0}, start : Nat, failed : BOOLEAN,
   held : {NoRow} \union SUBSET Items, alone : BOOLEAN]
EnrichingRound == [stage : {"enriching"}, now : 0..3]
AskingRound == [stage : {"asked", "singly"}, now : 0..3, keys : SUBSET Items]
InventoryTyped ==
  /\ library \subseteq Items /\ played \subseteq Items
  /\ item \in [Items -> {NoRow} \union ItemRow]
  /\ round \in [Rounds -> {NoRound} \union PagingRound \union EnrichingRound \union AskingRound]

\* A section of a library, and an item's rank in it: the model's shelf and the count
\* its pages go by, of any library.
Shelf(L, s) == {i \in L : \E n \in DOMAIN Shelves[s] : Shelves[s][n] = i}
Below(L, s, i) == {j \in Shelf(L, s) : j < i}
RankIn(L, s, i) == Cardinality(Below(L, s, i))

\* What round p has paged past: the sections before its own, and its own's first items.
Passed(p, i) ==
  \/ \E s \in DOMAIN Shelves : s < round[p].section /\ i \in Shelf(library, s)
  \/ /\ round[p].section \in DOMAIN Shelves
     /\ i \in Shelf(library, round[p].section)
     /\ RankIn(library, round[p].section, i) < round[p].start

\* A stamp of the round means that the item is there.
SeenAreThere == \A i \in Items : item[i] # NoRow /\ item[i].seen = 3 => item[i].present /\ i \in library

\* What it has paged past has the round's stamp.
PassedAreSeen(p) == \A i \in round[p].held : Passed(p, i) => item[i] = Row(TRUE, 3)

\* The inductive invariant, of a round that pages with no other beside it.
AloneInv(p) ==
  at(p, "paging") /\ round[p].alone =>
    /\ round[Other(p)] = NoRound
    /\ round[p].now = 3
    /\ round[p].held \in SUBSET library
    /\ SeenAreThere
    /\ ~round[p].failed => PassedAreSeen(p)
InventoryInv == InventoryTyped /\ \A p \in Rounds : AloneInv(p)

\* Items are numbers, and finitely many.
LEMMA ItemsAreFinite == IsFiniteSet(Items) /\ Items \subseteq Nat
<1>. DEFINE kept_in(s) == {Shelves[s][n] : n \in DOMAIN Shelves[s]}
            all == {kept_in(s) : s \in DOMAIN Shelves}
<1>1. Shelves \in Seq(Seq(Nat)) /\ IsFiniteSet(DOMAIN Shelves)
  <2>1. Shelves \in Seq(Seq(Nat))
    BY InventoryAssumption
  <2>2. DOMAIN Shelves = 1..Len(Shelves) /\ Len(Shelves) \in Nat
    BY <2>1
  <2>3. QED
    BY <2>1, <2>2, FS_Interval
<1>2. ASSUME NEW s \in DOMAIN Shelves
      PROVE  IsFiniteSet(kept_in(s)) /\ kept_in(s) \subseteq Nat
  <2>1. Shelves[s] \in Seq(Nat)
    BY <1>1
  <2>2. DOMAIN Shelves[s] = 1..Len(Shelves[s]) /\ Len(Shelves[s]) \in Nat
    BY <2>1
  <2>3. IsFiniteSet(DOMAIN Shelves[s])
    BY <2>2, FS_Interval
  <2>. DEFINE f == [n \in DOMAIN Shelves[s] |-> Shelves[s][n]]
  <2>4. f \in Surjection(DOMAIN Shelves[s], kept_in(s))
    BY DEF Surjection
  <2>. HIDE DEF f
  <2>5. QED
    BY <2>1, <2>3, <2>4, FS_Surjection
<1>3. IsFiniteSet(all)
  <2>. DEFINE f == [s \in DOMAIN Shelves |-> kept_in(s)]
  <2>1. f \in Surjection(DOMAIN Shelves, all)
    BY DEF Surjection
  <2>. HIDE DEF f, all
  <2>2. QED
    BY <1>1, <2>1, FS_Surjection
<1>4. \A T \in all : IsFiniteSet(T) /\ T \subseteq Nat
  BY <1>2
<1>5. Items = UNION all
  BY DEF Items
<1>. HIDE DEF all
<1>6. QED
  BY <1>3, <1>4, <1>5, FS_UNION

LEMMA ShelfRanks ==
  ASSUME NEW L \in SUBSET Items, NEW s
  PROVE  LET S == Shelf(L, s)
         IN /\ IsFiniteSet(S)
            /\ [i \in S |-> RankIn(L, s, i)] \in Injection(S, 0..(Cardinality(S) - 1))
<1>. DEFINE S == Shelf(L, s)
            below == [i \in S |-> Below(L, s, i)]
<1>1. IsFiniteSet(S) /\ S \subseteq Nat
  <2>1. S \subseteq Items
    BY DEF Shelf
  <2>2. QED
    BY <2>1, ItemsAreFinite, FS_Subset
<1>2. /\ below \in [S -> SUBSET S]
      /\ \A i \in S : i \notin below[i]
      /\ \A i, j \in S : i # j => i \in below[j] \/ j \in below[i]
      /\ \A i, j \in S : i \in below[j] => below[i] \subseteq below[j]
  BY <1>1 DEF Below
<1>3. [i \in S |-> RankIn(L, s, i)] = [i \in S |-> Cardinality(below[i])]
  BY DEF RankIn
<1>. HIDE DEF below, S
<1>4. [i \in S |-> Cardinality(below[i])] \in Injection(S, 0..(Cardinality(S) - 1))
  BY <1>1, <1>2, RanksAreDistinct
<1>5. QED
  BY <1>1, <1>3, <1>4 DEF S

\* An item that is added moves no item to an earlier rank.
LEMMA RanksGrow ==
  ASSUME NEW L \in SUBSET Items, NEW M \in SUBSET Items, L \subseteq M, NEW s, NEW i
  PROVE  RankIn(L, s, i) \in Nat /\ RankIn(M, s, i) \in Nat /\ RankIn(L, s, i) <= RankIn(M, s, i)
<1>1. Below(L, s, i) \subseteq Below(M, s, i)
  BY DEF Below, Shelf
<1>2. IsFiniteSet(Below(M, s, i))
  <2>1. Below(M, s, i) \subseteq Items
    BY DEF Below, Shelf
  <2>2. QED
    BY <2>1, ItemsAreFinite, FS_Subset
<1>3. QED
  BY <1>1, <1>2, FS_Subset, FS_CardinalityType DEF RankIn

\* A page of a section leaves no gap behind it.
LEMMA PageOfShelf ==
  ASSUME InventoryTyped, NEW s, NEW start \in Nat
  PROVE  LET rows == shelfPage(s, start)
         IN /\ rows \subseteq library /\ Cardinality(rows) \in Nat
            /\ lastShelfPage(s, start, rows) =>
                 \A i \in Shelf(library, s) : RankIn(library, s, i) < start \/ i \in rows
            /\ \A i \in Shelf(library, s) :
                 RankIn(library, s, i) < start + Cardinality(rows) =>
                   RankIn(library, s, i) < start \/ i \in rows
<1>. DEFINE rows == shelfPage(s, start)
            S == Shelf(library, s)
            f == [i \in S |-> RankIn(library, s, i)]
<1>1. IsFiniteSet(S) /\ f \in Injection(S, 0..(Cardinality(S) - 1))
  BY ShelfRanks DEF InventoryTyped
<1>2. LibraryPage \in Nat \ {0}
  BY InventoryAssumption
<1>3. /\ rows = {i \in S : f[i] \in start..(start + LibraryPage - 1)}
      /\ lastShelfPage(s, start, rows) <=> (rows = {} \/ start + Cardinality(rows) >= Cardinality(S))
  BY DEF shelfPage, lastShelfPage, shelf, Shelf, RankIn, Below
<1>4. S \subseteq library /\ \A i \in S : f[i] = RankIn(library, s, i)
  BY DEF Shelf
<1>. HIDE DEF rows, S, f
<1>5. rows \in SUBSET S /\ \A i \in S : i \in rows <=> f[i] \in start..(start + LibraryPage - 1)
  BY <1>3
<1>6. /\ IsFiniteSet(rows) /\ Cardinality(rows) \in 0..LibraryPage
      /\ rows = {} \/ start + Cardinality(rows) >= Cardinality(S)
           => \A i \in S : f[i] < start \/ i \in rows
      /\ \A i \in S : f[i] < start + Cardinality(rows) => f[i] < start \/ i \in rows
      /\ \A i \in rows, j \in S : i # j /\ j \notin rows /\ f[j] >= start => f[i] < f[j]
  BY <1>1, <1>2, <1>5, PagesLeaveNoGap
<1>7. QED
  BY <1>2, <1>3, <1>4, <1>5, <1>6 DEF rows, S

\* A round at a stage has that stage's fields.
LEMMA RoundTyped ==
  ASSUME InventoryTyped, NEW p \in Rounds
  PROVE  /\ at(p, "paging") => round[p] \in PagingRound
         /\ at(p, "enriching") => round[p] \in EnrichingRound
         /\ at(p, "asked") \/ at(p, "singly") => round[p] \in AskingRound
         /\ round[p].now \in 0..3
         /\ at(p, "paging") \/ at(p, "enriching") \/ at(p, "asked") \/ at(p, "singly") => round[p] # NoRound
<1>1. round[p] \in {NoRound} \union PagingRound \union EnrichingRound \union AskingRound
  BY DEF InventoryTyped
<1>2. QED
  BY <1>1 DEF at, NoRound, PagingRound, EnrichingRound, AskingRound

\* What a pager does to its record.
LEMMA PagingMoves ==
  ASSUME NEW r \in PagingRound, NEW failed \in BOOLEAN, NEW n \in Nat
  PROVE  /\ nextSection(r, failed) \in PagingRound /\ nextSection(r, failed).section = r.section + 1
         /\ nextSection(r, failed).start = 0 /\ nextSection(r, failed).failed = (r.failed \/ failed)
         /\ nextSection(r, failed).now = r.now /\ nextSection(r, failed).held = r.held
         /\ nextSection(r, failed).alone = r.alone
         /\ disturbed(r) \in PagingRound /\ disturbed(r).alone = FALSE
         /\ disturbed(nextSection(r, FALSE)) \in PagingRound
         /\ disturbed(nextSection(r, FALSE)).alone = FALSE
         /\ [r EXCEPT !.start = r.start + n] \in PagingRound
<1>1. ASSUME NEW f \in BOOLEAN
      PROVE  nextSection(r, f) \in PagingRound
  <2>. DEFINE g == r.failed \/ f
  <2>1. r.section + 1 \in Nat \ {0} /\ g \in BOOLEAN
    BY DEF PagingRound
  <2>2. nextSection(r, f) = [r EXCEPT !.section = r.section + 1, !.start = 0, !.failed = g]
    BY DEF nextSection
  <2>3. [r EXCEPT !.section = r.section + 1, !.start = 0, !.failed = TRUE] \in PagingRound
    BY <2>1 DEF PagingRound
  <2>4. [r EXCEPT !.section = r.section + 1, !.start = 0, !.failed = FALSE] \in PagingRound
    BY <2>1 DEF PagingRound
  <2>5. g = TRUE \/ g = FALSE
    BY <2>1
  <2>. HIDE DEF g
  <2>6. QED
    BY <2>2, <2>3, <2>4, <2>5
<1>2. \A x \in PagingRound : disturbed(x) \in PagingRound /\ disturbed(x).alone = FALSE
  BY DEF disturbed, PagingRound
<1>3. [r EXCEPT !.start = r.start + n] \in PagingRound
  BY DEF PagingRound
<1>4. /\ nextSection(r, failed).section = r.section + 1
      /\ nextSection(r, failed).start = 0 /\ nextSection(r, failed).failed = (r.failed \/ failed)
      /\ nextSection(r, failed).now = r.now /\ nextSection(r, failed).held = r.held
      /\ nextSection(r, failed).alone = r.alone
  BY DEF nextSection, PagingRound
<1>5. QED
  BY <1>1, <1>2, <1>3, <1>4

\* What the store does to its rows leaves rows.
LEMMA RowsStayRows ==
  ASSUME NEW rows \in [Items -> {NoRow} \union ItemRow], NEW now \in 0..3, NEW a, NEW b
  PROVE  /\ upsertItems(rows, a, now) \in [Items -> {NoRow} \union ItemRow]
         /\ retireUnseenItems(rows, now) \in [Items -> {NoRow} \union ItemRow]
         /\ storeAnswered(rows, a, b, now) \in [Items -> {NoRow} \union ItemRow]
<1>1. Row(TRUE, now) \in ItemRow /\ Row(FALSE, now) \in ItemRow
  BY DEF Row, ItemRow
<1>2. ASSUME NEW x \in [Items -> {NoRow} \union ItemRow], NEW keys
      PROVE  upsertItems(x, keys, now) \in [Items -> {NoRow} \union ItemRow]
  BY <1>1 DEF upsertItems
<1>3. ASSUME NEW x \in [Items -> {NoRow} \union ItemRow], NEW keys
      PROVE  stubMissingItems(x, keys, now) \in [Items -> {NoRow} \union ItemRow]
  BY <1>1 DEF stubMissingItems
<1>4. \A r \in ItemRow : Row(FALSE, r.seen) \in ItemRow
  BY DEF Row, ItemRow
<1>5. retireUnseenItems(rows, now) \in [Items -> {NoRow} \union ItemRow]
  BY <1>4 DEF retireUnseenItems
<1>6. QED
  BY <1>2, <1>3, <1>5 DEF storeAnswered

\* While a round is under way, the other is not alone.
LEMMA OtherIsNotAlone ==
  ASSUME InventoryInv, NEW p \in Rounds, round[p] # NoRound,
         round'[Other(p)] = round[Other(p)]
  PROVE  AloneInv(Other(p))'
<1>1. Other(p) \in Rounds /\ Other(Other(p)) = p
  BY DEF Rounds, Other
<1>2. ~(at(Other(p), "paging") /\ round[Other(p)].alone)
  BY <1>1 DEF InventoryInv, AloneInv
<1>3. QED
  BY <1>2 DEF AloneInv, at

\* A step that takes a round out of its paging, or finds it out of it.
LEMMA LeavingKeeps ==
  ASSUME InventoryInv, NEW p \in Rounds, round[p] # NoRound,
         NEW x \in {NoRound} \union EnrichingRound \union AskingRound,
         round' = [round EXCEPT ![p] = x], library' = library, played' = played,
         item' \in [Items -> {NoRow} \union ItemRow]
  PROVE  InventoryInv'
<1>1. InventoryTyped
  BY DEF InventoryInv
<1>2. round'[p] = x /\ round'[Other(p)] = round[Other(p)]
  BY <1>1 DEF InventoryTyped, Rounds, Other
<1>3. x.stage # "paging"
  BY DEF NoRound, EnrichingRound, AskingRound
<1>4. AloneInv(p)'
  BY <1>2, <1>3 DEF AloneInv, at
<1>5. AloneInv(Other(p))'
  BY <1>2, OtherIsNotAlone
<1>6. InventoryTyped'
  BY <1>1 DEF InventoryTyped
<1>7. \A q \in Rounds : q = p \/ q = Other(p)
  BY DEF Rounds, Other
<1>8. QED
  BY <1>4, <1>5, <1>6, <1>7 DEF InventoryInv

LEMMA LeavingSteps ==
  ASSUME InventoryInv, NEW p \in Rounds,
         \/ Complete(p) \/ SectionsFail(p) \/ AskBatch(p) \/ BatchAnswered(p) \/ BatchStalls(p)
         \/ AskSingly(p) \/ EnrichFails(p) \/ Crash(p)
  PROVE  InventoryInv'
<1>1. InventoryTyped /\ item \in [Items -> {NoRow} \union ItemRow] /\ round[p].now \in 0..3
  BY RoundTyped DEF InventoryInv, InventoryTyped
<1>2. Enriching(round[p].now) \in EnrichingRound
  BY <1>1 DEF Enriching, EnrichingRound
<1>3. CASE Complete(p)
  <2>1. round[p] # NoRound /\ round' = [round EXCEPT ![p] = Enriching(round[p].now)]
        /\ library' = library /\ played' = played
    BY <1>1, <1>3, RoundTyped DEF Complete, listed, libraryVars
  <2>2. item' \in [Items -> {NoRow} \union ItemRow]
    BY <1>1, <1>3, RowsStayRows DEF Complete
  <2>3. QED
    BY <1>2, <2>1, <2>2, LeavingKeeps
<1>4. CASE SectionsFail(p)
  <2>1. round[p] # NoRound /\ round' = [round EXCEPT ![p] = Enriching(round[p].now)]
        /\ library' = library /\ played' = played /\ item' = item
    BY <1>1, <1>4, RoundTyped DEF SectionsFail, libraryVars
  <2>2. QED
    BY <1>1, <1>2, <2>1, LeavingKeeps
<1>5. CASE AskBatch(p)
  <2>. DEFINE x == IF missing = {} THEN NoRound ELSE Asked(round[p].now, missingItemKeys)
  <2>1. round[p] # NoRound /\ round' = [round EXCEPT ![p] = x]
        /\ library' = library /\ played' = played /\ item' = item
    BY <1>1, <1>5, RoundTyped DEF AskBatch, libraryVars
  <2>2. missingItemKeys \subseteq Items
    BY <1>1 DEF missingItemKeys, missing, InventoryTyped
  <2>3. Asked(round[p].now, missingItemKeys) \in AskingRound
    BY <1>1, <2>2 DEF Asked, AskingRound
  <2>4. x \in {NoRound} \union EnrichingRound \union AskingRound
    BY <2>3
  <2>. HIDE DEF x
  <2>5. QED
    BY <1>1, <2>1, <2>4, LeavingKeeps
<1>6. CASE BatchAnswered(p)
  <2>1. round[p] # NoRound /\ round' = [round EXCEPT ![p] = Enriching(round[p].now)]
        /\ library' = library /\ played' = played
    BY <1>1, <1>6, RoundTyped DEF BatchAnswered, libraryVars
  <2>2. item' \in [Items -> {NoRow} \union ItemRow]
    BY <1>1, <1>6, RowsStayRows DEF BatchAnswered
  <2>3. QED
    BY <1>2, <2>1, <2>2, LeavingKeeps
<1>7. CASE BatchStalls(p)
  <2>1. round[p] # NoRound /\ round' = [round EXCEPT ![p] = Singly(round[p].now, round[p].keys)]
        /\ library' = library /\ played' = played /\ item' = item
    BY <1>1, <1>7, RoundTyped DEF BatchStalls, libraryVars
  <2>2. Singly(round[p].now, round[p].keys) \in AskingRound
    BY <1>1, <1>7, RoundTyped DEF BatchStalls, Singly, AskingRound
  <2>3. QED
    BY <1>1, <2>1, <2>2, LeavingKeeps
<1>8. CASE AskSingly(p)
  <2>. DEFINE k == Min(round[p].keys)
              rest == round[p].keys \ {k}
              x == IF rest = {} THEN Enriching(round[p].now) ELSE Singly(round[p].now, rest)
  <2>1. round[p] # NoRound /\ round' = [round EXCEPT ![p] = x]
        /\ library' = library /\ played' = played
    BY <1>1, <1>8, RoundTyped DEF AskSingly, libraryVars
  <2>2. rest \subseteq Items
    BY <1>1, <1>8, RoundTyped DEF AskSingly, AskingRound
  <2>. HIDE DEF rest
  <2>3. Singly(round[p].now, rest) \in AskingRound
    BY <1>1, <2>2 DEF Singly, AskingRound
  <2>4. x \in {NoRound} \union EnrichingRound \union AskingRound
    BY <1>2, <2>3
  <2>5. item' \in [Items -> {NoRow} \union ItemRow]
    BY <1>1, <1>8, RowsStayRows DEF AskSingly
  <2>. HIDE DEF x
  <2>6. QED
    BY <2>1, <2>4, <2>5, LeavingKeeps
<1>9. CASE EnrichFails(p)
  <2>1. round[p] # NoRound /\ round' = [round EXCEPT ![p] = NoRound]
        /\ library' = library /\ played' = played /\ item' = item
    BY <1>1, <1>9, RoundTyped DEF EnrichFails, libraryVars
  <2>2. QED
    BY <1>1, <2>1, LeavingKeeps
<1>10. CASE Crash(p)
  <2>1. round[p] # NoRound /\ round' = [round EXCEPT ![p] = NoRound]
        /\ library' = library /\ played' = played /\ item' = item
    BY <1>10 DEF Crash, libraryVars
  <2>2. QED
    BY <1>1, <2>1, LeavingKeeps
<1>11. QED
  BY <1>3, <1>4, <1>5, <1>6, <1>7, <1>8, <1>9, <1>10

\* A page of a round that is alone stamps what it lists, and passes nothing else.
LEMMA ShelfPageKeeps ==
  ASSUME InventoryInv, NEW p \in Rounds, KeepItems(p)
  PROVE  InventoryInv'
<1>. DEFINE r == round[p]
            s == r.section
            rows == shelfPage(s, r.start)
            last == lastShelfPage(s, r.start, rows)
            next == [r EXCEPT !.start = r.start + Cardinality(rows)]
            x == IF last THEN nextSection(r, FALSE) ELSE next
<1>1. /\ at(p, "paging") /\ s <= Len(Shelves)
      /\ item' = upsertItems(item, rows, r.now)
      /\ round' = [round EXCEPT ![p] = x]
      /\ library' = library /\ played' = played
  <2>1. round' = [round EXCEPT ![p] = x]
    BY Zenon DEF KeepItems
  <2>2. QED
    BY <2>1 DEF KeepItems, listingNow, libraryVars
<1>2. InventoryTyped /\ AloneInv(p) /\ library \subseteq Items /\ item \in [Items -> {NoRow} \union ItemRow]
  BY DEF InventoryInv, InventoryTyped
<1>3. r \in PagingRound /\ r # NoRound /\ s \in Nat \ {0} /\ r.start \in Nat /\ r.now \in 0..3
  BY <1>1, <1>2, RoundTyped DEF PagingRound
<1>4. s \in DOMAIN Shelves
  <2>1. Shelves \in Seq(Seq(Nat))
    BY InventoryAssumption
  <2>2. DOMAIN Shelves = 1..Len(Shelves) /\ Len(Shelves) \in Nat
    BY <2>1
  <2>3. QED
    BY <1>1, <1>3, <2>2
<1>5. /\ rows \subseteq library /\ Cardinality(rows) \in Nat
      /\ last => \A i \in Shelf(library, s) : RankIn(library, s, i) < r.start \/ i \in rows
      /\ \A i \in Shelf(library, s) :
           RankIn(library, s, i) < r.start + Cardinality(rows) =>
             RankIn(library, s, i) < r.start \/ i \in rows
  BY <1>2, <1>3, PageOfShelf
<1>6. /\ x \in PagingRound /\ x.stage = "paging" /\ x.now = r.now /\ x.held = r.held
      /\ x.alone = r.alone /\ x.failed = r.failed
  <2>1. nextSection(r, FALSE) \in PagingRound /\ next \in PagingRound
    <3>1. Cardinality(rows) \in Nat
      BY <1>5
    <3>. HIDE DEF rows, r
    <3>2. nextSection(r, FALSE) \in PagingRound
      BY <1>3, PagingMoves
    <3>3. next \in PagingRound
      BY <1>3, <3>1, PagingMoves
    <3>4. QED
      BY <3>2, <3>3
  <2>2. nextSection(r, FALSE).failed = r.failed
    BY <1>3 DEF nextSection, PagingRound
  <2>3. next.now = r.now /\ next.held = r.held /\ next.alone = r.alone /\ next.failed = r.failed
    BY <1>3 DEF PagingRound
  <2>4. nextSection(r, FALSE).now = r.now /\ nextSection(r, FALSE).held = r.held
        /\ nextSection(r, FALSE).alone = r.alone
    BY <1>3, PagingMoves
  <2>. HIDE DEF r, next, last
  <2>5. QED
    BY <2>1, <2>2, <2>3, <2>4 DEF PagingRound
<1>7. /\ last => x.section = s + 1 /\ x.start = 0
      /\ ~last => x.section = s /\ x.start = r.start + Cardinality(rows)
  <2>1. nextSection(r, FALSE).section = s + 1 /\ nextSection(r, FALSE).start = 0
    BY <1>3 DEF nextSection, PagingRound
  <2>2. next.section = s /\ next.start = r.start + Cardinality(rows)
    BY <1>3 DEF PagingRound
  <2>. HIDE DEF r, next, last
  <2>3. QED
    BY <2>1, <2>2
<1>. HIDE DEF r, s, rows, last, next, x
<1>8. InventoryTyped' /\ round'[p] = x /\ round'[Other(p)] = round[Other(p)]
  <2>1. item' \in [Items -> {NoRow} \union ItemRow]
    BY <1>1, <1>2, <1>3, RowsStayRows
  <2>2. QED
    BY <1>1, <1>2, <1>6, <2>1 DEF InventoryTyped, Rounds, Other
<1>9. AloneInv(Other(p))'
  BY <1>3, <1>8, OtherIsNotAlone DEF r
<1>10. AloneInv(p)'
  <2>. SUFFICES ASSUME r.alone
                PROVE  /\ round'[Other(p)] = NoRound /\ x.now = 3 /\ x.held \in SUBSET library
                       /\ SeenAreThere' /\ (~x.failed => PassedAreSeen(p)')
    BY <1>1, <1>6, <1>8 DEF AloneInv
  <2>1. /\ round[Other(p)] = NoRound /\ r.now = 3 /\ r.held \in SUBSET library /\ SeenAreThere
        /\ ~r.failed => PassedAreSeen(p)
    BY <1>1, <1>2 DEF AloneInv, r
  <2>2. \A i \in Items : item'[i] = IF i \in rows THEN Row(TRUE, 3) ELSE item[i]
    BY <1>1, <2>1 DEF upsertItems
  <2>3. SeenAreThere'
    BY <1>1, <1>5, <2>1, <2>2 DEF SeenAreThere, Row
  <2>4. ASSUME ~r.failed
        PROVE  PassedAreSeen(p)'
    <3>. SUFFICES ASSUME NEW i \in r.held, Passed(p, i)'
                  PROVE  item'[i] = Row(TRUE, 3)
      BY <1>6, <1>8 DEF PassedAreSeen
    <3>1. i \in library /\ i \in Items /\ RankIn(library, x.section, i) \in Nat
      BY <1>2, <2>1, RanksGrow
    <3>2. Passed(p, i) \/ i \in rows
      <4>1. CASE last
        <5>1. PICK t \in DOMAIN Shelves : t < s + 1 /\ i \in Shelf(library, t)
          BY <1>1, <1>7, <1>8, <3>1, <4>1 DEF Passed
        <5>2. t \in Nat
          <6>1. Shelves \in Seq(Seq(Nat))
            BY InventoryAssumption
          <6>2. QED
            BY <6>1
        <5>3. CASE t < s
          BY <5>1, <5>3 DEF Passed, s, r
        <5>4. CASE t = s
          BY <1>4, <1>5, <4>1, <5>1, <5>4 DEF Passed, s, r
        <5>5. QED
          BY <1>3, <5>1, <5>2, <5>3, <5>4
      <4>2. CASE ~last
        BY <1>1, <1>4, <1>5, <1>7, <1>8, <4>2 DEF Passed, s, r
      <4>3. QED
        BY <4>1, <4>2
    <3>3. Passed(p, i) => item[i] = Row(TRUE, 3)
      BY <2>1, <2>4 DEF PassedAreSeen, r
    <3>4. QED
      BY <2>2, <3>1, <3>2, <3>3
  <2>5. QED
    BY <1>6, <1>8, <2>1, <2>3, <2>4
<1>11. QED
  BY <1>8, <1>9, <1>10 DEF InventoryInv, Rounds, Other

\* A section that fails leaves the round to retire nothing, or out of the property's reach.
LEMMA SectionFailureKeeps ==
  ASSUME InventoryInv, NEW p \in Rounds, PageFails(p)
  PROVE  InventoryInv'
<1>. DEFINE r == round[p]
<1>1. /\ at(p, "paging")
      /\ library' = library /\ played' = played /\ item' = item
      /\ \/ round' = [round EXCEPT ![p] = nextSection(r, TRUE)]
         \/ round' = [round EXCEPT ![p] = disturbed(nextSection(r, FALSE))]
  BY DEF PageFails, listingNow, libraryVars
<1>2. InventoryTyped /\ AloneInv(p)
  BY DEF InventoryInv
<1>3. r \in PagingRound /\ r # NoRound
  BY <1>1, <1>2, RoundTyped
<1>4. PICK x \in {nextSection(r, TRUE), disturbed(nextSection(r, FALSE))} : round' = [round EXCEPT ![p] = x]
  BY <1>1
<1>5. /\ x \in PagingRound
      /\ x.alone => x.failed /\ x.now = r.now /\ x.held = r.held /\ r.alone
  <2>1. /\ nextSection(r, TRUE) \in PagingRound /\ nextSection(r, TRUE).now = r.now
        /\ nextSection(r, TRUE).held = r.held /\ nextSection(r, TRUE).alone = r.alone
        /\ nextSection(r, TRUE).failed = (r.failed \/ TRUE)
        /\ disturbed(nextSection(r, FALSE)) \in PagingRound
        /\ disturbed(nextSection(r, FALSE)).alone = FALSE
    BY <1>3, PagingMoves
  <2>. HIDE DEF r
  <2>2. QED
    BY <1>4, <2>1
<1>. HIDE DEF r
<1>6. InventoryTyped' /\ round'[p] = x /\ round'[Other(p)] = round[Other(p)]
  BY <1>1, <1>2, <1>4, <1>5 DEF InventoryTyped, Rounds, Other
<1>7. AloneInv(Other(p))'
  BY <1>3, <1>6, OtherIsNotAlone DEF r
<1>8. AloneInv(p)'
  BY <1>1, <1>2, <1>5, <1>6 DEF AloneInv, SeenAreThere, r
<1>9. QED
  BY <1>6, <1>7, <1>8 DEF InventoryInv, Rounds, Other

\* A round begins with a stamp no row has, and puts an end to the other's being alone.
LEMMA RoundBegins ==
  ASSUME InventoryInv, NEW p \in Rounds, BeginRound(p)
  PROVE  InventoryInv'
<1>. DEFINE o == Other(p)
            other == round[o].now
            alongside == IF round[o] = NoRound THEN NoRound
                         ELSE IF at(o, "paging")
                         THEN [round[o] EXCEPT !.now = 1, !.alone = FALSE]
                         ELSE [round[o] EXCEPT !.now = 1]
<1>1. /\ round[p] = NoRound /\ library' = library /\ played' = played
      /\ item' = [i \in Items |-> IF item[i] = NoRow THEN NoRow
                                  ELSE Row(item[i].present, renumbered(item[i].seen, other))]
  BY DEF BeginRound, libraryVars
<1>2. PICK inventory \in BOOLEAN :
        round' = [q \in Rounds |-> IF q = o THEN alongside
                                   ELSE IF inventory THEN Listing(3, round[o] = NoRound)
                                   ELSE Enriching(3)]
  <2>1. InventoryInv
    OBVIOUS
  <2>2. PICK inventory \in {TRUE, due \/ p = "hand"} :
          round' = [q \in Rounds |-> IF q = o THEN alongside
                                     ELSE IF inventory THEN Listing(3, round[o] = NoRound)
                                     ELSE Enriching(3)]
    BY Zenon DEF BeginRound
  <2>3. CASE inventory = TRUE
    BY <2>2, <2>3
  <2>4. CASE inventory = (due \/ p = "hand")
    BY <2>2, <2>4
  <2>5. QED
    BY <2>2, <2>3, <2>4
<1>3. InventoryTyped /\ o \in Rounds /\ o # p /\ p \in Rounds /\ \A q \in Rounds : q = p \/ q = o
  BY DEF InventoryInv, Rounds, Other
<1>4. alongside \in {NoRound} \union PagingRound \union EnrichingRound \union AskingRound
      /\ (alongside.stage = "paging" => alongside.alone = FALSE)
  <2>1. CASE round[o] = NoRound
    BY <2>1 DEF NoRound
  <2>2. CASE round[o] # NoRound /\ at(o, "paging")
    <3>1. round[o] \in PagingRound
      BY <1>3, <2>2, RoundTyped
    <3>2. ASSUME NEW x \in PagingRound
          PROVE  [x EXCEPT !.now = 1, !.alone = FALSE] \in PagingRound
                 /\ [x EXCEPT !.now = 1, !.alone = FALSE].alone = FALSE
      <4>1. [x EXCEPT !.now = 1] \in PagingRound
        BY DEF PagingRound
      <4>2. \A y \in PagingRound : [y EXCEPT !.alone = FALSE] \in PagingRound /\ [y EXCEPT !.alone = FALSE].alone = FALSE
        BY DEF PagingRound
      <4>3. [x EXCEPT !.now = 1, !.alone = FALSE] = [[x EXCEPT !.now = 1] EXCEPT !.alone = FALSE]
        BY DEF PagingRound
      <4>4. QED
        BY <4>1, <4>2, <4>3
    <3>3. QED
      BY <2>2, <3>1, <3>2
  <2>3. CASE round[o] \in EnrichingRound
    <3>1. [round[o] EXCEPT !.now = 1] \in EnrichingRound
      BY <2>3 DEF EnrichingRound
    <3>2. alongside = [round[o] EXCEPT !.now = 1]
      BY <2>3 DEF EnrichingRound, NoRound, at
    <3>3. QED
      BY <3>1, <3>2 DEF EnrichingRound
  <2>4. CASE round[o] \in AskingRound
    <3>1. [round[o] EXCEPT !.now = 1] \in AskingRound
      BY <2>4 DEF AskingRound
    <3>2. alongside = [round[o] EXCEPT !.now = 1]
      BY <2>4 DEF AskingRound, NoRound, at
    <3>3. QED
      BY <3>1, <3>2 DEF AskingRound
  <2>5. round[o] \in PagingRound => at(o, "paging") /\ round[o] # NoRound
    BY DEF PagingRound, at, NoRound
  <2>6. QED
    BY <1>3, <2>1, <2>2, <2>3, <2>4, <2>5 DEF InventoryTyped
<1>. DEFINE r == Listing(3, round[o] = NoRound)
<1>5. /\ r \in PagingRound /\ r.now = 3 /\ r.section = 1 /\ r.start = 0 /\ r.held = library
      /\ r.alone = (round[o] = NoRound)
  BY <1>3 DEF Listing, PagingRound, InventoryTyped
<1>6. Enriching(3) \in EnrichingRound /\ Enriching(3).stage # "paging"
  BY DEF Enriching, EnrichingRound
<1>. HIDE DEF alongside, r
<1>7. round'[o] = alongside /\ (round'[p] = r \/ round'[p] = Enriching(3))
  BY <1>2, <1>3 DEF r
<1>8. ASSUME NEW i \in Items
      PROVE  item'[i] = NoRow \/ (item'[i] \in ItemRow /\ item'[i].seen \in 0..2)
  <2>1. CASE item[i] = NoRow
    BY <1>1, <2>1
  <2>2. CASE item[i] # NoRow
    <3>1. item[i] \in ItemRow
      BY <1>3, <2>2 DEF InventoryTyped
    <3>2. renumbered(item[i].seen, other) \in 0..2
      BY DEF renumbered
    <3>3. item'[i] = Row(item[i].present, renumbered(item[i].seen, other))
      BY <1>1, <2>2
    <3>. HIDE DEF other
    <3>4. Row(item[i].present, renumbered(item[i].seen, other)) \in ItemRow
          /\ Row(item[i].present, renumbered(item[i].seen, other)).seen = renumbered(item[i].seen, other)
      BY <3>1, <3>2 DEF Row, ItemRow
    <3>5. QED
      BY <3>2, <3>3, <3>4
  <2>3. QED
    BY <2>1, <2>2
<1>9. InventoryTyped'
  <2>1. item' \in [Items -> {NoRow} \union ItemRow]
    BY <1>1, <1>8
  <2>2. \A q \in Rounds : round'[q] \in {NoRound} \union PagingRound \union EnrichingRound \union AskingRound
    BY <1>3, <1>4, <1>5, <1>6, <1>7
  <2>3. round' \in [Rounds -> {NoRound} \union PagingRound \union EnrichingRound \union AskingRound]
    BY <1>2, <2>2
  <2>4. QED
    BY <1>1, <1>3, <2>1, <2>3 DEF InventoryTyped
<1>10. AloneInv(o)'
  BY <1>4, <1>7 DEF AloneInv, at
<1>11. AloneInv(p)'
  <2>1. CASE round'[p] = Enriching(3)
    BY <1>6, <2>1 DEF AloneInv, at
  <2>2. CASE round'[p] = r
    <3>. SUFFICES ASSUME round[o] = NoRound
                  PROVE  /\ round'[o] = NoRound /\ r.now = 3 /\ r.held \in SUBSET library'
                         /\ SeenAreThere' /\ PassedAreSeen(p)'
      BY <1>5, <2>2 DEF AloneInv
    <3>1. round'[o] = NoRound
      BY <1>7 DEF alongside
    <3>2. SeenAreThere'
      BY <1>8 DEF SeenAreThere
    <3>3. ASSUME NEW i \in r.held
          PROVE  ~Passed(p, i)'
      <4>1. RankIn(library, 1, i) \in Nat
        BY <1>3, RanksGrow DEF InventoryTyped
      <4>2. \A s \in DOMAIN Shelves : ~(s < 1)
        BY InventoryAssumption
      <4>3. QED
        BY <1>1, <1>5, <2>2, <4>1, <4>2 DEF Passed
    <3>4. QED
      BY <1>1, <1>5, <2>2, <3>1, <3>2, <3>3 DEF PassedAreSeen
  <2>3. QED
    BY <1>7, <2>1, <2>2
<1>12. QED
  BY <1>3, <1>9, <1>10, <1>11 DEF InventoryInv

\* An item that is added moves what has been listed to later ranks, never to earlier ones.
LEMMA AddKeeps ==
  ASSUME InventoryInv, NEW i \in Items, AddItem(i)
  PROVE  InventoryInv'
<1>1. library' = library \union {i} /\ UNCHANGED <<played, item, round>>
  BY DEF AddItem
<1>2. InventoryTyped /\ library \subseteq Items
  BY DEF InventoryInv, InventoryTyped
<1>3. InventoryTyped'
  BY <1>1, <1>2 DEF InventoryTyped
<1>4. ASSUME NEW p \in Rounds, at(p, "paging"), round[p].alone
      PROVE  AloneInv(p)'
  <2>1. /\ round[Other(p)] = NoRound /\ round[p].now = 3 /\ round[p].held \in SUBSET library
        /\ SeenAreThere /\ (~round[p].failed => PassedAreSeen(p))
    BY <1>4 DEF InventoryInv, AloneInv
  <2>2. round[p] \in PagingRound
    BY <1>2, <1>4, RoundTyped
  <2>3. SeenAreThere'
    BY <1>1, <2>1 DEF SeenAreThere
  <2>4. ASSUME NEW j \in round[p].held, Passed(p, j)'
        PROVE  Passed(p, j)
    <3>1. \A s : j \in Shelf(library', s) => j \in Shelf(library, s)
      BY <2>1 DEF Shelf
    <3>2. \A s : /\ RankIn(library, s, j) \in Nat /\ RankIn(library', s, j) \in Nat
                 /\ RankIn(library, s, j) <= RankIn(library', s, j)
      BY <1>1, <1>2, RanksGrow
    <3>3. round[p].start \in Nat
      BY <2>2 DEF PagingRound
    <3>4. QED
      BY <1>1, <2>4, <3>1, <3>2, <3>3 DEF Passed
  <2>5. ~round[p].failed => PassedAreSeen(p)'
    BY <1>1, <2>1, <2>4 DEF PassedAreSeen
  <2>6. QED
    BY <1>1, <2>1, <2>3, <2>5 DEF AloneInv
<1>5. \A p \in Rounds : AloneInv(p)'
  BY <1>1, <1>4 DEF AloneInv, at
<1>6. QED
  BY <1>3, <1>5 DEF InventoryInv

\* One that goes puts the listings under way out of the property's reach.
LEMMA RemoveKeeps ==
  ASSUME InventoryInv, NEW i \in Items, RemoveItem(i)
  PROVE  InventoryInv'
<1>1. /\ library' = library \ {i} /\ UNCHANGED <<played, item>>
      /\ round' = [p \in Rounds |-> IF at(p, "paging") THEN disturbed(round[p]) ELSE round[p]]
  BY DEF RemoveItem
<1>2. InventoryTyped
  BY DEF InventoryInv
<1>3. ASSUME NEW p \in Rounds
      PROVE  /\ round'[p] \in {NoRound} \union PagingRound \union EnrichingRound \union AskingRound
             /\ AloneInv(p)'
  <2>1. CASE at(p, "paging")
    <3>1. round[p] \in PagingRound
      BY <1>2, <2>1, RoundTyped
    <3>2. disturbed(round[p]) \in PagingRound /\ disturbed(round[p]).alone = FALSE
      BY <3>1 DEF disturbed, PagingRound
    <3>3. round'[p] = disturbed(round[p])
      BY <1>1, <2>1
    <3>4. QED
      BY <3>2, <3>3 DEF AloneInv
  <2>2. CASE ~at(p, "paging")
    <3>1. round'[p] = round[p]
      BY <1>1, <2>2
    <3>2. QED
      BY <1>2, <2>2, <3>1 DEF AloneInv, at, InventoryTyped
  <2>3. QED
    BY <2>1, <2>2
<1>4. InventoryTyped'
  BY <1>1, <1>2, <1>3 DEF InventoryTyped
<1>5. QED
  BY <1>3, <1>4 DEF InventoryInv

LEMMA InventoryStarts == InventoryInit => InventoryInv
<1>. SUFFICES ASSUME InventoryInit PROVE InventoryInv
  OBVIOUS
<1>1. InventoryTyped
  BY DEF InventoryInit, InventoryTyped
<1>2. \A p \in Rounds : ~at(p, "paging")
  BY DEF InventoryInit, at, NoRound
<1>3. QED
  BY <1>1, <1>2 DEF InventoryInv, AloneInv

LEMMA InventoryKeeps == InventoryInv /\ [InventoryNext]_inventoryVars => InventoryInv'
<1>. SUFFICES ASSUME InventoryInv, [InventoryNext]_inventoryVars PROVE InventoryInv'
  OBVIOUS
<1>1. ASSUME NEW p \in Rounds,
             BeginRound(p) \/ RoundStep(p) \/ PageFails(p) \/ SectionsFail(p) \/ EnrichFails(p) \/ Crash(p)
      PROVE  InventoryInv'
  BY <1>1, RoundBegins, ShelfPageKeeps, SectionFailureKeeps, LeavingSteps DEF RoundStep
<1>2. ASSUME UNCHANGED <<library, item, round>>, played' \subseteq Items
      PROVE  InventoryInv'
  <2>1. InventoryTyped'
    BY <1>2 DEF InventoryInv, InventoryTyped
  <2>2. ASSUME NEW p \in Rounds
        PROVE  AloneInv(p)'
    <3>1. SeenAreThere => SeenAreThere'
      BY <1>2 DEF SeenAreThere
    <3>2. \A i : Passed(p, i)' => Passed(p, i)
      BY <1>2 DEF Passed, RankIn, Below, Shelf
    <3>3. PassedAreSeen(p) => PassedAreSeen(p)'
      BY <1>2, <3>2 DEF PassedAreSeen
    <3>4. QED
      BY <1>2, <3>1, <3>3 DEF InventoryInv, AloneInv, at
  <2>3. QED
    BY <2>1, <2>2 DEF InventoryInv
<1>3. ASSUME NEW i \in Items, AddItem(i) \/ RemoveItem(i) \/ Play(i)
      PROVE  InventoryInv'
  <2>1. Play(i) => UNCHANGED <<library, item, round>> /\ played' \subseteq Items
    BY DEF Play, InventoryInv, InventoryTyped
  <2>2. QED
    BY <1>2, <1>3, <2>1, AddKeeps, RemoveKeeps
<1>4. CASE UNCHANGED inventoryVars
  <2>1. UNCHANGED <<library, item, round, played>>
    BY <1>4 DEF inventoryVars, libraryVars
  <2>2. QED
    BY <1>2, <2>1 DEF InventoryInv, InventoryTyped
<1>5. QED
  BY <1>1, <1>3, <1>4 DEF InventoryNext

\* The step that completes an inventory.
CompletesExact ==
  \A p \in Rounds :
    Completes(p) /\ round[p].held # NoRow /\ round[p].alone =>
      round[p].held \subseteq present' /\ present' \subseteq library'

\* A round that completes alone has passed every section: what it holds has its stamp,
\* and what has not its stamp is retired.
LEMMA CompletionIsExact ==
  ASSUME InventoryInv, [InventoryNext]_inventoryVars
  PROVE  CompletesExact
<1>. SUFFICES ASSUME NEW p \in Rounds, Completes(p), round[p].alone
              PROVE  round[p].held \subseteq present' /\ present' \subseteq library'
  BY DEF CompletesExact
<1>1. /\ InventoryTyped /\ at(p, "paging") /\ round[p].section > Len(Shelves)
      /\ round'[p].stage = "enriching" /\ ~round[p].failed /\ round'[p] # round[p]
  BY DEF InventoryInv, Completes, listed, at
<1>2. /\ round[p] \in PagingRound /\ round[p].section \in Nat \ {0} /\ round[p] # NoRound
  BY <1>1, RoundTyped DEF PagingRound
<1>3. /\ round[Other(p)] = NoRound /\ round[p].now = 3 /\ round[p].held \in SUBSET library
      /\ SeenAreThere /\ PassedAreSeen(p)
  BY <1>1 DEF InventoryInv, AloneInv
<1>4. /\ Shelves \in Seq(Seq(Nat)) /\ DOMAIN Shelves = 1..Len(Shelves) /\ Len(Shelves) \in Nat
  <2>1. Shelves \in Seq(Seq(Nat))
    BY InventoryAssumption
  <2>2. QED
    BY <2>1
<1>5. Complete(p) \/ SectionsFail(p)
  <2>1. PICK q \in Rounds :
          BeginRound(q) \/ RoundStep(q) \/ PageFails(q) \/ SectionsFail(q) \/ EnrichFails(q) \/ Crash(q)
    <3>1. ~UNCHANGED inventoryVars
      BY <1>1 DEF inventoryVars
    <3>2. ASSUME NEW i \in Items
          PROVE  ~AddItem(i) /\ ~Play(i) /\ ~RemoveItem(i)
      <4>1. ~AddItem(i) /\ ~Play(i)
        BY <1>1 DEF AddItem, Play
      <4>2. RemoveItem(i) => round'[p] = disturbed(round[p])
        BY <1>1 DEF RemoveItem
      <4>3. disturbed(round[p]).stage = "paging"
        BY <1>2 DEF disturbed, PagingRound
      <4>4. QED
        BY <1>1, <4>1, <4>2, <4>3
    <3>3. QED
      BY <3>1, <3>2 DEF InventoryNext
  <2>2. CASE q # p
    <3>1. q = Other(p) /\ Other(q) = p
      BY <2>2 DEF Rounds, Other
    <3>2. round[q] = NoRound
      BY <1>3, <3>1
    <3>3. BeginRound(q)
      BY <2>1, <3>2
      DEF RoundStep, KeepItems, Complete, AskBatch, BatchAnswered, BatchStalls, AskSingly, PageFails,
          SectionsFail, EnrichFails, Crash, at, listed, listingNow, NoRound
    <3>4. round'[p] = [round[p] EXCEPT !.now = 1, !.alone = FALSE]
      BY <1>1, <1>2, <3>1, <3>3 DEF BeginRound
    <3>5. [round[p] EXCEPT !.now = 1, !.alone = FALSE].stage = "paging"
      BY <1>2 DEF PagingRound
    <3>6. QED
      BY <1>1, <3>4, <3>5
  <2>3. CASE q = p
    <3>1. ~BeginRound(p) /\ ~PageFails(p) /\ ~KeepItems(p)
      <4>1. ~(round[p].section <= Len(Shelves))
        BY <1>1, <1>2, <1>4
      <4>2. ~PageFails(p) /\ ~KeepItems(p)
        BY <4>1 DEF PageFails, KeepItems, listingNow
      <4>3. QED
        BY <1>2, <4>2 DEF BeginRound
    <3>2. ~AskBatch(p) /\ ~BatchAnswered(p) /\ ~BatchStalls(p) /\ ~AskSingly(p) /\ ~EnrichFails(p)
      BY <1>1 DEF AskBatch, BatchAnswered, BatchStalls, AskSingly, EnrichFails, at
    <3>3. ~Crash(p)
      BY <1>1 DEF Crash, InventoryTyped, NoRound
    <3>4. QED
      BY <2>1, <2>3, <3>1, <3>2, <3>3 DEF RoundStep
  <2>4. QED
    BY <2>2, <2>3
<1>6. CASE SectionsFail(p)
  <2>1. Len(Shelves) = 0
    BY <1>1, <1>2, <1>4, <1>6 DEF SectionsFail
  <2>2. Items = {}
    BY <1>4, <2>1 DEF Items
  <2>3. QED
    BY <1>1, <1>3, <2>2 DEF InventoryTyped, present
<1>7. CASE Complete(p)
  <2>1. library' = library /\ item' = retireUnseenItems(item, 3)
    BY <1>1, <1>3, <1>7 DEF Complete, libraryVars
  <2>2. ASSUME NEW i \in Items
        PROVE  /\ item[i] = Row(TRUE, 3) => item'[i] # NoRow /\ item'[i].present
               /\ item'[i] # NoRow /\ item'[i].present => i \in library
    <3>1. item[i] = NoRow \/ item[i] \in ItemRow
      BY <1>1 DEF InventoryTyped
    <3>2. item'[i] = IF item[i] # NoRow /\ item[i].seen < 3 THEN Row(FALSE, item[i].seen) ELSE item[i]
      BY <2>1 DEF retireUnseenItems
    <3>3. CASE item[i] = NoRow
      <4>1. Row(TRUE, 3) \in [present : BOOLEAN, seen : 0..3]
        BY DEF Row
      <4>2. QED
        BY <3>2, <3>3, <4>1, InventoryAssumption
    <3>4. CASE item[i] # NoRow /\ item[i].seen < 3
      BY <3>2, <3>4 DEF Row
    <3>5. CASE item[i] # NoRow /\ ~(item[i].seen < 3)
      <4>1. item[i].seen = 3 /\ item'[i] = item[i]
        BY <3>1, <3>2, <3>5 DEF ItemRow
      <4>2. QED
        BY <1>3, <3>5, <4>1 DEF SeenAreThere
    <3>6. QED
      BY <3>3, <3>4, <3>5
  <2>3. ASSUME NEW i \in round[p].held
        PROVE  i \in Items /\ item[i] = Row(TRUE, 3)
    <3>1. i \in library /\ i \in Items
      BY <1>1, <1>3 DEF InventoryTyped
    <3>2. PICK s \in DOMAIN Shelves : \E n \in DOMAIN Shelves[s] : Shelves[s][n] = i
      BY <3>1 DEF Items
    <3>3. s < round[p].section /\ i \in Shelf(library, s)
      BY <1>1, <1>2, <1>4, <3>1, <3>2 DEF Shelf
    <3>4. QED
      BY <1>3, <3>1, <3>3 DEF PassedAreSeen, Passed
  <2>4. QED
    BY <2>1, <2>2, <2>3 DEF present
<1>8. QED
  BY <1>5, <1>6, <1>7

---------------------------------------------------------------------------
\* The rule over the ledger.

RoundStages == {"idle", "paging", "enriching", "paged", "listing", "inventory", "last"}
LedgerRound ==
  [at : RoundStages, excluded : SUBSET Sections, since : Int, next : Int, inventory : BOOLEAN,
   alone : BOOLEAN, held : SUBSET Nat, had : SUBSET Nat]
ServerRow == [cursor : Nat, history_ok : BOOLEAN, library_ok : BOOLEAN]
LedgerTyped ==
  /\ ledger \in Seq(Titles)
  /\ DOMAIN sections \subseteq Sections
  /\ stored \subseteq Plays
  /\ server \in ServerRow
  /\ rounds \in [Makers -> LedgerRound]

\* A pass under way, or just over, that no other round has been beside.
InPass(m) == rounds[m].at \in {"paging", "enriching", "paged"} /\ rounds[m].alone

\* What such a pass has read is stored, but for what its marks exclude; and nothing it
\* added names a library they exclude.
ReadIsStored(m) ==
  \A n \in rounds[m].held :
    n >= rounds[m].since /\ (rounds[m].at = "paging" => n < rounds[m].next) =>
      n \in stored \/ namedBy(n) \in rounds[m].excluded
AddedIsKept(m) ==
  \A n \in stored \ rounds[m].had : namedBy(n) = NoSection \/ namedBy(n) \notin rounds[m].excluded

\* The inductive invariant. While the pass is alone, only its own pages write the plays.
PassObeys(m) ==
  InPass(m) =>
    /\ rounds[Other(m)].at = "idle"
    /\ rounds[m].held \subseteq Plays
    /\ ReadIsStored(m) /\ AddedIsKept(m)
LedgerInv == LedgerTyped /\ \A m \in Makers : PassObeys(m)

LEMMA TwoMakers ==
  /\ \A m \in Makers : Other(m) \in Makers /\ Other(m) # m /\ Other(Other(m)) = m
  /\ \A m, q \in Makers : q = m \/ q = Other(m)
  /\ \A m \in Makers : (CHOOSE q \in Makers : q # m) = Other(m)
BY DEF Makers, Other

\* No library a rule excludes is number zero, which stands for none.
LEMMA NoneIsExcluded ==
  /\ \A rule : excludedSections(rule) \subseteq Sections
  /\ NoSection \notin Sections
BY LedgerAssumption DEF excludedSections, Sections, NoSection

LEMMA RoundIsTyped ==
  ASSUME LedgerTyped, NEW m \in Makers
  PROVE  /\ rounds[m] \in LedgerRound /\ rounds[m].at \in RoundStages
         /\ rounds[m].since \in Int /\ rounds[m].next \in Int
         /\ rounds[m].held \subseteq Nat
BY DEF LedgerTyped, LedgerRound

LEMMA IdleIsRound == Idle \in LedgerRound /\ Idle.at = "idle"
BY DEF Idle, LedgerRound, RoundStages

\* While a round is under way, the other is not alone.
LEMMA BesideIsNotAlone ==
  ASSUME LedgerInv, NEW who \in Makers, rounds[who].at # "idle",
         rounds'[Other(who)] = rounds[Other(who)]
  PROVE  PassObeys(Other(who))'
<1>1. Other(who) \in Makers /\ Other(Other(who)) = who
  BY TwoMakers
<1>2. ~InPass(Other(who))
  BY <1>1 DEF LedgerInv, PassObeys
<1>3. QED
  BY <1>2 DEF PassObeys, InPass

\* A step that finds a round out of its pass, or takes it out.
LEMMA OutOfPass ==
  ASSUME LedgerInv, NEW who \in Makers, rounds[who].at # "idle",
         NEW x \in LedgerRound, x.at \notin {"paging", "enriching", "paged"},
         rounds' = [rounds EXCEPT ![who] = x], ledger' = ledger,
         stored' \subseteq stored, DOMAIN sections' \subseteq Sections, server' \in ServerRow
  PROVE  LedgerInv'
<1>1. LedgerTyped
  BY DEF LedgerInv
<1>2. rounds'[who] = x /\ rounds'[Other(who)] = rounds[Other(who)]
  BY <1>1, TwoMakers DEF LedgerTyped
<1>3. LedgerTyped'
  BY <1>1 DEF LedgerTyped, Plays
<1>4. PassObeys(who)'
  BY <1>2 DEF PassObeys, InPass
<1>5. PassObeys(Other(who))'
  BY <1>2, BesideIsNotAlone
<1>6. QED
  BY <1>3, <1>4, <1>5, TwoMakers DEF LedgerInv

\* A server's row takes its marks.
LEMMA ServerMarked ==
  ASSUME LedgerTyped, NEW ok \in BOOLEAN
  PROVE  /\ markHistory(ok) => server' \in ServerRow
         /\ markLibrary(ok) => server' \in ServerRow
BY DEF LedgerTyped, markHistory, markLibrary, ServerRow

\* A round begins with nothing read, and puts an end to the other's being alone.
LEMMA SyncBegins ==
  ASSUME LedgerInv, NEW who \in Makers, syncHistory(who)
  PROVE  LedgerInv'
<1>. DEFINE since == IF server.cursor = 0 THEN lookback ELSE server.cursor - LedgerOverlap
            other == Other(who)
            r(inventory) ==
              [at |-> "paging", excluded |-> excludedSectionIds, since |-> since, next |-> Max({since, 1}),
               inventory |-> inventory, alone |-> rounds[other].at = "idle", held |-> Plays, had |-> stored]
<1>1. /\ rounds[who].at = "idle" /\ UNCHANGED <<ledger, sections, stored, server>>
      /\ \E inventory \in {TRUE, who = "hand"} :
           rounds' = [m \in Makers |-> IF m # who THEN beside(rounds[m]) ELSE r(inventory)]
  BY TwoMakers, Zenon DEF syncHistory, roundOf
<1>2. LedgerTyped /\ other \in Makers /\ other # who
  BY TwoMakers DEF LedgerInv
<1>3. PICK inventory \in BOOLEAN :
        rounds' = [m \in Makers |-> IF m # who THEN beside(rounds[m]) ELSE r(inventory)]
  BY <1>1
<1>4. since \in Int
  BY <1>2, LedgerAssumption DEF LedgerTyped, ServerRow, lookback
<1>5. /\ Max({since, 1}) \in Int
      /\ \A n \in Nat \ {0} : n >= since => ~(n < Max({since, 1}))
  <2>1. {since, 1} \in SUBSET Int /\ \E n \in Int : \A t \in {since, 1} : t <= n
    BY <1>4
  <2>2. Max({since, 1}) \in {since, 1}
    BY <2>1, NewestIsOne
  <2>. HIDE DEF since
  <2>3. QED
    BY <1>4, <2>2
<1>6. Plays \subseteq Nat \ {0} /\ stored \subseteq Plays
  <2>1. ledger \in Seq(Titles)
    BY <1>2 DEF LedgerTyped
  <2>2. DOMAIN ledger \subseteq Nat \ {0}
    BY <2>1
  <2>3. QED
    BY <1>2, <2>2 DEF LedgerTyped, Plays
<1>7. excludedSectionIds \subseteq Sections
  BY <1>2 DEF excludedSectionIds, LedgerTyped
<1>. DEFINE x == r(inventory)
<1>8. /\ x.at = "paging" /\ x.since = since /\ x.next = Max({since, 1}) /\ x.held = Plays /\ x.had = stored
      /\ x.alone = (rounds[other].at = "idle")
  OBVIOUS
<1>9. x \in LedgerRound
  BY <1>4, <1>5, <1>6, <1>7 DEF LedgerRound, RoundStages
<1>10. /\ beside(rounds[other]) \in LedgerRound
       /\ rounds[other].at = "idle" => beside(rounds[other]) = rounds[other]
       /\ rounds[other].at # "idle" => beside(rounds[other]).alone = FALSE
  <2>1. rounds[other] \in LedgerRound
    BY <1>2, RoundIsTyped
  <2>2. ASSUME NEW y \in LedgerRound
        PROVE  [y EXCEPT !.alone = FALSE] \in LedgerRound /\ [y EXCEPT !.alone = FALSE].alone = FALSE
    BY DEF LedgerRound
  <2>3. QED
    BY <2>1, <2>2 DEF beside
<1>. HIDE DEF r, x, since
<1>11. rounds'[who] = x /\ rounds'[other] = beside(rounds[other])
  BY <1>2, <1>3 DEF x
<1>12. LedgerTyped'
  <2>1. rounds' \in [Makers -> LedgerRound]
    BY <1>2, <1>3, <1>9, <1>10, <1>11, TwoMakers
  <2>2. QED
    BY <1>1, <1>2, <2>1 DEF LedgerTyped, Plays
<1>13. PassObeys(other)'
  BY <1>10, <1>11 DEF PassObeys, InPass
<1>14. PassObeys(who)'
  <2>1. ReadIsStored(who)'
    BY <1>5, <1>6, <1>8, <1>11 DEF ReadIsStored
  <2>2. AddedIsKept(who)'
    BY <1>1, <1>8, <1>11 DEF AddedIsKept
  <2>3. InPass(who)' => rounds'[other].at = "idle"
    BY <1>8, <1>10, <1>11 DEF InPass
  <2>4. rounds'[who].held \subseteq Plays'
    BY <1>1, <1>8, <1>11 DEF Plays
  <2>5. QED
    BY <2>1, <2>2, <2>3, <2>4 DEF PassObeys
<1>15. QED
  BY <1>12, <1>13, <1>14, TwoMakers DEF LedgerInv

\* A page stores what its marks do not exclude, and the next begins where it ends.
LEMMA HistoryPageKeeps ==
  ASSUME LedgerInv, NEW who \in Makers, pageHistory(who)
  PROVE  LedgerInv'
<1>. DEFINE r == rounds[who]
            x == IF lastPageOf(who)
                 THEN [r EXCEPT !.at = IF r.inventory THEN "paged" ELSE "enriching"]
                 ELSE [r EXCEPT !.next = r.next + LedgerPage]
<1>1. /\ r.at = "paging" /\ stored' = stored \union keptOf(who)
      /\ server' = IF pageOf(who) = {} THEN server ELSE [server EXCEPT !.cursor = Max(pageOf(who))]
      /\ rounds' = [rounds EXCEPT ![who] = x]
      /\ UNCHANGED <<ledger, sections>>
  BY DEF pageHistory, roundOf, Set
<1>2. LedgerTyped /\ PassObeys(who)
  BY DEF LedgerInv
<1>3. /\ r \in LedgerRound /\ r.since \in Int /\ r.next \in Int /\ r.held \subseteq Nat
      /\ LedgerPage \in Nat \ {0}
  BY <1>2, RoundIsTyped, LedgerAssumption
<1>4. (\A t \in Plays : t \in Nat) /\ \E n \in Int : \A t \in Plays : t <= n
  <2>1. ledger \in Seq(Titles)
    BY <1>2 DEF LedgerTyped
  <2>2. DOMAIN ledger = 1..Len(ledger) /\ Len(ledger) \in Nat
    BY <2>1
  <2>3. QED
    BY <2>2 DEF Plays
<1>5. server' \in ServerRow
  <2>1. CASE pageOf(who) = {}
    BY <1>1, <1>2, <2>1 DEF LedgerTyped
  <2>2. CASE pageOf(who) # {}
    <3>1. pageOf(who) \subseteq Plays
      BY DEF pageOf
    <3>2. PICK n \in Int : \A t \in Plays : t <= n
      BY <1>4
    <3>. DEFINE T == pageOf(who)
    <3>. HIDE DEF T
    <3>3. T \in SUBSET Int /\ \A t \in T : t <= n
      <4>1. \A t \in T : t \in Plays
        BY <3>1 DEF T
      <4>2. \A t \in T : t \in Int /\ t <= n
        BY <1>4, <3>2, <4>1
      <4>3. QED
        BY <4>2
    <3>4. Max(T) \in T
      BY <2>2, <3>2, <3>3, NewestIsOne DEF T
    <3>5. Max(T) \in Nat
      BY <1>4, <3>1, <3>4 DEF T
    <3>6. QED
      BY <1>1, <1>2, <2>2, <3>5 DEF LedgerTyped, ServerRow, T
  <2>3. QED
    BY <2>1, <2>2
<1>6. /\ x \in LedgerRound /\ x.since = r.since /\ x.held = r.held /\ x.had = r.had
      /\ x.excluded = r.excluded /\ x.alone = r.alone
      /\ lastPageOf(who) => x.at # "paging"
      /\ ~lastPageOf(who) => x.at = "paging" /\ x.next = r.next + LedgerPage
  <2>1. CASE lastPageOf(who)
    <3>1. PICK stage \in {"paged", "enriching"} : x = [r EXCEPT !.at = stage]
      BY <2>1
    <3>. HIDE DEF x, r
    <3>2. QED
      BY <1>3, <2>1, <3>1 DEF LedgerRound, RoundStages
  <2>2. CASE ~lastPageOf(who)
    <3>1. x = [r EXCEPT !.next = r.next + LedgerPage]
      BY <2>2
    <3>. HIDE DEF x, r
    <3>2. QED
      BY <1>1, <1>3, <2>2, <3>1 DEF LedgerRound
  <2>3. QED
    BY <2>1, <2>2
<1>. HIDE DEF x, r
<1>7. rounds'[who] = x /\ rounds'[Other(who)] = rounds[Other(who)]
  BY <1>1, <1>2, TwoMakers DEF LedgerTyped
<1>8. LedgerTyped'
  <2>1. rounds' \in [Makers -> LedgerRound]
    BY <1>1, <1>2, <1>6 DEF LedgerTyped
  <2>2. stored' \subseteq Plays'
    BY <1>1, <1>2 DEF LedgerTyped, Plays, keptOf, pageOf
  <2>3. QED
    BY <1>1, <1>2, <1>5, <2>1, <2>2 DEF LedgerTyped
<1>9. PassObeys(Other(who))'
  BY <1>1, <1>7, BesideIsNotAlone DEF r
<1>10. PassObeys(who)'
  <2>. SUFFICES ASSUME r.alone
                PROVE  /\ rounds'[Other(who)].at = "idle" /\ x.held \subseteq Plays'
                       /\ ReadIsStored(who)' /\ AddedIsKept(who)'
    BY <1>6, <1>7 DEF PassObeys, InPass
  <2>1. /\ rounds[Other(who)].at = "idle" /\ r.held \subseteq Plays
        /\ ReadIsStored(who) /\ AddedIsKept(who)
    BY <1>1, <1>2 DEF PassObeys, InPass, r
  <2>2. \A n : namedBy(n)' = namedBy(n)
    BY <1>1 DEF namedBy
  <2>3. ASSUME NEW n \in r.held, n >= r.since, x.at = "paging" => n < x.next
        PROVE  n \in stored' \/ namedBy(n) \in r.excluded
    <3>1. n \in Nat /\ n \in Plays
      BY <1>3, <2>1
    <3>2. CASE n < r.next
      BY <1>1, <2>1, <2>3, <3>2 DEF ReadIsStored, r
    <3>3. CASE ~(n < r.next)
      <4>1. n \in r.next..(r.next + LedgerPage - 1)
        <5>1. n <= r.next + LedgerPage - 1
          BY <1>3, <1>6, <2>3, <3>1 DEF lastPageOf, roundOf, r
        <5>2. QED
          BY <1>3, <3>1, <3>3, <5>1
      <4>2. n \in pageOf(who)
        BY <3>1, <4>1 DEF pageOf, roundOf, r
      <4>3. QED
        BY <1>1, <4>2 DEF keptOf, roundOf, r
    <3>4. QED
      BY <3>2, <3>3
  <2>4. ReadIsStored(who)'
    BY <1>6, <1>7, <2>2, <2>3 DEF ReadIsStored
  <2>5. AddedIsKept(who)'
    BY <1>1, <1>6, <1>7, <2>1, <2>2 DEF AddedIsKept, keptOf, roundOf, r
  <2>6. QED
    BY <1>1, <1>6, <1>7, <2>1, <2>4, <2>5 DEF Plays
<1>11. QED
  BY <1>8, <1>9, <1>10, TwoMakers DEF LedgerInv

\* The enrichment writes no play.
LEMMA EnrichmentKeeps ==
  ASSUME LedgerInv, NEW who \in Makers, enrichItems(who)
  PROVE  LedgerInv'
<1>1. /\ rounds[who].at \in {"enriching", "last"}
      /\ UNCHANGED <<ledger, sections, stored, server>>
      /\ rounds' = [rounds EXCEPT ![who] = IF rounds[who].at = "last" THEN Idle
                                           ELSE [rounds[who] EXCEPT !.at = "paged"]]
  BY DEF enrichItems, roundOf, Set
<1>2. LedgerTyped /\ PassObeys(who) /\ DOMAIN sections \subseteq Sections /\ server \in ServerRow
  BY DEF LedgerInv, LedgerTyped
<1>3. CASE rounds[who].at = "last"
  BY <1>1, <1>2, <1>3, IdleIsRound, OutOfPass
<1>4. CASE rounds[who].at = "enriching"
  <2>. DEFINE x == [rounds[who] EXCEPT !.at = "paged"]
  <2>1. rounds[who] \in LedgerRound
    BY <1>2, RoundIsTyped
  <2>2. /\ x \in LedgerRound /\ x.at = "paged" /\ x.since = rounds[who].since /\ x.held = rounds[who].held
        /\ x.had = rounds[who].had /\ x.excluded = rounds[who].excluded /\ x.alone = rounds[who].alone
    BY <2>1 DEF LedgerRound, RoundStages
  <2>3. rounds' = [rounds EXCEPT ![who] = x]
    BY <1>1, <1>4
  <2>. HIDE DEF x
  <2>4. rounds'[who] = x /\ rounds'[Other(who)] = rounds[Other(who)]
    BY <1>2, <2>3, TwoMakers DEF LedgerTyped
  <2>5. LedgerTyped'
    BY <1>1, <1>2, <2>2, <2>3 DEF LedgerTyped, Plays
  <2>6. PassObeys(who)'
    <3>1. \A n : namedBy(n)' = namedBy(n)
      BY <1>1 DEF namedBy
    <3>2. InPass(who)' => InPass(who)
      BY <1>4, <2>2, <2>4 DEF InPass
    <3>3. ReadIsStored(who) => ReadIsStored(who)'
      BY <1>1, <1>4, <2>2, <2>4, <3>1 DEF ReadIsStored
    <3>4. AddedIsKept(who) => AddedIsKept(who)'
      BY <1>1, <2>2, <2>4, <3>1 DEF AddedIsKept
    <3>5. QED
      BY <1>1, <1>2, <2>2, <2>4, <3>2, <3>3, <3>4 DEF PassObeys, Plays
  <2>7. PassObeys(Other(who))'
    BY <1>4, <2>4, BesideIsNotAlone
  <2>8. QED
    BY <2>5, <2>6, <2>7, TwoMakers DEF LedgerInv
<1>5. QED
  BY <1>1, <1>3, <1>4

\* What comes after the pass, and what cuts it short.
LEMMA LaterStepsKeep ==
  ASSUME LedgerInv, NEW who \in Makers,
         historyPassed(who) \/ listSections(who) \/ syncLibrary(who) \/ Fails(who)
  PROVE  LedgerInv'
<1>1. /\ LedgerTyped /\ DOMAIN sections \subseteq Sections /\ server \in ServerRow
      /\ rounds[who] \in LedgerRound
  BY RoundIsTyped DEF LedgerInv, LedgerTyped
<1>2. ASSUME NEW y \in LedgerRound, NEW stage \in RoundStages
      PROVE  [y EXCEPT !.at = stage] \in LedgerRound /\ [y EXCEPT !.at = stage].at = stage
  BY DEF LedgerRound
<1>3. CASE historyPassed(who)
  <2>. DEFINE x == IF rounds[who].inventory THEN [rounds[who] EXCEPT !.at = "listing"] ELSE Idle
  <2>1. /\ rounds[who].at # "idle" /\ rounds' = [rounds EXCEPT ![who] = x]
        /\ UNCHANGED <<ledger, sections, stored>> /\ server' \in ServerRow
    BY <1>1, <1>3, ServerMarked DEF historyPassed, roundOf, Set
  <2>2. x \in LedgerRound /\ x.at \in {"listing", "idle"}
    BY <1>1, <1>2, IdleIsRound DEF RoundStages
  <2>. HIDE DEF x
  <2>3. QED
    BY <1>1, <2>1, <2>2, OutOfPass
<1>4. CASE listSections(who)
  <2>. DEFINE y == [rounds[who] EXCEPT !.at = "inventory"]
              excluded == excludedSections(folders)
              x == [rounds[who] EXCEPT !.at = "inventory", !.excluded = excluded]
  <2>1. /\ rounds[who].at # "idle" /\ rounds' = [rounds EXCEPT ![who] = x] /\ UNCHANGED <<ledger, server>>
    BY <1>4 DEF listSections, roundOf, Set
  <2>2. stored' \subseteq stored /\ DOMAIN sections' = Sections
    BY <1>4 DEF listSections, purgeExcluded, upsertSections
  <2>3. excluded \subseteq Sections
    BY NoneIsExcluded
  <2>. HIDE DEF excluded
  <2>4. x \in LedgerRound /\ x.at = "inventory"
    BY <1>1, <2>3 DEF LedgerRound, RoundStages
  <2>. HIDE DEF x
  <2>5. QED
    BY <1>1, <2>1, <2>2, <2>4, OutOfPass
<1>5. CASE syncLibrary(who)
  <2>1. /\ rounds[who].at # "idle" /\ rounds' = [rounds EXCEPT ![who] = [rounds[who] EXCEPT !.at = "last"]]
        /\ UNCHANGED <<ledger, sections, stored>> /\ server' \in ServerRow
    BY <1>1, <1>5, ServerMarked DEF syncLibrary, roundOf, Set
  <2>2. [rounds[who] EXCEPT !.at = "last"] \in LedgerRound /\ [rounds[who] EXCEPT !.at = "last"].at = "last"
    BY <1>1, <1>2 DEF RoundStages
  <2>3. QED
    BY <1>1, <2>1, <2>2, OutOfPass
<1>6. CASE Fails(who)
  <2>1. PICK x \in {Idle, [rounds[who] EXCEPT !.at = "last"]} :
          /\ rounds[who].at # "idle" /\ rounds' = [rounds EXCEPT ![who] = x]
          /\ UNCHANGED <<ledger, sections, stored>> /\ server' \in ServerRow
    <3>1. UNCHANGED <<ledger, sections, stored>>
      BY <1>6 DEF Fails
    <3>2. CASE rounds[who].at \in {"paging", "enriching"} /\ markHistory(FALSE) /\ Set(who, Idle)
      BY <1>1, <3>1, <3>2, ServerMarked DEF Set
    <3>3. CASE /\ rounds[who].at \in {"listing", "inventory"}
               /\ markLibrary(FALSE) /\ Set(who, [rounds[who] EXCEPT !.at = "last"])
      BY <1>1, <3>1, <3>3, ServerMarked DEF Set
    <3>4. CASE rounds[who].at = "last" /\ Set(who, Idle) /\ UNCHANGED server
      BY <1>1, <3>1, <3>4 DEF Set
    <3>5. QED
      BY <1>6, <3>2, <3>3, <3>4 DEF Fails, roundOf
  <2>2. x \in LedgerRound /\ x.at \in {"idle", "last"}
    <3>1. /\ [rounds[who] EXCEPT !.at = "last"] \in LedgerRound
          /\ [rounds[who] EXCEPT !.at = "last"].at = "last"
      BY <1>1, <1>2 DEF RoundStages
    <3>2. x = Idle \/ x = [rounds[who] EXCEPT !.at = "last"]
      OBVIOUS
    <3>3. QED
      BY <3>1, <3>2, IdleIsRound
  <2>3. QED
    BY <1>1, <2>1, <2>2, OutOfPass
<1>7. QED
  BY <1>3, <1>4, <1>5, <1>6

\* The collector starts again with no round by hand beside it: none is in its pass.
LEMMA RestartKeeps ==
  ASSUME LedgerInv, LedgerRestart
  PROVE  LedgerInv'
<1>1. /\ rounds["hand"].at = "idle" /\ rounds' = [rounds EXCEPT !["loop"] = Idle]
      /\ UNCHANGED <<ledger, sections, stored, server>>
  BY DEF LedgerRestart, Set
<1>2. LedgerTyped
  BY DEF LedgerInv
<1>3. \A m \in Makers : rounds'[m] \in LedgerRound /\ rounds'[m].at = "idle"
  BY <1>1, <1>2, IdleIsRound DEF LedgerTyped, Makers
<1>4. LedgerTyped'
  BY <1>1, <1>2, IdleIsRound DEF LedgerTyped, Plays
<1>5. QED
  BY <1>3, <1>4 DEF LedgerInv, PassObeys, InPass

\* A play that is completed is one no pass under way has to have read.
LEMMA ViewedKeeps ==
  ASSUME LedgerInv, Viewed
  PROVE  LedgerInv'
<1>1. PICK t \in Titles : ledger' = Append(ledger, t)
  BY DEF Viewed
<1>2. UNCHANGED <<sections, stored, server, rounds>> /\ LedgerTyped
  BY DEF Viewed, LedgerInv
<1>3. ledger' \in Seq(Titles) /\ Plays \subseteq Plays' /\ \A n \in Plays : ledger'[n] = ledger[n]
  BY <1>1, <1>2 DEF LedgerTyped, Plays
<1>4. LedgerTyped'
  BY <1>2, <1>3 DEF LedgerTyped
<1>5. \A n \in Plays : namedBy(n)' = namedBy(n)
  BY <1>3 DEF namedBy
<1>6. ASSUME NEW m \in Makers, InPass(m)
      PROVE  PassObeys(m)'
  <2>1. /\ rounds[Other(m)].at = "idle" /\ rounds[m].held \subseteq Plays
        /\ ReadIsStored(m) /\ AddedIsKept(m)
    BY <1>6 DEF LedgerInv, PassObeys
  <2>2. ReadIsStored(m)'
    BY <1>2, <1>5, <2>1 DEF ReadIsStored
  <2>3. AddedIsKept(m)'
    BY <1>2, <1>5, <2>1 DEF AddedIsKept, LedgerTyped
  <2>4. QED
    BY <1>2, <1>3, <2>1, <2>2, <2>3 DEF PassObeys
<1>7. \A m \in Makers : PassObeys(m)'
  BY <1>2, <1>6 DEF PassObeys, InPass
<1>8. QED
  BY <1>4, <1>7 DEF LedgerInv

LEMMA LedgerStarts == LedgerInit => LedgerInv
<1>. SUFFICES ASSUME LedgerInit PROVE LedgerInv
  OBVIOUS
<1>1. /\ ledger = <<>> /\ sections = <<>> /\ stored = {} /\ rounds = [m \in Makers |-> Idle]
      /\ server = [cursor |-> 0, history_ok |-> FALSE, library_ok |-> FALSE]
  BY DEF LedgerInit
<1>2. server \in ServerRow
  BY <1>1 DEF ServerRow
<1>3. ledger \in Seq(Titles) /\ DOMAIN sections = {}
  BY <1>1
<1>4. LedgerTyped
  BY <1>1, <1>2, <1>3, IdleIsRound DEF LedgerTyped
<1>5. QED
  BY <1>1, <1>4, IdleIsRound DEF LedgerInv, PassObeys, InPass

LEMMA LedgerKeeps == LedgerInv /\ [LedgerNext]_ledgerVars => LedgerInv'
<1>. SUFFICES ASSUME LedgerInv, [LedgerNext]_ledgerVars PROVE LedgerInv'
  OBVIOUS
<1>1. ASSUME NEW who \in Makers,
             \/ syncHistory(who) \/ pageHistory(who) \/ enrichItems(who) \/ historyPassed(who)
             \/ listSections(who) \/ syncLibrary(who) \/ Fails(who)
      PROVE  LedgerInv'
  BY <1>1, SyncBegins, HistoryPageKeeps, EnrichmentKeeps, LaterStepsKeep
<1>2. CASE UNCHANGED ledgerVars
  <2>1. UNCHANGED <<ledger, sections, stored, server, rounds>>
    BY <1>2 DEF ledgerVars
  <2>2. LedgerTyped'
    BY <2>1 DEF LedgerInv, LedgerTyped, Plays
  <2>3. \A m \in Makers : PassObeys(m)'
    BY <2>1 DEF LedgerInv, PassObeys, InPass, ReadIsStored, AddedIsKept, namedBy, Plays
  <2>4. QED
    BY <2>2, <2>3 DEF LedgerInv
<1>3. QED
  BY <1>1, <1>2, RestartKeeps, ViewedKeeps DEF LedgerNext

\* A play that names an excluded library is of that library, and so is left out by right.
LEMMA NamedIsOwn ==
  ASSUME LedgerTyped, NEW n \in Plays, NEW rule, namedBy(n) \in excludedSections(rule)
  PROVE  ledger[n].section \in excludedSections(rule)
<1>1. namedBy(n) # NoSection
  BY NoneIsExcluded
<1>2. QED
  BY <1>1 DEF namedBy

LEMMA EveryPassObeys ==
  ASSUME LedgerInv
  PROVE  PassObeysRule
<1>. SUFFICES ASSUME NEW m \in Makers, historyPassed(m), rounds[m].alone,
                     rounds[m].excluded = excludedSections(folders)
              PROVE  /\ {n \in rounds[m].held : n >= rounds[m].since
                           /\ ledger[n].section \notin excludedSections(folders)} \subseteq stored'
                     /\ \A n \in stored' \ rounds[m].had : namedBy(n) \notin excludedSections(folders)
  BY DEF PassObeysRule
<1>1. rounds[m].at = "paged" /\ stored' = stored
  BY DEF historyPassed, roundOf
<1>2. LedgerTyped /\ rounds[m].held \subseteq Plays /\ ReadIsStored(m) /\ AddedIsKept(m)
  BY <1>1 DEF LedgerInv, PassObeys, InPass
<1>3. ASSUME NEW n \in rounds[m].held, n >= rounds[m].since,
             ledger[n].section \notin excludedSections(folders)
      PROVE  n \in stored
  BY <1>1, <1>2, <1>3, NamedIsOwn DEF ReadIsStored
<1>4. ASSUME NEW n \in stored \ rounds[m].had
      PROVE  namedBy(n) \notin excludedSections(folders)
  BY <1>2, NoneIsExcluded DEF AddedIsKept
<1>5. QED
  BY <1>1, <1>3, <1>4

LEMMA EveryPurgeIsExact ==
  ASSUME LedgerInv
  PROVE  PurgeIsExact
<1>. SUFFICES ASSUME NEW m \in Makers, listSections(m)
              PROVE  LET excluded == excludedSections(folders)
                     IN /\ \A n \in stored' : namedBy(n) \notin excluded
                        /\ \A n \in stored \ stored' : ledger[n].section \in excluded
                        /\ excluded = {s \in DOMAIN sections' : sections'[s]}
  BY DEF PurgeIsExact
<1>. DEFINE excluded == excludedSections(folders)
<1>1. /\ sections' = [s \in Sections |-> s \in excluded]
      /\ stored' = {n \in stored : namedBy(n) \notin excluded
                                   /\ ~(ledger[n] \in described /\ ledger[n].section \in excluded)}
  BY DEF listSections, upsertSections, purgeExcluded
<1>2. LedgerTyped /\ stored \subseteq Plays
  BY DEF LedgerInv, LedgerTyped
<1>3. excluded \subseteq Sections
  BY NoneIsExcluded
<1>4. \A n \in stored \ stored' : ledger[n].section \in excluded
  BY <1>1, <1>2, NamedIsOwn
<1>. HIDE DEF excluded
<1>5. excluded = {s \in DOMAIN sections' : sections'[s]}
  BY <1>1, <1>3
<1>6. \A n \in stored' : namedBy(n) \notin excluded
  BY <1>1
<1>7. QED
  BY <1>4, <1>5, <1>6 DEF excluded

---------------------------------------------------------------------------
\* The pages of a listing. A parsed page is a fold: what each row tells, one after the
\* other.

\* A set of naturals has a least element.
LEMMA LeastNatural ==
  ASSUME NEW T, T \subseteq Nat, T # {}
  PROVE  \E x \in T : \A y \in T : x <= y
<1>. DEFINE R == OpToRel(<, Nat)
<1>1. IsWellFoundedOn(R, Nat)
  BY NatLessThanWellFounded
<1>. HIDE DEF R
<1>2. PICK x \in T : \A y \in T : ~(<<y, x>> \in R)
  BY <1>1, WFMin
<1>3. \A y \in T : ~(y < x)
  BY <1>2 DEF R, OpToRel
<1>4. QED
  BY <1>3

\* Of places up to n, n is the greatest.
LEMMA LastPlaceIs ==
  ASSUME NEW n \in Nat, NEW s \in SUBSET (1..n), n \in s
  PROVE  Max(s) = n
<1>1. \A y \in s : n >= y
  OBVIOUS
<1>2. ASSUME NEW x \in s, \A y \in s : x >= y PROVE x = n
  BY <1>2
<1>3. QED
  BY <1>1, <1>2 DEF Max

\* f joins the parts at any of the first n places, in their order.
Joins(f, parts, n) ==
  f = [s \in SUBSET (1..n) |-> IF s = {} THEN <<>> ELSE f[s \ {Max(s)}] \o parts[Max(s)]]

\* There is such a function.
LEMMA JoinsExist ==
  ASSUME NEW parts, NEW len \in Nat
  PROVE  \E f : Joins(f, parts, len)
<1>. DEFINE bad == {n \in Nat : ~\E f : Joins(f, parts, n)}
<1>. SUFFICES ASSUME bad # {} PROVE FALSE
  OBVIOUS
<1>1. PICK m \in bad : \A n \in bad : m <= n
  BY LeastNatural
<1>2. m \in Nat /\ ~\E f : Joins(f, parts, m)
  OBVIOUS
<1>3. CASE m = 0
  <2>. DEFINE f == [s \in SUBSET (1..0) |-> <<>>]
  <2>1. \A s \in SUBSET (1..0) : s = {}
    OBVIOUS
  <2>2. Joins(f, parts, 0)
    BY <2>1 DEF Joins
  <2>3. QED
    BY <1>2, <1>3, <2>2
<1>4. CASE m # 0
  <2>1. m - 1 \in Nat /\ m - 1 \notin bad
    BY <1>1, <1>2, <1>4
  <2>2. PICK g : Joins(g, parts, m - 1)
    BY <2>1
  <2>. DEFINE f == [s \in SUBSET (1..m) |-> IF m \in s THEN g[s \ {m}] \o parts[m] ELSE g[s]]
  <2>3. ASSUME NEW s \in SUBSET (1..m)
        PROVE  f[s] = IF s = {} THEN <<>> ELSE f[s \ {Max(s)}] \o parts[Max(s)]
    <3>1. CASE m \in s
      <4>1. Max(s) = m
        BY <1>2, <3>1, LastPlaceIs
      <4>2. s \ {m} \in SUBSET (1..m) /\ m \notin s \ {m}
        OBVIOUS
      <4>3. f[s \ {m}] = g[s \ {m}]
        BY <4>2
      <4>4. QED
        BY <3>1, <4>1, <4>3
    <3>2. CASE m \notin s
      <4>1. s \in SUBSET (1..(m - 1))
        <5>1. ASSUME NEW y \in s PROVE y \in 1..(m - 1)
          BY <1>2, <3>2
        <5>2. QED
          BY <5>1
      <4>2. \A x : s \ {x} \in SUBSET (1..m) /\ m \notin s \ {x}
        BY <3>2
      <4>3. g[s] = IF s = {} THEN <<>> ELSE g[s \ {Max(s)}] \o parts[Max(s)]
        BY <2>2, <4>1 DEF Joins
      <4>4. f[s] = g[s] /\ f[s \ {Max(s)}] = g[s \ {Max(s)}]
        BY <3>2, <4>2
      <4>5. QED
        BY <4>3, <4>4
    <3>3. QED
      BY <3>1, <3>2
  <2>4. Joins(f, parts, m)
    BY <2>3 DEF Joins
  <2>5. QED
    BY <1>2, <2>4
<1>5. QED
  BY <1>3, <1>4

\* What is joined depends on the parts it joins, and on nothing else.
LEMMA JoinsAgree ==
  ASSUME NEW f, NEW parts, NEW n \in Nat, Joins(f, parts, n),
         NEW g, NEW others, NEW m \in Nat, Joins(g, others, m),
         NEW k \in Nat, k <= n, k <= m, \A i \in 1..k : parts[i] = others[i]
  PROVE  \A s \in SUBSET (1..k) : f[s] = g[s]
<1>. DEFINE bad == {j \in 0..k : \E s \in SUBSET (1..j) : f[s] # g[s]}
<1>. SUFFICES ASSUME bad # {} PROVE FALSE
  OBVIOUS
<1>1. PICK j \in bad : \A i \in bad : j <= i
  <2>1. bad \subseteq Nat
    OBVIOUS
  <2>. HIDE DEF bad
  <2>2. QED
    BY <2>1, LeastNatural
<1>2. PICK s \in SUBSET (1..j) : f[s] # g[s]
  OBVIOUS
<1>3. j \in 0..k /\ s \in SUBSET (1..n) /\ s \in SUBSET (1..m)
  OBVIOUS
<1>4. /\ f[s] = IF s = {} THEN <<>> ELSE f[s \ {Max(s)}] \o parts[Max(s)]
      /\ g[s] = IF s = {} THEN <<>> ELSE g[s \ {Max(s)}] \o others[Max(s)]
  <2>1. f[s] = IF s = {} THEN <<>> ELSE f[s \ {Max(s)}] \o parts[Max(s)]
    BY <1>3, Zenon DEF Joins
  <2>2. g[s] = IF s = {} THEN <<>> ELSE g[s \ {Max(s)}] \o others[Max(s)]
    BY <1>3, Zenon DEF Joins
  <2>3. QED
    BY <2>1, <2>2
<1>5. CASE j = 0
  BY <1>2, <1>4, <1>5
<1>6. CASE j # 0
  <2>1. j - 1 \in 0..k /\ j - 1 \notin bad
    <3>1. j - 1 \in 0..k /\ ~(j <= j - 1)
      BY <1>3, <1>6
    <3>. HIDE DEF bad
    <3>2. j - 1 \notin bad
      BY <1>1, <3>1
    <3>3. QED
      BY <3>1, <3>2
  <2>2. j \in s
    <3>1. ASSUME j \notin s PROVE s \in SUBSET (1..(j - 1))
      BY <1>3, <3>1
    <3>2. QED
      BY <1>2, <2>1, <3>1
  <2>3. Max(s) = j
    BY <1>3, <2>2, LastPlaceIs
  <2>4. s \ {j} \in SUBSET (1..(j - 1))
    <3>1. ASSUME NEW y \in s \ {j} PROVE y \in 1..(j - 1)
      <4>1. j \in Nat /\ y \in 1..j /\ y # j
        BY <1>2, <1>3
      <4>2. QED
        BY <4>1
    <3>2. QED
      BY <3>1
  <2>5. f[s \ {j}] = g[s \ {j}]
    BY <2>1, <2>4
  <2>6. parts[j] = others[j]
    BY <1>3, <1>6
  <2>7. QED
    BY <1>2, <1>4, <2>2, <2>3, <2>5, <2>6
<1>7. QED
  BY <1>5, <1>6

\* The first n parts joined.
Joined(parts, n) == (CHOOSE f : Joins(f, parts, n))[1..n]

\* Whatever joins them gives the same.
LEMMA JoinedIs ==
  ASSUME NEW f, NEW parts, NEW n \in Nat, Joins(f, parts, n)
  PROVE  Joined(parts, n) = f[1..n]
<1>. DEFINE g == CHOOSE g : Joins(g, parts, n)
<1>1. Joins(g, parts, n)
  OBVIOUS
<1>. HIDE DEF g
<1>2. g[1..n] = f[1..n]
  BY <1>1, JoinsAgree
<1>3. QED
  BY <1>2 DEF Joined, g

\* Equal parts, equal joined.
LEMMA JoinedAgree ==
  ASSUME NEW parts, NEW others, NEW n \in Nat, \A i \in 1..n : parts[i] = others[i]
  PROVE  Joined(parts, n) = Joined(others, n)
<1>1. PICK f : Joins(f, parts, n)
  BY JoinsExist
<1>2. PICK g : Joins(g, others, n)
  BY JoinsExist
<1>3. f[1..n] = g[1..n]
  BY <1>1, <1>2, JoinsAgree
<1>4. QED
  BY <1>1, <1>2, <1>3, JoinedIs

\* Nothing joined is nothing, and one part more comes last.
LEMMA JoinedSteps ==
  ASSUME NEW parts
  PROVE  /\ Joined(parts, 0) = <<>>
         /\ \A n \in Nat : Joined(parts, n + 1) = Joined(parts, n) \o parts[n + 1]
<1>1. Joined(parts, 0) = <<>>
  <2>1. PICK f : Joins(f, parts, 0)
    BY JoinsExist
  <2>2. 1..0 = {} /\ 1..0 \in SUBSET (1..0)
    OBVIOUS
  <2>3. f[1..0] = <<>>
    BY <2>1, <2>2 DEF Joins
  <2>4. QED
    BY <2>1, <2>3, JoinedIs
<1>2. ASSUME NEW n \in Nat
      PROVE  Joined(parts, n + 1) = Joined(parts, n) \o parts[n + 1]
  <2>1. PICK f : Joins(f, parts, n + 1)
    BY JoinsExist
  <2>2. PICK g : Joins(g, parts, n)
    BY JoinsExist
  <2>3. /\ 1..(n + 1) \in SUBSET (1..(n + 1)) /\ n + 1 \in 1..(n + 1) /\ n + 1 \in Nat
        /\ (1..(n + 1)) \ {n + 1} = 1..n
    OBVIOUS
  <2>4. Max(1..(n + 1)) = n + 1
    BY <2>3, LastPlaceIs
  <2>5. f[1..(n + 1)] = f[1..n] \o parts[n + 1]
    BY <2>1, <2>3, <2>4 DEF Joins
  <2>6. f[1..n] = g[1..n]
    <3>1. /\ n <= n /\ n <= n + 1 /\ n + 1 \in Nat /\ 1..n \in SUBSET (1..n)
          /\ \A i \in 1..n : parts[i] = parts[i]
      OBVIOUS
    <3>2. \A s \in SUBSET (1..n) : f[s] = g[s]
      BY <2>1, <2>2, <3>1, JoinsAgree, SMT
    <3>3. QED
      BY <3>1, <3>2
  <2>7. QED
    BY <2>1, <2>2, <2>3, <2>5, <2>6, JoinedIs
<1>3. QED
  BY <1>1, <1>2

\* Sequences joined are a sequence, each element of which is a part's.
Strung(S, parts, n) == \A i \in 1..n : parts[i] \in Seq(S)
ComesOf(parts, n) ==
  \A e \in DOMAIN Joined(parts, n) :
    \E i \in 1..n : \E d \in DOMAIN parts[i] : Joined(parts, n)[e] = parts[i][d]

LEMMA JoinedOf ==
  ASSUME NEW S, NEW len \in Nat, NEW parts, Strung(S, parts, len)
  PROVE  Joined(parts, len) \in Seq(S) /\ ComesOf(parts, len)
<1>. USE DEF Strung, ComesOf
<1>. DEFINE Good(n) ==
       /\ Joined(parts, n) \in Seq(S)
       /\ \A e \in DOMAIN Joined(parts, n) :
            \E i \in 1..n : \E d \in DOMAIN parts[i] : Joined(parts, n)[e] = parts[i][d]
     bad == {n \in 0..len : ~Good(n)}
<1>. SUFFICES ASSUME bad # {} PROVE FALSE
  <2>1. len \in 0..len
    OBVIOUS
  <2>2. bad = {} => Good(len)
    BY <2>1
  <2>. QED
    BY <2>2
<1>1. PICK m \in bad : \A n \in bad : m <= n
  <2>1. bad \subseteq Nat
    OBVIOUS
  <2>. HIDE DEF bad
  <2>2. QED
    BY <2>1, LeastNatural
<1>2. m \in 0..len /\ ~Good(m)
  OBVIOUS
<1>3. CASE m = 0
  <2>1. Joined(parts, 0) = <<>> /\ <<>> \in Seq(S) /\ DOMAIN <<>> = {}
    BY JoinedSteps
  <2>2. Good(0)
    BY <2>1
  <2>3. QED
    BY <1>2, <1>3, <2>2
<1>4. CASE m # 0
  <2>0. PICK k \in Nat : k + 1 = m
    <3>1. m - 1 \in Nat /\ (m - 1) + 1 = m
      BY <1>2, <1>4
    <3>2. QED
      BY <3>1
  <2>. DEFINE old == Joined(parts, k)  new == Joined(parts, m)
  <2>1. k \in 0..len /\ m \in 1..len /\ ~(m <= k)
    BY <1>2, <2>0
  <2>2. Good(k)
    BY <1>1, <2>1
  <2>3. new = old \o parts[m] /\ parts[m] \in Seq(S) /\ old \in Seq(S)
    BY <2>0, <2>1, <2>2, JoinedSteps
  <2>. HIDE DEF old, new
  <2>4. new \in Seq(S)
    BY <2>3
  <2>5. ASSUME NEW e \in DOMAIN new
        PROVE  \E i \in 1..m : \E d \in DOMAIN parts[i] : new[e] = parts[i][d]
    <3>1. CASE e \in DOMAIN old
      <4>1. new[e] = old[e]
        BY <2>3, <3>1
      <4>2. PICK i \in 1..k : \E d \in DOMAIN parts[i] : old[e] = parts[i][d]
        BY <2>2, <3>1 DEF old
      <4>3. i \in 1..m
        BY <2>0
      <4>4. QED
        BY <4>1, <4>2, <4>3
    <3>2. CASE e \notin DOMAIN old
      <4>1. e - Len(old) \in DOMAIN parts[m] /\ new[e] = parts[m][e - Len(old)]
        BY <2>3, <2>5, <3>2
      <4>2. QED
        BY <2>1, <4>1
    <3>3. QED
      BY <3>1, <3>2
  <2>6. QED
    BY <1>2, <2>4, <2>5 DEF new
<1>5. QED
  BY <1>3, <1>4

\* Joining is associative.
LEMMA JoiningThree ==
  ASSUME NEW S, NEW a \in Seq(S), NEW b \in Seq(S), NEW c \in Seq(S)
  PROVE  (a \o b) \o c = a \o (b \o c)
<1>. DEFINE u == (a \o b) \o c  v == a \o (b \o c)
<1>1. u \in Seq(S) /\ v \in Seq(S) /\ Len(u) = Len(v)
  OBVIOUS
<1>2. \A i \in 1..Len(u) : u[i] = v[i]
  OBVIOUS
<1>. HIDE DEF u, v
<1>3. u = v
  BY <1>1, <1>2
<1>4. QED
  BY <1>3 DEF u, v

\* A listing's first n rows each tell a sequence of S; a page holds its rows from n on.
Telling(S, parts, n, len) == \A i \in 1..(n + len) : parts[i] \in Seq(S)
PageOf(page, parts, n, len) == \A i \in 1..len : page[i] = parts[n + i]
Split(parts, page, n, len) == Joined(parts, n + len) = Joined(parts, n) \o Joined(page, len)
Begins(past, parts, n) == \A i \in 1..n : past[i] = parts[i]
SplitApart(parts, past, page, n, len) == Joined(parts, n + len) = Joined(past, n) \o Joined(page, len)

\* Joined page by page, or at once: it is the same.
LEMMA JoinedInPages ==
  ASSUME NEW S, NEW n \in Nat, NEW len \in Nat, NEW parts, NEW page,
         Telling(S, parts, n, len), PageOf(page, parts, n, len)
  PROVE  Split(parts, page, n, len)
<1>. USE DEF Split, Telling, PageOf
<1>. DEFINE Good(k) == Joined(parts, n + k) = Joined(parts, n) \o Joined(page, k)
            bad == {k \in 0..len : ~Good(k)}
<1>. SUFFICES ASSUME bad # {} PROVE FALSE
  <2>1. len \in 0..len
    OBVIOUS
  <2>2. bad = {} => Good(len)
    BY <2>1
  <2>. QED
    BY <2>2
<1>1. PICK m \in bad : \A k \in bad : m <= k
  <2>1. bad \subseteq Nat
    OBVIOUS
  <2>. HIDE DEF bad
  <2>2. QED
    BY <2>1, LeastNatural
<1>2. m \in 0..len
  OBVIOUS
<1>0. ~Good(m)
  OBVIOUS
<1>3. Joined(parts, n) \in Seq(S)
  BY JoinedOf DEF Strung
<1>4. CASE m = 0
  <2>1. Joined(page, 0) = <<>> /\ n + 0 = n
    BY JoinedSteps
  <2>2. Joined(parts, n) \o <<>> = Joined(parts, n)
    BY <1>3
  <2>3. QED
    BY <1>0, <1>4, <2>1, <2>2
<1>5. CASE m # 0
  <2>1. PICK k \in Nat : k + 1 = m
    <3>1. m - 1 \in Nat /\ (m - 1) + 1 = m
      BY <1>2, <1>5
    <3>2. QED
      BY <3>1
  <2>2. k \in 0..len /\ m \in 1..len /\ n + k \in Nat /\ (n + k) + 1 = n + m /\ n + m \in 1..(n + len)
        /\ ~(m <= k)
    BY <1>2, <2>1
  <2>3. Good(k)
    BY <1>1, <2>2
  <2>4. Joined(parts, n + m) = Joined(parts, n + k) \o parts[n + m]
    BY <2>2, JoinedSteps
  <2>5. Joined(page, m) = Joined(page, k) \o parts[n + m]
    <3>1. Joined(page, m) = Joined(page, k) \o page[m]
      BY <2>1, JoinedSteps
    <3>2. page[m] = parts[n + m]
      BY <2>2
    <3>3. QED
      BY <3>1, <3>2
  <2>6. Joined(page, k) \in Seq(S)
    <3>1. \A i \in 1..k : page[i] \in Seq(S)
      <4>1. ASSUME NEW i \in 1..k PROVE page[i] \in Seq(S)
        <5>1. i \in 1..len /\ n + i \in 1..(n + len)
          BY <2>1, <2>2
        <5>2. QED
          BY <5>1
      <4>2. QED
        BY <4>1
    <3>2. QED
      BY <2>1, <3>1, JoinedOf DEF Strung
  <2>7. parts[n + m] \in Seq(S)
    BY <2>2
  <2>8. (Joined(parts, n) \o Joined(page, k)) \o parts[n + m]
          = Joined(parts, n) \o (Joined(page, k) \o parts[n + m])
    <3>. DEFINE a == Joined(parts, n)  b == Joined(page, k)  c == parts[n + m]
    <3>1. a \in Seq(S) /\ b \in Seq(S) /\ c \in Seq(S)
      BY <1>3, <2>6, <2>7
    <3>. HIDE DEF a, b, c, Good, bad
    <3>2. (a \o b) \o c = a \o (b \o c)
      BY <3>1, JoiningThree
    <3>3. QED
      BY <3>2 DEF a, b, c
  <2>9. Joined(parts, n + m) = (Joined(parts, n) \o Joined(page, k)) \o parts[n + m]
    BY <2>3, <2>4
  <2>10. QED
    BY <1>0, <2>5, <2>8, <2>9, Zenon
<1>6. QED
  BY <1>4, <1>5

\* The same, of a listing's first rows and a page after them.
LEMMA JoinedApart ==
  ASSUME NEW S, NEW from \in Nat, NEW n \in Nat, NEW whole, NEW past, NEW page,
         Telling(S, whole, from, n), PageOf(page, whole, from, n), Begins(past, whole, from)
  PROVE  SplitApart(whole, past, page, from, n)
<1>1. Split(whole, page, from, n)
  BY JoinedInPages, Zenon
<1>2. Joined(past, from) = Joined(whole, from)
  BY JoinedAgree DEF Begins
<1>3. QED
  BY <1>1, <1>2 DEF Split, SplitApart

\* What each row of a page tells of items, and of plays.
ItemParts(rows) == [i \in DOMAIN rows |-> itemOf(rows[i], 1)]
PlayParts(rows) == [i \in DOMAIN rows |-> playOf(rows[i])]

\* The folds as they are written.
ItemsFold(f, rows) ==
  f = [s \in SUBSET (DOMAIN rows) |-> IF s = {} THEN <<>> ELSE f[s \ {Max(s)}] \o itemOf(rows[Max(s)], 1)]
PlaysFold(f, rows) ==
  f = [s \in SUBSET (DOMAIN rows) |-> IF s = {} THEN <<>> ELSE f[s \ {Max(s)}] \o playOf(rows[Max(s)])]

\* A parsed page is its rows' parts joined.
LEMMA ParsedIsJoined ==
  ASSUME NEW rows, NEW n \in Nat, DOMAIN rows = 1..n
  PROVE  /\ parseItems(rows, 1) = Joined(ItemParts(rows), n)
         /\ parseHistory(rows) = Joined(PlayParts(rows), n)
<1>1. ASSUME NEW s \in SUBSET (1..n), s # {}
      PROVE  Max(s) \in 1..n
  <2>1. s \in SUBSET Int /\ n \in Int /\ \A i \in s : i <= n
    OBVIOUS
  <2>2. Max(s) \in s
    BY <1>1, <2>1, NewestIsOne
  <2>3. QED
    BY <2>2
<1>2. ASSUME NEW s \in SUBSET (1..n), s # {}
      PROVE  /\ ItemParts(rows)[Max(s)] = itemOf(rows[Max(s)], 1)
             /\ PlayParts(rows)[Max(s)] = playOf(rows[Max(s)])
  BY <1>1, <1>2 DEF ItemParts, PlayParts
<1>3. parseItems(rows, 1) = Joined(ItemParts(rows), n)
  <2>. DEFINE f == CHOOSE f : ItemsFold(f, rows)
  <2>1. parseItems(rows, 1) = f[1..n]
    BY DEF parseItems, FoldLeft, MapThenFoldSet, ItemsFold
  <2>2. \A g : Joins(g, ItemParts(rows), n) <=> ItemsFold(g, rows)
    BY <1>2 DEF Joins, ItemsFold
  <2>3. ItemsFold(f, rows)
    BY <2>2, JoinsExist
  <2>. HIDE DEF f
  <2>4. QED
    BY <2>1, <2>2, <2>3, JoinedIs
<1>4. parseHistory(rows) = Joined(PlayParts(rows), n)
  <2>. DEFINE f == CHOOSE f : PlaysFold(f, rows)
  <2>1. parseHistory(rows) = f[1..n]
    BY DEF parseHistory, FoldLeft, MapThenFoldSet, PlaysFold
  <2>2. \A g : Joins(g, PlayParts(rows), n) <=> PlaysFold(g, rows)
    BY <1>2 DEF Joins, PlaysFold
  <2>3. PlaysFold(f, rows)
    BY <2>2, JoinsExist
  <2>. HIDE DEF f
  <2>4. QED
    BY <2>1, <2>2, <2>3, JoinedIs
<1>5. QED
  BY <1>3, <1>4

\* A row tells of one item, or of none; and of one play, or of none.
ToldItems == {describe(row, 1) : row \in Rows}
ToldPlays == {playOf(row)[1] : row \in Rows}

LEMMA RowsTell ==
  ASSUME NEW row \in Rows
  PROVE  itemOf(row, 1) \in Seq(ToldItems) /\ playOf(row) \in Seq(ToldPlays)
<1>1. describe(row, 1) \in ToldItems /\ playOf(row)[1] \in ToldPlays
  BY DEF ToldItems, ToldPlays
<1>2. playOf(row) = <<>> \/ playOf(row) = <<playOf(row)[1]>>
  BY DEF playOf
<1>3. itemOf(row, 1) = <<>> \/ itemOf(row, 1) = <<describe(row, 1)>>
  BY DEF itemOf
<1>. HIDE DEF ToldItems, ToldPlays
<1>4. <<>> \in Seq(ToldItems) /\ <<>> \in Seq(ToldPlays)
  OBVIOUS
<1>5. <<describe(row, 1)>> \in Seq(ToldItems)
  BY <1>1
<1>6. <<playOf(row)[1]>> \in Seq(ToldPlays)
  BY <1>1
<1>7. QED
  BY <1>2, <1>3, <1>4, <1>5, <1>6

\* Parsing page by page is parsing at once.
LEMMA ParsingInPages ==
  ASSUME NEW list \in Seq(Rows), NEW from \in Nat, NEW n \in Nat, from + n <= Len(list)
  PROVE  /\ parseItems(SubSeq(list, 1, from + n), 1)
              = parseItems(SubSeq(list, 1, from), 1) \o parseItems(SubSeq(list, from + 1, from + n), 1)
         /\ parseHistory(SubSeq(list, 1, from + n))
              = parseHistory(SubSeq(list, 1, from)) \o parseHistory(SubSeq(list, from + 1, from + n))
<1>. DEFINE whole == SubSeq(list, 1, from + n)
            past == SubSeq(list, 1, from)
            page == SubSeq(list, from + 1, from + n)
<1>1. /\ Len(list) \in Nat /\ from + n \in Nat
      /\ DOMAIN whole = 1..(from + n) /\ \A i \in 1..(from + n) : whole[i] = list[i] /\ list[i] \in Rows
      /\ DOMAIN past = 1..from /\ \A i \in 1..from : past[i] = list[i]
      /\ DOMAIN page = 1..n /\ \A i \in 1..n : page[i] = list[from + i]
  OBVIOUS
<1>. HIDE DEF whole, past, page
<1>2. SplitApart(ItemParts(whole), ItemParts(past), ItemParts(page), from, n)
  <2>1. Telling(ToldItems, ItemParts(whole), from, n)
    BY <1>1, RowsTell DEF ItemParts, Telling
  <2>2. PageOf(ItemParts(page), ItemParts(whole), from, n)
    <3>1. \A i \in 1..n : from + i \in 1..(from + n)
      OBVIOUS
    <3>2. QED
      BY <1>1, <3>1 DEF ItemParts, PageOf
  <2>3. Begins(ItemParts(past), ItemParts(whole), from)
    <3>1. \A i \in 1..from : i \in 1..(from + n)
      OBVIOUS
    <3>2. QED
      BY <1>1, <3>1 DEF ItemParts, Begins
  <2>4. QED
    BY <2>1, <2>2, <2>3, JoinedApart, Zenon
<1>3. SplitApart(PlayParts(whole), PlayParts(past), PlayParts(page), from, n)
  <2>1. Telling(ToldPlays, PlayParts(whole), from, n)
    BY <1>1, RowsTell DEF PlayParts, Telling
  <2>2. PageOf(PlayParts(page), PlayParts(whole), from, n)
    <3>1. \A i \in 1..n : from + i \in 1..(from + n)
      OBVIOUS
    <3>2. QED
      BY <1>1, <3>1 DEF PlayParts, PageOf
  <2>3. Begins(PlayParts(past), PlayParts(whole), from)
    <3>1. \A i \in 1..from : i \in 1..(from + n)
      OBVIOUS
    <3>2. QED
      BY <1>1, <3>1 DEF PlayParts, Begins
  <2>4. QED
    BY <2>1, <2>2, <2>3, JoinedApart, Zenon
<1>4. QED
  BY <1>1, <1>2, <1>3, ParsedIsJoined DEF whole, past, page, SplitApart

---------------------------------------------------------------------------
\* The version an item is described by.

Versions == [label : STRING, width : Int]

\* A version's rank is a number.
LEMMA RankIsNumber == \A v \in Versions : rank(v) \in Int
<1>1. ASSUME NEW v \in Versions
      PROVE  qualityBucket(v) \in {"4k", "1080p", "720p", "sd", "none"}
  BY DEF Versions, qualityBucket, RESOLUTION_LABELS
<1>2. \A q \in {"4k", "1080p", "720p", "sd", "none"} : QUALITY_RANK[q] \in Int
  BY DEF QUALITY_RANK
<1>3. QED
  BY <1>1, <1>2 DEF rank

\* f keeps the better of the first and the rest's at any of the first n places.
Bests(f, first, rest, n) ==
  f = [s \in SUBSET (1..n) |-> IF s = {} THEN first ELSE better(f[s \ {Max(s)}], rest[Max(s)])]

\* There is such a function.
LEMMA BestsExist ==
  ASSUME NEW first, NEW rest, NEW len \in Nat
  PROVE  \E f : Bests(f, first, rest, len)
<1>. DEFINE bad == {n \in Nat : ~\E f : Bests(f, first, rest, n)}
<1>. SUFFICES ASSUME bad # {} PROVE FALSE
  OBVIOUS
<1>1. PICK m \in bad : \A n \in bad : m <= n
  BY LeastNatural
<1>2. m \in Nat /\ ~\E f : Bests(f, first, rest, m)
  OBVIOUS
<1>3. CASE m = 0
  <2>. DEFINE f == [s \in SUBSET (1..0) |-> first]
  <2>1. \A s \in SUBSET (1..0) : s = {}
    OBVIOUS
  <2>2. Bests(f, first, rest, 0)
    BY <2>1 DEF Bests
  <2>3. QED
    BY <1>2, <1>3, <2>2
<1>4. CASE m # 0
  <2>1. m - 1 \in Nat /\ m - 1 \notin bad
    BY <1>1, <1>2, <1>4
  <2>2. PICK g : Bests(g, first, rest, m - 1)
    BY <2>1
  <2>. DEFINE f == [s \in SUBSET (1..m) |-> IF m \in s THEN better(g[s \ {m}], rest[m]) ELSE g[s]]
  <2>3. ASSUME NEW s \in SUBSET (1..m)
        PROVE  f[s] = IF s = {} THEN first ELSE better(f[s \ {Max(s)}], rest[Max(s)])
    <3>1. CASE m \in s
      <4>1. Max(s) = m
        BY <1>2, <3>1, LastPlaceIs
      <4>2. s \ {m} \in SUBSET (1..m) /\ m \notin s \ {m}
        OBVIOUS
      <4>3. f[s \ {m}] = g[s \ {m}]
        BY <4>2
      <4>4. QED
        BY <3>1, <4>1, <4>3
    <3>2. CASE m \notin s
      <4>1. s \in SUBSET (1..(m - 1))
        <5>1. ASSUME NEW y \in s PROVE y \in 1..(m - 1)
          BY <1>2, <3>2
        <5>2. QED
          BY <5>1
      <4>2. \A x : s \ {x} \in SUBSET (1..m) /\ m \notin s \ {x}
        BY <3>2
      <4>3. g[s] = IF s = {} THEN first ELSE better(g[s \ {Max(s)}], rest[Max(s)])
        BY <2>2, <4>1 DEF Bests
      <4>4. f[s] = g[s] /\ f[s \ {Max(s)}] = g[s \ {Max(s)}]
        BY <3>2, <4>2
      <4>5. QED
        BY <4>3, <4>4
    <3>3. QED
      BY <3>1, <3>2
  <2>4. Bests(f, first, rest, m)
    BY <2>3 DEF Bests
  <2>5. QED
    BY <1>2, <2>4
<1>5. QED
  BY <1>3, <1>4

\* What is kept of some versions is one of them, and none of them is better.
Kept(best, first, rest, n) ==
  /\ best \in Versions
  /\ best = first \/ \E i \in 1..n : best = rest[i]
  /\ rank(first) <= rank(best)
  /\ \A i \in 1..n : rank(rest[i]) <= rank(best)

LEMMA BestIsKept ==
  ASSUME NEW first \in Versions, NEW len \in Nat, NEW rest, \A i \in 1..len : rest[i] \in Versions,
         NEW f, Bests(f, first, rest, len)
  PROVE  Kept(f[1..len], first, rest, len)
<1>. DEFINE Good(n) == Kept(f[1..n], first, rest, n)
            bad == {n \in 0..len : ~Good(n)}
<1>. SUFFICES ASSUME bad # {} PROVE FALSE
  <2>1. len \in 0..len
    OBVIOUS
  <2>2. bad = {} => Good(len)
    BY <2>1
  <2>. QED
    BY <2>2
<1>1. PICK m \in bad : \A n \in bad : m <= n
  <2>1. bad \subseteq Nat
    OBVIOUS
  <2>. HIDE DEF bad
  <2>2. QED
    BY <2>1, LeastNatural
<1>2. m \in 0..len /\ ~Good(m)
  OBVIOUS
<1>3. 1..m \in SUBSET (1..len)
  BY <1>2
<1>4. f[1..m] = IF 1..m = {} THEN first ELSE better(f[(1..m) \ {Max(1..m)}], rest[Max(1..m)])
  BY <1>3 DEF Bests
<1>5. CASE m = 0
  <2>1. f[1..m] = first /\ \A i : i \notin 1..m
    BY <1>4, <1>5
  <2>2. rank(first) \in Int
    BY RankIsNumber
  <2>3. QED
    BY <1>2, <2>1, <2>2 DEF Kept
<1>6. CASE m # 0
  <2>1. PICK k \in Nat : k + 1 = m
    <3>1. m - 1 \in Nat /\ (m - 1) + 1 = m
      BY <1>2, <1>6
    <3>2. QED
      BY <3>1
  <2>2. k \in 0..len /\ m \in 1..len /\ m \in 1..m /\ m \in Nat /\ (1..m) \ {m} = 1..k /\ ~(m <= k)
    BY <1>2, <2>1
  <2>3. Max(1..m) = m
    BY <2>2, LastPlaceIs
  <2>. DEFINE old == f[1..k]  new == f[1..m]
  <2>4. Kept(old, first, rest, k)
    BY <1>1, <2>2
  <2>5. new = better(old, rest[m])
    BY <1>4, <2>2, <2>3
  <2>. HIDE DEF old, new
  <2>6. /\ rank(old) \in Int /\ rank(rest[m]) \in Int /\ rank(first) \in Int
        /\ \A i \in 1..k : rank(rest[i]) \in Int /\ i \in 1..m
        /\ \A i \in 1..m : i \in 1..k \/ i = m
    <3>1. \A i \in 1..k : i \in 1..len /\ i \in 1..m
      BY <2>1, <2>2
    <3>2. \A i \in 1..m : i \in 1..k \/ i = m
      BY <2>1
    <3>3. QED
      BY <2>2, <2>4, <3>1, <3>2, RankIsNumber DEF Kept
  <2>7. rank(new) \in Int /\ rank(old) <= rank(new) /\ rank(rest[m]) <= rank(new) /\ new \in {old, rest[m]}
    BY <2>5, <2>6 DEF better
  <2>8. Kept(new, first, rest, m)
    <3>1. new \in Versions
      BY <2>2, <2>4, <2>7 DEF Kept
    <3>2. new = first \/ \E i \in 1..m : new = rest[i]
      BY <2>2, <2>4, <2>6, <2>7 DEF Kept
    <3>3. rank(first) <= rank(new)
      BY <2>4, <2>6, <2>7 DEF Kept
    <3>4. ASSUME NEW i \in 1..m PROVE rank(rest[i]) <= rank(new)
      <4>1. CASE i = m
        BY <2>7, <4>1
      <4>2. CASE i \in 1..k
        <5>1. rank(rest[i]) <= rank(old)
          BY <2>4, <4>2 DEF Kept
        <5>2. rank(rest[i]) \in Int
          BY <2>6, <4>2
        <5>3. QED
          BY <2>6, <2>7, <5>1, <5>2
      <4>3. QED
        BY <2>6, <4>1, <4>2
    <3>5. QED
      BY <3>1, <3>2, <3>3, <3>4 DEF Kept
  <2>9. QED
    BY <1>2, <2>8 DEF new
<1>7. QED
  BY <1>5, <1>6

\* The version an item is described by is one of its own, none of which is better.
LEMMA BestMediaIsBest ==
  ASSUME NEW media \in Seq(Versions), media # <<>>
  PROVE  /\ bestMedia(media) \in Range(media)
         /\ \A v \in Range(media) : rank(v) <= rank(bestMedia(media))
<1>. DEFINE rest == Tail(media)  n == Len(rest)  first == media[1]
            f == CHOOSE f : Bests(f, first, rest, n)
<1>1. /\ n \in Nat /\ first \in Versions /\ DOMAIN rest = 1..n /\ 1 \in DOMAIN media
      /\ \A i \in 1..n : rest[i] \in Versions /\ rest[i] = media[i + 1] /\ i + 1 \in DOMAIN media
      /\ \A i \in DOMAIN media : i = 1 \/ (i - 1 \in 1..n /\ rest[i - 1] = media[i])
  <2>1. Len(media) \in Nat \ {0} /\ DOMAIN media = 1..Len(media)
    OBVIOUS
  <2>2. /\ n = Len(media) - 1 /\ DOMAIN rest = 1..n
        /\ \A i \in 1..n : rest[i] = media[i + 1]
    BY <2>1
  <2>. HIDE DEF rest, n
  <2>3. \A i \in 1..n : i + 1 \in DOMAIN media
    BY <2>1, <2>2
  <2>4. \A i \in DOMAIN media : i = 1 \/ (i - 1 \in 1..n /\ (i - 1) + 1 = i)
    BY <2>1, <2>2
  <2>5. n \in Nat /\ first \in Versions /\ 1 \in DOMAIN media
    BY <2>1, <2>2
  <2>. HIDE DEF first
  <2>6. \A i \in 1..n : rest[i] \in Versions
    BY <2>2, <2>3
  <2>7. \A i \in DOMAIN media : i = 1 \/ (i - 1 \in 1..n /\ rest[i - 1] = media[i])
    <3>. SUFFICES ASSUME NEW i \in DOMAIN media, i # 1
                  PROVE  i - 1 \in 1..n /\ rest[i - 1] = media[i]
      OBVIOUS
    <3>1. i - 1 \in 1..n /\ (i - 1) + 1 = i
      BY <2>4
    <3>2. rest[i - 1] = media[(i - 1) + 1]
      BY <2>2, <3>1
    <3>3. QED
      BY <3>1, <3>2
  <2>8. \A i \in 1..n : rest[i] \in Versions /\ rest[i] = media[i + 1] /\ i + 1 \in DOMAIN media
    BY <2>2, <2>3, <2>6
  <2>9. QED
    BY <2>2, <2>5, <2>7, <2>8, Zenon
<1>. HIDE DEF rest, n, first
<1>2. Bests(f, first, rest, n)
  BY <1>1, BestsExist
<1>3. bestMedia(media) = f[1..n]
  BY <1>1 DEF bestMedia, FoldLeft, MapThenFoldSet, Bests, first, rest
<1>. HIDE DEF f
<1>4. Kept(bestMedia(media), first, rest, n)
  BY <1>1, <1>2, <1>3, BestIsKept
<1>5. bestMedia(media) \in Range(media)
  BY <1>1, <1>4 DEF Kept, Range, first
<1>6. ASSUME NEW i \in DOMAIN media
      PROVE  rank(media[i]) <= rank(bestMedia(media))
  BY <1>1, <1>4 DEF Kept, first
<1>7. QED
  BY <1>5, <1>6 DEF Range

---------------------------------------------------------------------------
\* Paging. What has been kept is what the rows passed so far tell; a pager that ended
\* has passed them all.

PagesInv ==
  /\ listing \in Seq(Rows) /\ offset \in Nat /\ offset <= Len(listing)
  /\ kept = [items |-> parseItems(SubSeq(listing, 1, offset), 1),
             plays |-> parseHistory(SubSeq(listing, 1, offset))]
  /\ pager = "building" => offset = 0
  /\ pager = "ended" => offset = Len(listing)

\* Nothing is told by no rows.
LEMMA NothingParsed == parseItems(<<>>, 1) = <<>> /\ parseHistory(<<>>) = <<>>
<1>1. DOMAIN <<>> = 1..0
  OBVIOUS
<1>2. QED
  BY <1>1, ParsedIsJoined, JoinedSteps

LEMMA PagesStart == PagesInit => PagesInv
<1>. SUFFICES ASSUME PagesInit PROVE PagesInv
  OBVIOUS
<1>1. listing = <<>> /\ offset = 0 /\ kept = [items |-> <<>>, plays |-> <<>>] /\ pager = "building"
  BY DEF PagesInit
<1>2. listing \in Seq(Rows) /\ Len(listing) = 0
  BY <1>1
<1>3. SubSeq(listing, 1, offset) = <<>>
  BY <1>1
<1>4. kept = [items |-> parseItems(SubSeq(listing, 1, offset), 1),
              plays |-> parseHistory(SubSeq(listing, 1, offset))]
  BY <1>1, <1>3, NothingParsed, Zenon
<1>5. QED
  BY <1>1, <1>2, <1>4 DEF PagesInv

LEMMA PagesKeep == PagesInv /\ [PagesNext]_pageVars => PagesInv'
<1>. SUFFICES ASSUME PagesInv, [PagesNext]_pageVars PROVE PagesInv'
  OBVIOUS
<1>0. listing \in Seq(Rows) /\ Len(listing) \in Nat /\ offset \in Nat /\ offset <= Len(listing)
  BY DEF PagesInv
<1>1. CASE AddRow
  <2>1. PICK row \in Rows : listing' = Append(listing, row)
    BY <1>1 DEF AddRow
  <2>2. offset = 0 /\ UNCHANGED <<offset, kept, pager>> /\ pager = "building"
    BY <1>1 DEF AddRow, PagesInv
  <2>3. listing' \in Seq(Rows) /\ Len(listing') \in Nat
    BY <1>0, <2>1
  <2>4. SubSeq(listing', 1, 0) = SubSeq(listing, 1, 0)
    BY <1>0, <2>3
  <2>5. kept = [items |-> parseItems(SubSeq(listing, 1, 0), 1), plays |-> parseHistory(SubSeq(listing, 1, 0))]
    BY <2>2 DEF PagesInv
  <2>6. kept' = [items |-> parseItems(SubSeq(listing', 1, offset'), 1),
                 plays |-> parseHistory(SubSeq(listing', 1, offset'))]
    <3>1. kept' = kept /\ offset' = 0
      BY <2>2
    <3>2. QED
      BY <2>4, <2>5, <3>1, Zenon
  <2>7. QED
    BY <2>2, <2>3, <2>6 DEF PagesInv
<1>2. CASE PagingStarts
  BY <1>2 DEF PagingStarts, PagesInv
<1>3. CASE pageAll
  <2>1. PICK page \in Pages : /\ keep(page.rows)
                              /\ pager' = IF pageEnds(page) THEN "ended" ELSE "paging"
                              /\ offset' = offset + page.size
    BY <1>3 DEF pageAll
  <2>2. PICK n \in Nat : /\ page = [rows |-> SubSeq(listing, offset + 1, offset + n), size |-> n,
                                    total |-> Len(listing)]
                         /\ offset + n <= Len(listing) /\ (n = 0 => offset = Len(listing))
    <3>1. PICK n \in IF offset >= Len(listing) THEN {0}
                     ELSE 1..(IF offset + PageSize > Len(listing) THEN Len(listing) - offset ELSE PageSize) :
             page = [rows |-> SubSeq(listing, offset + 1, offset + n), size |-> n, total |-> Len(listing)]
      BY DEF Pages
    <3>2. n \in Nat /\ offset + n <= Len(listing) /\ (n = 0 => offset = Len(listing))
      BY <1>0, PagesAssumption
    <3>3. QED
      BY <3>1, <3>2
  <2>3. listing' = listing /\ offset' = offset + n
    BY <1>3, <2>1, <2>2 DEF pageAll
  <2>4. /\ page.rows = SubSeq(listing, offset + 1, offset + n)
        /\ page.size = n /\ page.total = Len(listing)
    BY <2>2
  <2>5. kept' = [items |-> parseItems(SubSeq(listing, 1, offset + n), 1),
                 plays |-> parseHistory(SubSeq(listing, 1, offset + n))]
    BY <1>0, <2>1, <2>2, <2>4, ParsingInPages DEF keep, PagesInv
  <2>6. pager' = "ended" => offset + n = Len(listing)
    BY <1>0, <2>1, <2>2, <2>4 DEF pageEnds, pageInfo, Junk
  <2>7. pager' # "building"
    BY <2>1
  <2>8. QED
    BY <1>0, <2>2, <2>3, <2>5, <2>6, <2>7 DEF PagesInv
<1>4. CASE PageLost
  BY <1>4 DEF PageLost, PagesInv
<1>5. CASE UNCHANGED pageVars
  BY <1>5 DEF pageVars, PagesInv
<1>6. QED
  BY <1>1, <1>2, <1>3, <1>4, <1>5 DEF PagesNext

\* What an item kept is described by: a row of the listing, and the best of its versions.
LEMMA DescribesBest ==
  ASSUME NEW row \in Rows, NEW found, found = describe(row, 1)
  PROVE  /\ row.ratingKey = found.key
         /\ IF Range(row.media) = {} THEN found.quality = "none"
            ELSE /\ [label |-> found.label, width |-> found.width] \in Range(row.media)
                 /\ \A v \in Range(row.media) : rank(v) <= QUALITY_RANK[found.quality]
<1>. DEFINE version == bestMedia(row.media)
<1>1. row.media \in Seq(Versions)
  BY PagesAssumption DEF Versions
<1>2. /\ found.key = row.ratingKey /\ found.label = version.label /\ found.width = version.width
      /\ found.quality = qualityBucket(version)
  BY DEF describe
<1>3. CASE row.media = <<>>
  <2>1. Range(row.media) = {}
    BY <1>3 DEF Range
  <2>2. version = NoVersion
    BY <1>3 DEF bestMedia
  <2>3. qualityBucket(NoVersion) = "none"
    BY DEF qualityBucket, NoVersion, RESOLUTION_LABELS, Junk
  <2>4. QED
    BY <1>2, <2>1, <2>2, <2>3
<1>4. CASE row.media # <<>>
  <2>1. /\ version \in Range(row.media)
        /\ \A v \in Range(row.media) : rank(v) <= rank(version)
    BY <1>1, <1>4, BestMediaIsBest
  <2>. HIDE DEF version
  <2>2. version \in Versions
    BY <1>1, <2>1 DEF Range
  <2>3. version = [label |-> version.label, width |-> version.width]
    BY <2>2 DEF Versions
  <2>4. QED
    BY <1>2, <2>1, <2>3 DEF rank
<1>5. QED
  BY <1>3, <1>4

\* Each item kept of a listing is a row's.
LEMMA KeptIsListed ==
  ASSUME NEW list \in Seq(Rows), NEW n \in 0..Len(list), NEW i \in DOMAIN parseItems(SubSeq(list, 1, n), 1)
  PROVE  \E j \in DOMAIN list :
           isItem(list[j]) /\ parseItems(SubSeq(list, 1, n), 1)[i] = describe(list[j], 1)
<1>. DEFINE past == SubSeq(list, 1, n)
<1>1. n \in Nat /\ DOMAIN past = 1..n /\ \A j \in 1..n : past[j] = list[j] /\ list[j] \in Rows /\ j \in DOMAIN list
  OBVIOUS
<1>. HIDE DEF past
<1>2. \A j \in 1..n : ItemParts(past)[j] = itemOf(list[j], 1) /\ ItemParts(past)[j] \in Seq(ToldItems)
  BY <1>1, RowsTell DEF ItemParts
<1>3. parseItems(past, 1) = Joined(ItemParts(past), n)
  BY <1>1, ParsedIsJoined
<1>4. PICK j \in 1..n : \E d \in DOMAIN ItemParts(past)[j] : Joined(ItemParts(past), n)[i] = ItemParts(past)[j][d]
  <2>1. i \in DOMAIN Joined(ItemParts(past), n)
    BY <1>3 DEF past
  <2>2. Strung(ToldItems, ItemParts(past), n)
    BY <1>2 DEF Strung
  <2>3. ComesOf(ItemParts(past), n)
    BY <1>1, <2>2, JoinedOf, Zenon
  <2>4. QED
    BY <2>1, <2>3, Zenon DEF ComesOf
<1>5. PICK d \in DOMAIN itemOf(list[j], 1) : parseItems(past, 1)[i] = itemOf(list[j], 1)[d]
  BY <1>2, <1>3, <1>4
<1>6. isItem(list[j]) /\ itemOf(list[j], 1)[d] = describe(list[j], 1)
  BY DEF itemOf
<1>7. QED
  BY <1>1, <1>5, <1>6 DEF past

LEMMA PagesWhole == PagesInv => PagedWhole
<1>. SUFFICES ASSUME PagesInv PROVE PagedWhole
  OBVIOUS
<1>0. listing \in Seq(Rows) /\ Len(listing) \in Nat /\ offset \in 0..Len(listing)
  BY DEF PagesInv
<1>1. pager = "ended" => kept = [items |-> parseItems(listing, 1), plays |-> parseHistory(listing)]
  <2>1. SubSeq(listing, 1, Len(listing)) = listing
    BY <1>0
  <2>2. QED
    BY <2>1 DEF PagesInv
<1>2. ASSUME NEW i \in DOMAIN kept.items
      PROVE  \E j \in DOMAIN listing :
               LET found == kept.items[i]  versions == Range(listing[j].media) IN
               /\ isItem(listing[j]) /\ listing[j].ratingKey = found.key
               /\ IF versions = {} THEN found.quality = "none"
                  ELSE /\ [label |-> found.label, width |-> found.width] \in versions
                       /\ \A v \in versions : rank(v) <= QUALITY_RANK[found.quality]
  <2>1. kept.items = parseItems(SubSeq(listing, 1, offset), 1)
    BY DEF PagesInv
  <2>2. PICK j \in DOMAIN listing : isItem(listing[j]) /\ kept.items[i] = describe(listing[j], 1)
    BY <1>0, <1>2, <2>1, KeptIsListed
  <2>3. listing[j] \in Rows
    BY <1>0
  <2>4. QED
    BY <2>2, <2>3, DescribesBest
<1>3. QED
  BY <1>1, <1>2 DEF PagedWhole

---------------------------------------------------------------------------
\* The parts together.

\* Each step is one part's, and leaves the others' as they are.
LEMMA PartsStep ==
  ASSUME [PlexNext]_allPlexVars
  PROVE  /\ [HistoryNext]_historyVars /\ [InventoryNext]_inventoryVars
         /\ [PagesNext]_pageVars /\ [LedgerNext]_ledgerVars
BY DEF PlexNext, allPlexVars

\* The history's types, of every behaviour of the parts.
THEOREM HistoryIsTyped == PlexSpec => []HistoryTypeOK
<1>1. PlexInit => HistoryInv
  BY HistoryStarts DEF PlexInit
<1>2. HistoryInv /\ [PlexNext]_allPlexVars => HistoryInv'
  BY PartsStep, HistoryKeeps
<1>3. HistoryInv => HistoryTypeOK
  BY HistoryTypes DEF HistoryInv
<1>4. QED
  BY <1>1, <1>2, <1>3, PTL DEF PlexSpec

\* Nothing is left behind the cursor, for any plays, overlap and page size: what a pass
\* leaves is newer than the newest of its page, or came in within the overlap.
THEOREM NothingLeft == PlexSpec => []NothingLeftBehind
<1>1. PlexInit => HistoryInv
  BY HistoryStarts DEF PlexInit
<1>2. HistoryInv /\ [PlexNext]_allPlexVars => HistoryInv'
  BY PartsStep, HistoryKeeps
<1>3. HistoryInv => NothingLeftBehind
  BY DEF HistoryInv
<1>4. QED
  BY <1>1, <1>2, <1>3, PTL DEF PlexSpec

\* Paging is whole, for any rows a server may hold and any page size: however short the
\* pages, a pager that ended kept each row that can be kept, once and in order, and an
\* item is described by the best of its versions.
THEOREM PagingIsWhole == PlexSpec => []PagedWhole
<1>1. PlexInit => PagesInv
  BY PagesStart DEF PlexInit
<1>2. PagesInv /\ [PlexNext]_allPlexVars => PagesInv'
  BY PartsStep, PagesKeep
<1>3. PagesInv => PagedWhole
  BY PagesWhole
<1>4. QED
  BY <1>1, <1>2, <1>3, PTL DEF PlexSpec

\* The exclusion rule is kept by each pass and each purge, for any libraries, rules and
\* number of restarts, rounds by hand and failures.
THEOREM RuleKept == PlexSpec => LedgerKeepsRule
<1>1. PlexInit => LedgerInv
  BY LedgerStarts DEF PlexInit
<1>2. LedgerInv /\ [PlexNext]_allPlexVars => LedgerInv'
  BY PartsStep, LedgerKeeps
<1>3. LedgerInv /\ [PlexNext]_allPlexVars => [PassObeysRule /\ PurgeIsExact]_ledgerVars
  BY EveryPassObeys, EveryPurgeIsExact
<1>4. QED
  BY <1>1, <1>2, <1>3, PTL DEF PlexSpec, LedgerKeepsRule

\* A pass that says it is done is: a history pass that ends at its end has stored what
\* it was there to store, an inventory that completes alone leaves exactly the rows of
\* what the server has, for any library, sections and page size, and the rule is kept.
THEOREM PassesExact == PlexSpec => PassesAreExact
<1>1. PlexInit => HistoryInv /\ InventoryInv
  BY HistoryStarts, InventoryStarts DEF PlexInit
<1>2. HistoryInv /\ InventoryInv /\ [PlexNext]_allPlexVars => HistoryInv' /\ InventoryInv'
  BY PartsStep, HistoryKeeps, InventoryKeeps
<1>3. HistoryInv /\ [PlexNext]_allPlexVars => [EndsComplete]_historyVars
  BY PartsStep, LastPageCompletes
<1>4. InventoryInv /\ [PlexNext]_allPlexVars => [CompletesExact]_inventoryVars
  BY PartsStep, CompletionIsExact
<1>5. PlexSpec => [][EndsComplete]_historyVars /\ [][CompletesExact]_inventoryVars
  BY <1>1, <1>2, <1>3, <1>4, PTL DEF PlexSpec
<1>6. QED
  BY <1>5, RuleKept DEF PassesAreExact, SyncIsComplete, CleanRunIsExact, EndsComplete, CompletesExact

=============================================================================

----------------------------- MODULE PlayViews ------------------------------
(***************************************************************************)
(* What the plays page makes of the ledger: the plays a request asks for,  *)
(* each viewing once, and the figures, rankings, histories and unplayed    *)
(* titles drawn from them, while passes add plays, describe items, stub    *)
(* and retire them, and purge an excluded library.                         *)
(*                                                                         *)
(* Titles and rating keys are numbers, 0 for a blank. A title stands for   *)
(* its spelling whatever the case, and a day is a tick.                    *)
(***************************************************************************)
EXTENDS Integers, Sequences, FiniteSetsExt, SequencesExt

CONSTANTS LogRows,       \* the rows the servers log: [host, id, key, kind, title, account, at]
          Viewing,       \* [LogRows -> which viewing the row marks the end of]
          Described,     \* [host, key] to the row the server describes the item by
          ExcludedItems, \* the items of the library that comes to be excluded
          FleetHosts,    \* the configured hosts, in order
          AskedQueries,  \* what requests ask for: [days, host, kind, quality]
          DayMax, WeekMax, Week, Month,   \* the timeline's bounds, in ticks
          PlaysPage,     \* rows a page holds
          TopCount,
          PlaysNow,      \* when the requests come
          None

VARIABLES
  plexPlays,   \* plex_plays
  plexItems    \* plex_items, by [host, key]: a row, or None

playVars == <<plexPlays, plexItems>>

ItemKeys == DOMAIN Described
itemOf(p) == [host |-> p.host, key |-> p.key]

Qualities == {"4k", "1080p", "720p", "other"}
rankOf == [q \in {"4k", "1080p", "720p", "sd"} |->
             CASE q = "4k" -> 4 [] q = "1080p" -> 3 [] q = "720p" -> 2 [] OTHER -> 1]

PlaysTypeOK ==
  /\ plexPlays \subseteq LogRows
  /\ \A k \in ItemKeys :
       plexItems[k] = None \/ {"title", "parent", "quality", "runtime", "present"} \subseteq DOMAIN plexItems[k]

PlaysInit == plexPlays = {} /\ plexItems = [k \in ItemKeys |-> None]

---------------------------------------------------------------------------
\* The ledger's writes, each as one pass makes it.

insertPlays(p) ==
  /\ p \notin plexPlays /\ plexPlays' = plexPlays \union {p}
  /\ UNCHANGED plexItems

\* An item described again is present again, whatever was known of it.
upsertItems(k) ==
  /\ plexItems' = [plexItems EXCEPT ![k] = Described[k]]
  /\ UNCHANGED plexPlays

\* A played item nothing is known of keeps the play's own title, and nothing else.
stubMissingItems(k) ==
  LET of == {p \in plexPlays : itemOf(p) = k} IN
  /\ plexItems[k] = None /\ of # {}
  /\ plexItems' = [plexItems EXCEPT ![k] =
       [Described[k] EXCEPT !.title = Min({p.title : p \in of}), !.year = 0, !.parent = 0,
                            !.group = 0, !.quality = None, !.runtime = None, !.present = FALSE]]
  /\ UNCHANGED plexPlays

retireUnseenItems(k) ==
  /\ plexItems[k] # None /\ plexItems[k].present
  /\ plexItems' = [plexItems EXCEPT ![k].present = FALSE]
  /\ UNCHANGED plexPlays

purgeSections ==
  /\ plexPlays' = {p \in plexPlays : itemOf(p) \notin ExcludedItems}
  /\ plexItems' = [k \in ItemKeys |-> IF k \in ExcludedItems THEN None ELSE plexItems[k]]

PlaysNext ==
  \/ \E p \in LogRows : insertPlays(p)
  \/ \E k \in ItemKeys : upsertItems(k) \/ stubMissingItems(k) \/ retireUnseenItems(k)
  \/ purgeSections

PlaysSpec == PlaysInit /\ [][PlaysNext]_playVars

---------------------------------------------------------------------------
\* The base every view reads.

known(p) == plexItems[itemOf(p)]
is(p, field, blank) == known(p) # None /\ known(p)[field] # blank
itemTitle(p) == IF is(p, "title", 0) THEN known(p).title ELSE p.title
qualityOf(row) == IF row = None \/ row.quality = None THEN 0 ELSE rankOf[row.quality]

\* A film is its title and year, an episode its show, a track its album; what is
\* not known well enough stands alone.
groupKey(p) ==
  IF p.kind = "movie" /\ itemTitle(p) # 0
    THEN <<"movie", itemTitle(p), IF known(p) = None THEN 0 ELSE known(p).year>>
  ELSE IF p.kind # "movie" /\ is(p, "parent", 0) THEN <<p.kind, known(p).parent>>
  ELSE <<"item", p.host, p.key>>

\* The row before by time, of the same viewer at the same item.
previousRow(p, ps) ==
  LET earlier == {q \in ps : /\ itemOf(q) = itemOf(p) /\ q.account = p.account
                             /\ q.at < p.at \/ (q.at = p.at /\ q.id < p.id)}
  IN IF earlier = {} THEN None
     ELSE CHOOSE q \in earlier : \A r \in earlier : r.at < q.at \/ (r.at = q.at /\ r.id <= q.id)

\* A completion sooner after the row before than the item runs for is that viewing
\* again.
oneViewing(p, ps) ==
  LET prev == previousRow(p, ps) IN
  prev = None \/ ~is(p, "runtime", None) \/ p.at - prev.at >= known(p).runtime

bucketOfRank(rank) == IF rank = 4 THEN "4k" ELSE IF rank = 3 THEN "1080p"
                      ELSE IF rank = 2 THEN "720p" ELSE "other"

\* The clauses one filter adds. "other" speaks of video alone, and so does a
\* quality a track does not have.
conditions(p, f) ==
  /\ f.since # None => p.at >= f.since
  /\ f.host # None => p.host = f.host
  /\ f.kind # None => p.kind = f.kind
  /\ CASE f.quality = None -> TRUE
       [] f.quality = "other" -> p.kind # "track" /\ qualityOf(known(p)) <= 1
       [] OTHER -> known(p) # None /\ known(p).quality = f.quality

\* Mutant: the row before is looked for among the rows asked for.
baseTableNarrow(f) ==
  LET asked == {p \in plexPlays : conditions(p, f)} IN {p \in asked : oneViewing(p, asked)}

baseTable(f) == {p \in plexPlays : conditions(p, f) /\ oneViewing(p, plexPlays)}

NoFilter == [since |-> None, host |-> None, kind |-> None, quality |-> None]

\* The filters of a request: no days is all time, and a host that is none of the
\* fleet's is refused.
playQuery(query) ==
  [since |-> IF query.days = 0 THEN None ELSE PlaysNow - query.days,
   host |-> query.host, kind |-> query.kind, quality |-> query.quality]
AskedFilters == {playQuery(q) : q \in {p \in AskedQueries : p.host \in {None} \union ToSet(FleetHosts)}}

---------------------------------------------------------------------------
\* The views.

number(ps, field, value) == Cardinality({p \in ps : p[field] = value})

\* Each viewer's times at each item, less the first of each.
rewatchesOf(ps) == Cardinality(ps) - Cardinality({<<p.account, p.host, p.key>> : p \in ps})

\* The group's figures, as the rankings and the title's own page both give them.
figures(ps) ==
  [plays |-> Cardinality(ps), viewers |-> Cardinality({p.account : p \in ps}),
   items |-> Cardinality({itemOf(p) : p \in ps}), rewatches |-> rewatchesOf(ps),
   hosts |-> {p.host : p \in ps}, quality |-> Max({0} \union {qualityOf(known(p)) : p \in ps})]

\* Most first; a tie goes to the later played, then by key.
topTitles(f, metric, limit) ==
  LET base == baseTable(f)
      group(k) == {p \in base : groupKey(p) = k}
      last(k) == Max({p.at : p \in group(k)})
      score(k) == IF metric = "plays" THEN Cardinality(group(k)) * 100
                  ELSE rewatchesOf(group(k)) * 100 + Cardinality(group(k))
      keys == {k \in {groupKey(p) : p \in base} : metric = "plays" \/ rewatchesOf(group(k)) > 0}
      ranked == SetToSortSeq(keys, LAMBDA a, b : \/ score(a) > score(b)
                                                 \/ score(a) = score(b) /\ last(a) > last(b))
  IN [i \in 1..Min({limit, Len(ranked)}) |-> [key |-> ranked[i], of |-> figures(group(ranked[i]))]]

bucketFor(since) ==
  IF since = None \/ PlaysNow - since > WeekMax THEN Month
  ELSE IF PlaysNow - since <= DayMax THEN 1 ELSE Week

earliestPlay(host) ==
  LET of == {p.at : p \in {q \in plexPlays : host \in {None, q.host}}}
  IN IF of = {} THEN None ELSE Min(of)

overview(f) ==
  LET base == baseTable(f)
      width == bucketFor(IF f.since = None THEN earliestPlay(f.host) ELSE f.since)
      video == {p \in base : p.kind # "track"}
  IN [plays |-> Cardinality(base),
      viewers |-> Cardinality({p.account : p \in base}),
      titles |-> Cardinality({groupKey(p) : p \in base}),
      byKind |-> [k \in {"movie", "episode", "track"} |-> number(base, "kind", k)],
      byQuality |-> [q \in Qualities |->
                       Cardinality({p \in video : bucketOfRank(qualityOf(known(p))) = q})],
      byHost |-> [h \in ToSet(FleetHosts) |-> number(base, "host", h)],
      timeline |-> [s \in {(p.at \div width) * width : p \in base} |->
                      Cardinality({p \in base : (p.at \div width) * width = s})],
      top |-> topTitles(f, "plays", TopCount)]

users(f) ==
  LET base == baseTable(f)
      of(a) == {p \in base : p.account = a}
  IN [a \in {p.account : p \in base} |->
        [plays |-> Cardinality(of(a)),
         kinds |-> [k \in {"movie", "episode", "track"} |-> number(of(a), "kind", k)]]]

\* One page, newest first; the rows of one moment by history id.
pageOfPlays(ps, page) ==
  LET sorted == SetToSortSeq(ps, LAMBDA p, q : p.at > q.at \/ (p.at = q.at /\ p.id > q.id))
  IN SubSeq(sorted, (page - 1) * PlaysPage + 1, Min({page * PlaysPage, Len(sorted)}))

userHistory(f, account, page) ==
  LET of == {p \in baseTable(f) : p.account = account}
  IN [total |-> Cardinality(of), rows |-> pageOfPlays(of, page)]

\* What names a group whose plays the filters leave out: the newest of them all.
newestPlayOf(key) ==
  LET of == {p \in baseTable(NoFilter) : groupKey(p) = key}
  IN IF of = {} THEN None
     ELSE (CHOOSE p \in of : \A q \in of : q.at < p.at \/ (q.at = p.at /\ q.id <= p.id)).kind

titleHistory(f, key, page) ==
  LET scoped == {p \in baseTable(f) : groupKey(p) = key}
  IN [kind |-> IF scoped # {} THEN (CHOOSE p \in scoped : TRUE).kind ELSE newestPlayOf(key),
      of |-> figures(scoped), rows |-> pageOfPlays(scoped, page)]

\* One line per host of the fleet, reached or not.
syncStatus ==
  LET base == baseTable(NoFilter) IN
  [h \in ToSet(FleetHosts) |->
     [plays |-> number(base, "host", h),
      items |-> Cardinality({k \in ItemKeys : k.host = h /\ plexItems[k] # None /\ plexItems[k].present})]]

---------------------------------------------------------------------------
\* What nobody has finished. A film is itself; a show or album is one row on each
\* server, however many members it has, and is left out by one of them played.

candidates(f) ==
  {k \in ItemKeys : /\ plexItems[k] # None /\ plexItems[k].present
                    /\ f.host # None => k.host = f.host}
played(f) == {itemOf(p) : p \in {q \in plexPlays : f.since # None => q.at >= f.since}}

neverKey(k) ==
  LET row == plexItems[k] IN
  IF row.kind = "movie" THEN <<k.host, "movie", k.key>>
  ELSE IF row.group = 0 THEN None
  ELSE <<k.host, row.kind, row.group>>

members(f, g) == {k \in candidates(f) : neverKey(k) = g}

unplayed(f) ==
  {g \in {neverKey(k) : k \in candidates(f)} \ {None} : members(f, g) \intersect played(f) = {}}

neverRank(f, g) ==
  IF g[2] = "track" THEN 0 ELSE Max({qualityOf(plexItems[k]) : k \in members(f, g)})

unplayedConditions(f, g) ==
  /\ f.kind # None => g[2] = f.kind
  /\ CASE f.quality = None -> TRUE
       [] f.quality = "other" -> g[2] # "track" /\ neverRank(f, g) <= 1
       [] OTHER -> g[2] # "track" /\ neverRank(f, g) = rankOf[f.quality]

\* The summary keeps the whole set; the rows narrow by kind and quality.
neverPlayed(f) ==
  [kinds |-> [k \in {"movie", "episode", "track"} |-> Cardinality({g \in unplayed(f) : g[2] = k})],
   byQuality |-> [q \in Qualities |->
     Cardinality({g \in unplayed(f) : g[2] = "movie" /\ bucketOfRank(neverRank(f, g)) = q})],
   rows |-> {g \in unplayed(f) : unplayedConditions(f, g)}]

---------------------------------------------------------------------------
\* Properties.

total(counts) == MapThenSumSet(LAMBDA x : counts[x], DOMAIN counts)
pagesOf(n) == 1..((n + PlaysPage - 1) \div PlaysPage)

\* One viewing is one play, however many times it was marked, in whichever order
\* its rows came to the ledger and whatever a request filters by: a window does not
\* turn the second marking of a viewing into a play of its own (ONE_VIEWING_SQL).
CountedOnce ==
  LET all == baseTable(NoFilter) IN
  \A f \in AskedFilters :
    LET shown == baseTable(f) IN
    /\ shown \subseteq all
    /\ \A p \in plexPlays : is(p, "runtime", None) =>
         LET marked == {q \in plexPlays : Viewing[q] = Viewing[p]} IN
         Cardinality(marked \intersect shown) <= 1 /\ marked \intersect all # {}

\* Every page gives the same figures: the buckets add up to the total, a bucket is
\* what its filter shows, and a viewer's, a title's and a server's line count the
\* rows behind them, each on one page (overview, users, topTitles, syncStatus).
FiguresAgree ==
  \A f \in AskedFilters :
    LET view == overview(f)  base == baseTable(f)  viewers == users(f) IN
    /\ view.plays = total(view.byKind) /\ view.plays = total(view.byHost)
    /\ view.plays = total(view.timeline)
    /\ view.plays = total([a \in DOMAIN viewers |-> viewers[a].plays])
    /\ total(view.byQuality) = view.plays - view.byKind["track"]
    /\ f.quality = None =>
         \A q \in Qualities : view.byQuality[q] = Cardinality(baseTable([f EXCEPT !.quality = q]))
    /\ \A a \in DOMAIN viewers :
         LET n == viewers[a].plays
             pages == [i \in pagesOf(n) |-> userHistory(f, a, i)]
         IN /\ n = pages[1].total
            /\ UNION {ToSet(pages[i].rows) : i \in pagesOf(n)} = {p \in base : p.account = a}
            /\ n = total([i \in pagesOf(n) |-> Len(pages[i].rows)])
    /\ \A row \in ToSet(view.top) \union ToSet(topTitles(f, "rewatches", TopCount)) :
         titleHistory(f, row.key, 1).of = row.of
    /\ f = NoFilter => \A h \in ToSet(FleetHosts) : syncStatus[h].plays = view.byHost[h]

\* A title with a play in the ledger is named on its page under every filter, also
\* one that leaves all its plays out (titleHistory).
TitleStaysNamed ==
  LET all == baseTable(NoFilter) IN
  \A f \in AskedFilters : \A key \in {groupKey(p) : p \in all} :
    LET page == titleHistory(f, key, 1) IN \A p \in all : groupKey(p) = key => page.kind = p.kind

\* Nothing the page lists as not played has a play on it, in the same window and on
\* the same server, and of what is in the libraries only the members of a played
\* group and what has no group are left out (unplayedCte).
NeverPlayedIsUnwatched ==
  \A f \in AskedFilters :
    LET view == neverPlayed(f)
        left == unplayed(f)
        watched == {itemOf(p) : p \in baseTable([f EXCEPT !.kind = None, !.quality = None])}
    IN /\ total(view.kinds) = Cardinality(left) /\ total(view.byQuality) = view.kinds["movie"]
       /\ \A k \in candidates(f) :
            LET g == neverKey(k) IN
            /\ g \in left => k \notin watched
            /\ g # None /\ g \notin left => \E p \in plexPlays :
                 itemOf(p) \in members(f, g) /\ (f.since # None => p.at >= f.since)

\* What the play page promises, together.
PlaysAddUp == CountedOnce /\ FiguresAgree /\ TitleStaysNamed /\ NeverPlayedIsUnwatched
=============================================================================

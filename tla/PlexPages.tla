----------------------------- MODULE PlexPages ------------------------------
(***************************************************************************)
(* What a Plex server answers, page by page, and what the monitor reads of *)
(* it: the pager every listing shares, the rows that are kept, and the     *)
(* version an item is described by. A field the server left out, or sent   *)
(* as something else, is Junk; digits sent as a string are their number.   *)
(***************************************************************************)
EXTENDS Integers, Sequences, SequencesExt

CONSTANTS Rows,        \* what a listing may hold, [type, ratingKey, section, entry, account, viewedAt, media]
          MaxRows,     \* rows of the listing
          PageSize     \* the rows a page is asked for

\* A row has the fields that are read: ids in digits, numbers, or Junk; what makes it a
\* kind, and a version's label, are any strings.
ASSUME PagesAssumption ==
  /\ Rows \subseteq [type : STRING, ratingKey : Nat \cup {-1}, section : Nat \cup {-1}, entry : Nat \cup {-1},
                    account : Int, viewedAt : Int, media : Seq([label : STRING, width : Int])]
  /\ MaxRows \in Nat /\ PageSize \in Nat \ {0}

VARIABLES
  listing,     \* the rows the server holds
  offset,       \* where the next page is asked from
  kept,        \* the rows kept so far
  pager        \* building, paging, or how it ended

pageVars == <<listing, offset, kept, pager>>

Junk == -1
KINDS == {"movie", "episode", "track"}

---------------------------------------------------------------------------
\* One field.

integer(value) == value                        \* a number or Junk
key(value) == IF value >= 0 THEN value ELSE Junk
historyId(value) == IF value >= 0 THEN value ELSE Junk

---------------------------------------------------------------------------
\* An item's versions, each [label, width].

RESOLUTION_LABELS ==
  [label \in {"4k", "1080", "1080p", "1080i", "720", "720p", "sd", "480", "576"} |->
     CASE label = "4k" -> "4k" [] label \in {"1080", "1080p", "1080i"} -> "1080p"
       [] label \in {"720", "720p"} -> "720p" [] OTHER -> "sd"]
QUALITY_RANK == [q \in {"4k", "1080p", "720p", "sd", "none"} |->
                   CASE q = "4k" -> 4 [] q = "1080p" -> 3 [] q = "720p" -> 2 [] q = "sd" -> 1 [] OTHER -> 0]

\* Plex's own label, or the width of a file it does not label as it labels others.
qualityBucket(version) ==
  IF version.label \in DOMAIN RESOLUTION_LABELS THEN RESOLUTION_LABELS[version.label]
  ELSE IF version.width <= 0 THEN "none"
  ELSE IF version.width >= 3000 THEN "4k"
  ELSE IF version.width >= 1700 THEN "1080p"
  ELSE IF version.width >= 1200 THEN "720p" ELSE "sd"
rank(version) == QUALITY_RANK[qualityBucket(version)]

NoVersion == [label |-> "", width |-> Junk]

\* The first of the best.
better(best, version) == IF rank(version) > rank(best) THEN version ELSE best
bestMedia(media) == IF media = <<>> THEN NoVersion ELSE FoldLeft(better, media[1], Tail(media))

---------------------------------------------------------------------------
\* Rows: one that cannot be read costs itself.

isItem(row) == row.type \in KINDS /\ key(row.ratingKey) # Junk
isPlay(row) ==
  /\ isItem(row)
  /\ historyId(row.entry) # Junk /\ integer(row.account) # Junk /\ integer(row.viewedAt) # Junk

\* A row's own section wins over the one being listed.
describe(row, sectionId) ==
  LET version == bestMedia(row.media) IN
  [key |-> row.ratingKey, section |-> IF key(row.section) # Junk THEN row.section ELSE sectionId,
   label |-> version.label, width |-> version.width, quality |-> qualityBucket(version)]
itemOf(row, sectionId) == IF isItem(row) THEN <<describe(row, sectionId)>> ELSE <<>>
parseItems(rows, sectionId) == FoldLeft(LAMBDA found, row : found \o itemOf(row, sectionId), <<>>, rows)

playOf(row) ==
  IF isPlay(row)
  THEN <<[id |-> row.entry, key |-> row.ratingKey, section |-> key(row.section), at |-> row.viewedAt]>>
  ELSE <<>>
parseHistory(rows) == FoldLeft(LAMBDA found, row : found \o playOf(row), <<>>, rows)

---------------------------------------------------------------------------
\* The pager. A container names its size, and its total or is the whole answer.

pageInfo(page) ==
  [size |-> page.size, total |-> IF page.total = Junk THEN page.size ELSE page.total]

pageEnds(page) ==
  LET info == pageInfo(page) IN page.size = Junk \/ info.size = 0 \/ offset + info.size >= info.total

\* The page from here, as long as the server makes it; one holding rows answers some.
Pages ==
  {[rows |-> SubSeq(listing, offset + 1, offset + n), size |-> n, total |-> Len(listing)] :
     n \in IF offset >= Len(listing) THEN {0} ELSE 1..(IF offset + PageSize > Len(listing) THEN Len(listing) - offset
                                                     ELSE PageSize)}
keep(rows) == kept' = [items |-> kept.items \o parseItems(rows, 1), plays |-> kept.plays \o parseHistory(rows)]

pageAllBlind ==                \* mutant: the next page begins a page size on
  /\ pager = "paging"
  /\ \E page \in Pages :
       /\ keep(page.rows)
       /\ pager' = IF pageEnds(page) THEN "ended" ELSE "paging"
       /\ offset' = offset + PageSize
  /\ UNCHANGED listing
pageAll ==
  /\ pager = "paging"
  /\ \E page \in Pages :
       /\ keep(page.rows)
       /\ pager' = IF pageEnds(page) THEN "ended" ELSE "paging"
       /\ offset' = offset + page.size
  /\ UNCHANGED listing

\* The request fails for good: answeredOrGone is FALSE of it.
PageLost ==
  /\ pager = "paging"
  /\ pager' = "failed"
  /\ UNCHANGED <<listing, offset, kept>>

\* The server comes to hold one more row, before it is paged.
AddRow ==
  /\ pager = "building" /\ Len(listing) < MaxRows
  /\ \E row \in Rows : listing' = Append(listing, row)
  /\ UNCHANGED <<offset, kept, pager>>

PagingStarts ==
  /\ pager = "building"
  /\ pager' = "paging"
  /\ UNCHANGED <<listing, offset, kept>>

PagesInit == listing = <<>> /\ offset = 0 /\ kept = [items |-> <<>>, plays |-> <<>>] /\ pager = "building"
PagesNext == AddRow \/ PagingStarts \/ pageAll \/ PageLost
PagesSpec == PagesInit /\ [][PagesNext]_pageVars

PagesTypeOK ==
  /\ Len(listing) <= MaxRows /\ offset \in 0..(MaxRows + PageSize) /\ Len(kept.items) <= MaxRows
  /\ pager \in {"building", "paging", "ended", "failed"}

\* However short the server's pages, and whatever rows it garbled, a pager that ended
\* has kept every row that can be kept, once and in order; and the page describes an
\* item by one version, none of whose others is better (client.ts:154-181,
\* plex.ts:309-330).
PagedWhole ==
  /\ pager = "ended" => kept = [items |-> parseItems(listing, 1), plays |-> parseHistory(listing)]
  /\ \A i \in DOMAIN kept.items : \E j \in DOMAIN listing :
       LET item == kept.items[i]  versions == Range(listing[j].media) IN
       /\ isItem(listing[j]) /\ listing[j].ratingKey = item.key
       /\ IF versions = {} THEN item.quality = "none"
          ELSE /\ [label |-> item.label, width |-> item.width] \in versions
               /\ \A v \in versions : rank(v) <= QUALITY_RANK[item.quality]
=============================================================================

--------------------------- MODULE PlexInventory ----------------------------
(***************************************************************************)
(* fleet-monitor's item rows for one Plex server: an inventory pages every *)
(* section and then retires what it did not see, and an enrichment gives   *)
(* every played item without a row one, a stub if the server is silent.    *)
(*                                                                         *)
(* Rounds of the collector's loop follow one another; a round started by   *)
(* hand is a second process on the same database. Each step that writes is *)
(* one session; what it read before its request may be stale by then. The  *)
(* plays are the history pass's (PlexHistory).                             *)
(***************************************************************************)
EXTENDS Integers, Sequences, FiniteSets, FiniteSetsExt

CONSTANTS Shelves,       \* the sections the inventory pages, as sequences of items
          Stalled,        \* items whose metadata request never answers in time
          LibraryPage,       \* LIBRARY_PAGE
          Batch,          \* METADATA_BATCH
          MaxChanges, MaxFaults, MaxByHand,
          NoRow

ASSUME InventoryAssumption ==
  /\ Shelves \in Seq(Seq(Nat))
  /\ {LibraryPage, Batch} \subseteq Nat \ {0}
  /\ {MaxChanges, MaxFaults, MaxByHand} \subseteq Nat
  /\ NoRow \notin [present : BOOLEAN, seen : 0..3]

\* The collector's own rounds, and those run by hand.
Rounds == {"loop", "hand"}
Items == UNION {{Shelves[s][n] : n \in DOMAIN Shelves[s]} : s \in DOMAIN Shelves}

VARIABLES
  library,   \* the items the server holds
  played,    \* the items behind the stored plays
  item,      \* plex_items: presence and the stamp of the round that last saw it
  round,     \* each round under way
  due,       \* the loop's next round takes the inventory
  changes, faults, byHand

libraryVars == <<library, played, changes>>
inventoryVars == <<libraryVars, item, round, due, faults, byHand>>

Row(present, seen) == [present |-> present, seen |-> seen]

\* A round: its stamp, and where it is; for the properties, what the library held
\* when its listing began, until something leaves the library or cuts the listing
\* short, and whether it has had no other round beside it.
NoRound == [stage |-> "idle", now |-> 0]
Listing(now, alone) ==
  [stage |-> "paging", now |-> now, section |-> 1, start |-> 0, failed |-> FALSE,
   held |-> library, alone |-> alone]
Enriching(now) == [stage |-> "enriching", now |-> now]
Asked(now, keys) == [stage |-> "asked", now |-> now, keys |-> keys]
Singly(now, keys) == [stage |-> "singly", now |-> now, keys |-> keys]

at(p, stage) == round[p].stage = stage
listed(p) == at(p, "paging") /\ round[p].section > Len(Shelves)
listingNow(p) == at(p, "paging") /\ round[p].section <= Len(Shelves)
Other(p) == IF p = "loop" THEN "hand" ELSE "loop"

\* Two stamps are under way at most, and rows have older ones: 0..3 is enough to
\* keep their order.
Stamps == 0..3

InventoryTypeOK ==
  /\ library \subseteq Items /\ played \subseteq Items
  /\ item \in [Items -> {NoRow} \union [present : BOOLEAN, seen : Stamps]]
  /\ DOMAIN round = Rounds
  /\ \A p \in Rounds :
       \/ round[p] = NoRound
       \/ round[p] \in [stage : {"paging"}, now : Stamps, section : 1..(Len(Shelves) + 1),
                        start : 0..Cardinality(Items), failed : BOOLEAN,
                        held : {NoRow} \union SUBSET Items, alone : BOOLEAN]
       \/ round[p] \in [stage : {"enriching"}, now : Stamps]
       \/ /\ round[p] \in [stage : {"asked", "singly"}, now : Stamps, keys : SUBSET Items]
          /\ Cardinality(round[p].keys) <= Batch
  /\ due \in BOOLEAN
  /\ changes \in 0..MaxChanges /\ faults \in 0..MaxFaults /\ byHand \in 0..MaxByHand

InventoryInit ==
  /\ library \in SUBSET Items
  /\ played = {}
  /\ item = [i \in Items |-> NoRow]
  /\ round = [p \in Rounds |-> NoRound]
  /\ due = TRUE
  /\ changes = 0 /\ faults = 0 /\ byHand = 0

---------------------------------------------------------------------------
\* The store.

\* Mutant: a row that is there keeps its presence.
upsertItemsKept(rows, seen, now) ==
  [i \in Items |->
     IF i \notin seen THEN rows[i]
     ELSE IF rows[i] = NoRow THEN Row(TRUE, now) ELSE Row(rows[i].present, now)]

\* An item seen again is present again.
upsertItems(rows, seen, now) ==
  [i \in Items |-> IF i \in seen THEN Row(TRUE, now) ELSE rows[i]]

stubMissingItems(rows, keys, now) ==
  [i \in Items |-> IF i \in keys /\ rows[i] = NoRow THEN Row(FALSE, now) ELSE rows[i]]

retireUnseenItems(rows, now) ==
  [i \in Items |->
     IF rows[i] # NoRow /\ rows[i].seen < now THEN Row(FALSE, rows[i].seen) ELSE rows[i]]

missing == {i \in played : item[i] = NoRow}
missingItemKeys ==
  {i \in missing : Cardinality({j \in missing : j < i}) < Batch}

\* storeAnswered: what the server described is kept, and the rest is stubbed.
storeAnswered(rows, keys, answered, now) ==
  stubMissingItems(upsertItems(rows, answered, now), keys \ answered, now)

---------------------------------------------------------------------------
\* The inventory.

shelf(s) == {i \in library : \E n \in DOMAIN Shelves[s] : Shelves[s][n] = i}
shelfPage(s, start) ==
  {i \in shelf(s) : Cardinality({j \in shelf(s) : j < i}) \in start..(start + LibraryPage - 1)}
lastShelfPage(s, start, rows) ==
  rows = {} \/ start + Cardinality(rows) >= Cardinality(shelf(s))

\* What the properties go by once a listing is cut short.
disturbed(r) == [r EXCEPT !.held = NoRow, !.alone = FALSE]

\* One section after another, and every one of them even after a failure.
nextSection(r, failed) ==
  [r EXCEPT !.section = @ + 1, !.start = 0, !.failed = @ \/ failed]

\* pageSection: a page lands with the round's stamp.
KeepItems(p) ==
  /\ listingNow(p)
  /\ LET s == round[p].section
         rows == shelfPage(s, round[p].start)
     IN /\ item' = upsertItems(item, rows, round[p].now)
        /\ round' = [round EXCEPT ![p] =
                       IF lastShelfPage(s, round[p].start, rows) THEN nextSection(@, FALSE)
                       ELSE [round[p] EXCEPT !.start = @ + Cardinality(rows)]]
  /\ UNCHANGED <<libraryVars, due, faults, byHand>>

\* syncLibrary's end: a complete run retires what it did not see, and a failed one
\* is owed to the next round.
Complete(p) ==
  /\ listed(p)
  /\ item' = IF round[p].failed THEN item ELSE retireUnseenItems(item, round[p].now)
  /\ due' = IF p = "loop" THEN round[p].failed ELSE due
  /\ round' = [round EXCEPT ![p] = Enriching(@.now)]
  /\ UNCHANGED <<libraryVars, faults, byHand>>

Fault == faults < MaxFaults /\ faults' = faults + 1

\* A page was not answered, or a 200 without a page in it was taken for the
\* section's end.
PageFails(p) ==
  /\ Fault
  /\ listingNow(p)
  /\ \/ round' = [round EXCEPT ![p] = nextSection(@, TRUE)]
     \/ round' = [round EXCEPT ![p] = disturbed(nextSection(@, FALSE))]
  /\ UNCHANGED <<libraryVars, item, due, byHand>>

\* The section listing was not answered: nothing is paged, and none is retired.
SectionsFail(p) ==
  /\ Fault
  /\ at(p, "paging") /\ round[p].section = 1 /\ round[p].start = 0
  /\ round' = [round EXCEPT ![p] = Enriching(@.now)]
  /\ due' = (due \/ p = "loop")
  /\ UNCHANGED <<libraryVars, item, byHand>>

---------------------------------------------------------------------------
\* Rounds.

\* A round's stamp is newer than any before it. Stamps are renumbered as it
\* begins, keeping their order: 0, the other round's 1, what is newer 2, and 3.
renumbered(n, other) ==
  IF other = 0 \/ n < other THEN 0 ELSE IF n = other THEN 1 ELSE 2

\* syncHost: the round begins, its history pass has reached the server, and it
\* takes the inventory first if that is due.
BeginRound(p) ==
  /\ round[p] = NoRound
  /\ byHand' = IF p = "hand" THEN byHand + 1 ELSE byHand
  /\ byHand' <= MaxByHand
  /\ LET o == Other(p)
         other == round[o].now
         alongside == IF round[o] = NoRound THEN NoRound
                      ELSE IF at(o, "paging")
                      THEN [round[o] EXCEPT !.now = 1, !.alone = FALSE]
                      ELSE [round[o] EXCEPT !.now = 1]
     IN /\ item' = [i \in Items |->
                      IF item[i] = NoRow THEN NoRow
                      ELSE Row(item[i].present, renumbered(item[i].seen, other))]
        /\ \E inventory \in {TRUE, due \/ p = "hand"} :
             round' = [q \in Rounds |->
                         IF q = o THEN alongside
                         ELSE IF inventory THEN Listing(3, round[o] = NoRound)
                         ELSE Enriching(3)]
  /\ UNCHANGED <<libraryVars, due, faults>>

\* The process dies or is told to stop. A collector that starts again begins with
\* the inventory.
Crash(p) ==
  /\ Fault
  /\ round[p] # NoRound
  /\ round' = [round EXCEPT ![p] = NoRound]
  /\ due' = (due \/ p = "loop")
  /\ UNCHANGED <<libraryVars, item, byHand>>

---------------------------------------------------------------------------
\* The enrichment.

\* enrichItems asks for a batch of the items that have no row, if there are any.
AskBatch(p) ==
  /\ at(p, "enriching")
  /\ round' = [round EXCEPT ![p] =
                 IF missing = {} THEN NoRound ELSE Asked(@.now, missingItemKeys)]
  /\ UNCHANGED <<libraryVars, item, due, faults, byHand>>

\* The server answers for the items it still holds.
BatchAnswered(p) ==
  /\ at(p, "asked")
  /\ round[p].keys \intersect Stalled = {}
  /\ item' = storeAnswered(item, round[p].keys, round[p].keys \intersect library, round[p].now)
  /\ round' = [round EXCEPT ![p] = Enriching(@.now)]
  /\ UNCHANGED <<libraryVars, due, faults, byHand>>

\* One key can stall a whole batch: each is asked for alone.
BatchStalls(p) ==
  /\ at(p, "asked")
  /\ round[p].keys \intersect Stalled # {}
  /\ round' = [round EXCEPT ![p] = Singly(@.now, @.keys)]
  /\ UNCHANGED <<libraryVars, item, due, faults, byHand>>

\* enrichSingly, in order: a key that stalls alone is stubbed as absent.
AskSingly(p) ==
  /\ at(p, "singly")
  /\ LET k == Min(round[p].keys)
         rest == round[p].keys \ {k}
     IN /\ item' = storeAnswered(item, {k}, ({k} \intersect library) \ Stalled, round[p].now)
        /\ round' = [round EXCEPT ![p] =
                       IF rest = {} THEN Enriching(@.now) ELSE Singly(@.now, rest)]
  /\ UNCHANGED <<libraryVars, due, faults, byHand>>

\* Any other failure is the server not answering, and ends the pass.
EnrichFails(p) ==
  /\ Fault
  /\ at(p, "asked") \/ at(p, "singly")
  /\ round' = [round EXCEPT ![p] = NoRound]
  /\ UNCHANGED <<libraryVars, item, due, byHand>>

---------------------------------------------------------------------------
\* The server.

Change == changes < MaxChanges /\ changes' = changes + 1

AddItem(i) ==
  /\ Change
  /\ i \notin library
  /\ library' = library \union {i}
  /\ UNCHANGED <<played, item, round, due, faults, byHand>>

\* An item that goes shifts the pages of the listings under way.
RemoveItem(i) ==
  /\ Change
  /\ i \in library
  /\ library' = library \ {i}
  /\ round' = [p \in Rounds |->
                 IF at(p, "paging") THEN disturbed(round[p]) ELSE round[p]]
  /\ UNCHANGED <<played, item, due, faults, byHand>>

\* The history pass stores a play of an item.
Play(i) ==
  /\ Change
  /\ i \in library \ played
  /\ played' = played \union {i}
  /\ UNCHANGED <<library, item, round, due, faults, byHand>>

RoundStep(p) ==
  KeepItems(p) \/ Complete(p) \/ AskBatch(p) \/ BatchAnswered(p) \/ BatchStalls(p) \/ AskSingly(p)

InventoryNext ==
  \/ \E p \in Rounds :
       \/ BeginRound(p) \/ RoundStep(p)
       \/ PageFails(p) \/ SectionsFail(p) \/ EnrichFails(p) \/ Crash(p)
  \/ \E i \in Items : AddItem(i) \/ RemoveItem(i) \/ Play(i)

InventorySpec == InventoryInit /\ [][InventoryNext]_inventoryVars

\* The loop begins round after round, each of its requests ends, and an inventory
\* comes round again after PLEX_LIBRARY_INTERVAL.
InventoryFairSpec ==
  /\ InventorySpec
  /\ WF_inventoryVars(BeginRound("loop") \/ RoundStep("loop"))
  /\ SF_inventoryVars(BeginRound("loop") /\ at("loop", "paging")')

---------------------------------------------------------------------------
\* Properties.

present == {i \in Items : item[i] # NoRow /\ item[i].present}

\* Round p completes its inventory in this step.
Completes(p) == listed(p) /\ round'[p].stage = "enriching" /\ ~round[p].failed

\* Items are retired only after a complete run: one that paged every section to
\* its end, with no other round beside it and nothing leaving the library
\* meanwhile, leaves present what the library held, and nothing it no longer does.
CleanRunIsExact ==
  [][\A p \in Rounds :
       Completes(p) /\ round[p].held # NoRow /\ round[p].alone =>
         round[p].held \subseteq present' /\ present' \subseteq library']_inventoryVars

\* A stalled key does not block the items behind it: once requests are answered
\* or stall, every played item comes to have a row.
EveryPlayedItemGetsRow == <>[](missing = {})

\* Whatever races, failures and crashes left behind, the loop's inventories bring
\* the rows back to the library: "the inventory is the authority".
LibrarySettles == <>[](present = library)
=============================================================================

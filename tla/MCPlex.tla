------------------------------- MODULE MCPlex -------------------------------
(***************************************************************************)
(* The passes over one Plex server, part by part: a behaviour is of one    *)
(* part from its start, so the parts' states add up and none multiplies    *)
(* another's. History: three plays, the first in an excluded library, the  *)
(* third a row of a kind the page does not count. Inventory: two sections, *)
(* of two items and of one; the first item is the one whose metadata       *)
(* request stalls, so it leads every batch it is in.                       *)
(***************************************************************************)
EXTENDS PlexHistory, PlexInventory, PlexPages, PlexLedger

VARIABLE part

MCExcluded == {1}
MCUnparsed == {3}
MCShelves == <<<<1, 2>>, <<3>>>>
MCStalled == {1}

\* A listing: items of two and three versions, labelled, oddly labelled and not; one
\* without video, which names a section of its own; one of a kind that is not kept and
\* one without a key.
Version(label, width) == [label |-> label, width |-> width]
Listed(type, k, media) ==
  [type |-> type, ratingKey |-> k, section |-> -1, entry |-> k, account |-> 1, viewedAt |-> 1, media |-> media]
MCListing ==
  {Listed("movie", 1, <<Version("1080", 1920), Version("4k", 3840)>>),
   Listed("movie", 2, <<Version("odd", 1280), Version("", 3840), Version("576", 700)>>),
   [Listed("track", 3, <<>>) EXCEPT !.section = 2], Listed("clip", 4, <<>>), Listed("movie", -1, <<Version("4k", 1)>>),
   Listed("episode", 5, <<Version("", 0), Version("", 1900)>>)}

\* The rule: a library with a folder inside the excluded one and one outside it, and
\* one all inside; plays that name their library and one that does not.
MCLocations == <<{<<"vol", "tmp">>, <<"vol", "films">>}, {<<"vol", "tmp", "a">>}>>
MCRules == {{}, {<<"vol", "tmp">>}}
MCTitles ==
  {[section |-> 1, named |-> TRUE], [section |-> 2, named |-> TRUE], [section |-> 2, named |-> FALSE]}

---------------------------------------------------------------------------

Parts == {"history", "inventory", "pages", "ledger"}

\* A library begins with every item.
PlexInit ==
  /\ part \in Parts
  /\ HistoryInit /\ InventoryInit /\ PagesInit /\ LedgerInit
  /\ library = IF part = "inventory" THEN Items ELSE {}
  /\ part # "ledger" => folders = {}

PlexNext ==
  /\ UNCHANGED part
  /\ \/ part = "history" /\ HistoryNext /\ UNCHANGED <<inventoryVars, pageVars, ledgerVars>>
     \/ part = "inventory" /\ InventoryNext /\ UNCHANGED <<historyVars, pageVars, ledgerVars>>
     \/ part = "pages" /\ PagesNext /\ UNCHANGED <<historyVars, inventoryVars, ledgerVars>>
     \/ part = "ledger" /\ LedgerNext /\ UNCHANGED <<historyVars, inventoryVars, pageVars>>

allPlexVars == <<part, historyVars, inventoryVars, pageVars, ledgerVars>>

\* Fairness is the history pass's and the inventory's, where it is that part that moves.
InHistory(A) == part = "history" /\ A /\ UNCHANGED <<part, inventoryVars, pageVars, ledgerVars>>
InInventory(A) == part = "inventory" /\ A /\ UNCHANGED <<part, historyVars, pageVars, ledgerVars>>
PlexFairness ==
  /\ WF_allPlexVars(InHistory(PassStep("loop")))
  /\ WF_allPlexVars(InInventory(BeginRound("loop") \/ RoundStep("loop")))
  /\ SF_allPlexVars(InInventory(BeginRound("loop") /\ at("loop", "paging")'))

PlexSpec == PlexInit /\ [][PlexNext]_allPlexVars /\ PlexFairness

\* A pass that says it is done is: the history it asked for is all in the ledger, a
\* clean inventory run leaves exactly the rows of what Plex has, and each pass and each
\* purge leaves the ledger as the rule in force has it.
PassesAreExact == SyncIsComplete /\ CleanRunIsExact /\ LedgerKeepsRule

\* All is known in the end, whatever stalls and whichever passes stop: every play is
\* stored, an item that was played gets its row, and once the library is left alone
\* the rows are its items.
EverythingArrives == EveryPlayArrives /\ EveryPlayedItemGetsRow /\ LibrarySettles

\* Every part's state is well-typed.
PlexTypeOK == HistoryTypeOK /\ InventoryTypeOK /\ PagesTypeOK /\ LedgerTypeOK
=============================================================================

----------------------------- MODULE PlexLedger -----------------------------
(***************************************************************************)
(* The exclusion rule over one Plex server's ledger: the libraries whose   *)
(* every folder is excluded are marked by the inventory, which deletes     *)
(* what is stored of them, and dropped by the history passes after it.     *)
(* Rounds of the loop follow one another; one run by hand is a process of  *)
(* its own beside them. Each step that writes is one session. A play's     *)
(* number is its place in the server's ledger and the time it was viewed.  *)
(***************************************************************************)
EXTENDS Integers, Sequences, FiniteSetsExt

CONSTANTS Locations,   \* each section's folders, as sets of paths of segments
          Rules,       \* the lists of excluded folders an operator may set
          Titles,      \* the items plays are of, each [section, named]
          LedgerOverlap, \* OVERLAP_SECONDS
          LedgerPage,  \* HISTORY_PAGE
          MaxLedger,   \* plays of the server's history
          MaxUpsets    \* restarts, rounds by hand and failed requests together

\* A section's key is a positive number, and a title is of a section the server has.
ASSUME LedgerAssumption ==
  /\ DOMAIN Locations \subseteq Nat \ {0}
  /\ Titles \subseteq [section : DOMAIN Locations, named : BOOLEAN]
  /\ LedgerOverlap \in Nat /\ LedgerPage \in Nat \ {0}

VARIABLES
  ledger,      \* the server's own history: the title of each play
  folders,     \* the rule in force
  sections,    \* plex_sections: the excluded mark of each section listed so far
  stored,      \* plex_plays: the plays stored
  described,   \* plex_items: the titles with a row
  server,      \* plex_servers: the cursor, and how the last passes went
  rounds,      \* the round of the loop and the one by hand
  upsets       \* what has come between so far

ledgerVars == <<ledger, folders, sections, stored, described, server, rounds, upsets>>
Upset == upsets < MaxUpsets /\ upsets' = upsets + 1

Makers == {"loop", "hand"}
Sections == DOMAIN Locations
Plays == DOMAIN ledger

under(path, folder) == Len(folder) <= Len(path) /\ SubSeq(path, 1, Len(folder)) = folder

\* The sections whose every folder is in an excluded one; one without a folder is not.
excludedSections(rule) ==
  {s \in Sections : Locations[s] # {} /\ \A path \in Locations[s] : \E folder \in rule : under(path, folder)}

\* The section a play's row names, none for some; its item's row always does.
NoSection == 0
namedBy(n) == IF ledger[n].named THEN ledger[n].section ELSE NoSection

---------------------------------------------------------------------------
\* The store.

excludedSectionIds == {s \in DOMAIN sections : sections[s]}

upsertSectionsOnce(excluded) ==    \* mutant: a section listed before keeps its mark
  sections' = [s \in Sections |-> IF s \in DOMAIN sections THEN sections[s] ELSE s \in excluded]
upsertSections(excluded) == sections' = [s \in Sections |-> s \in excluded]

\* Plays by their own section and by their item's, then the items.
purgeExcluded(excluded) ==
  /\ stored' = {n \in stored : namedBy(n) \notin excluded
                               /\ ~(ledger[n] \in described /\ ledger[n].section \in excluded)}
  /\ described' = {t \in described : t.section \notin excluded}

markHistory(ok) == server' = [server EXCEPT !.history_ok = ok]
markLibrary(ok) == server' = [server EXCEPT !.library_ok = ok]

---------------------------------------------------------------------------
\* A round: where it is, what it read before asking, and for the property what the
\* ledger and the store held when it began, unless another round has been beside it.

Idle == [at |-> "idle", excluded |-> {}, since |-> 0, next |-> 0, inventory |-> FALSE, alone |-> FALSE, held |-> {}, had |-> {}]
beside(r) == IF r.at = "idle" THEN r ELSE [r EXCEPT !.alone = FALSE]
Set(who, r) == rounds' = [rounds EXCEPT ![who] = r]
roundOf(who) == rounds[who]

lookback == 0    \* the first backfill reaches past every play of the model

\* The server says who it is: the pass reads its cursor and what to leave out.
syncHistory(who) ==
  /\ roundOf(who).at = "idle"
  /\ IF who = "hand" THEN Upset ELSE UNCHANGED upsets
  /\ LET since == IF server.cursor = 0 THEN lookback ELSE server.cursor - LedgerOverlap
         other == CHOOSE m \in Makers : m # who
     IN \E inventory \in {TRUE, who = "hand"} :
          rounds' = [m \in Makers |->
            IF m # who THEN beside(rounds[m])
            ELSE [at |-> "paging", excluded |-> excludedSectionIds, since |-> since, next |-> Max({since, 1}),
                  inventory |-> inventory, alone |-> rounds[other].at = "idle", held |-> Plays, had |-> stored]]
  /\ UNCHANGED <<ledger, folders, sections, stored, described, server>>

\* A page: the plays that are not left out are stored and the cursor moves, in one
\* session.
pageOf(who) == Plays \intersect (roundOf(who).next)..(roundOf(who).next + LedgerPage - 1)
keptOf(who) == {n \in pageOf(who) : namedBy(n) = NoSection \/ namedBy(n) \notin roundOf(who).excluded}
lastPageOf(who) == Plays \subseteq 0..(roundOf(who).next + LedgerPage - 1)

pageHistory(who) ==
  /\ roundOf(who).at = "paging"
  /\ stored' = stored \union keptOf(who)
  /\ server' = IF pageOf(who) = {} THEN server ELSE [server EXCEPT !.cursor = Max(pageOf(who))]
  /\ Set(who, IF lastPageOf(who) THEN [roundOf(who) EXCEPT !.at = IF roundOf(who).inventory THEN "paged" ELSE "enriching"]
              ELSE [roundOf(who) EXCEPT !.next = @ + LedgerPage])
  /\ UNCHANGED <<ledger, folders, sections, described, upsets>>

\* The items behind the stored plays that have no row get one.
enrichItems(who) ==
  /\ roundOf(who).at \in {"enriching", "last"}
  /\ described' = described \union {ledger[n] : n \in stored}
  /\ Set(who, IF roundOf(who).at = "last" THEN Idle ELSE [roundOf(who) EXCEPT !.at = "paged"])
  /\ UNCHANGED <<ledger, folders, sections, stored, server, upsets>>

\* The pass is over: the inventory follows if it is due.
historyPassed(who) ==
  /\ roundOf(who).at = "paged"
  /\ markHistory(TRUE)
  /\ Set(who, IF roundOf(who).inventory THEN [roundOf(who) EXCEPT !.at = "listing"] ELSE Idle)
  /\ UNCHANGED <<ledger, folders, sections, stored, described, upsets>>

\* The listing: the sections are marked and the excluded ones' plays and items go.
listSections(who) ==
  /\ roundOf(who).at = "listing"
  /\ upsertSections(excludedSections(folders))
  /\ purgeExcluded(excludedSections(folders))
  /\ Set(who, [roundOf(who) EXCEPT !.at = "inventory", !.excluded = excludedSections(folders)])
  /\ UNCHANGED <<ledger, folders, server, upsets>>

\* The other sections' items are listed, a page a session (PlexInventory).
syncLibrary(who) ==
  /\ roundOf(who).at = "inventory"
  /\ described' = described \union {t \in Titles : t.section \notin roundOf(who).excluded}
  /\ markLibrary(TRUE)
  /\ Set(who, [roundOf(who) EXCEPT !.at = "last"])
  /\ UNCHANGED <<ledger, folders, sections, stored, upsets>>

\* A request fails: what is committed stays, and the round goes no further than the
\* enrichment after a failed inventory.
Fails(who) ==
  /\ Upset
  /\ \/ /\ roundOf(who).at \in {"paging", "enriching"}
        /\ markHistory(FALSE) /\ Set(who, Idle)
     \/ /\ roundOf(who).at \in {"listing", "inventory"}
        /\ markLibrary(FALSE) /\ Set(who, [roundOf(who) EXCEPT !.at = "last"])
     \/ /\ roundOf(who).at = "last"
        /\ Set(who, Idle) /\ UNCHANGED server
  /\ UNCHANGED <<ledger, folders, sections, stored, described>>

\* The collector starts again, with the list of folders it now finds set.
LedgerRestart ==
  /\ Upset
  /\ rounds["hand"].at = "idle"
  /\ folders' \in Rules
  /\ Set("loop", Idle)
  /\ UNCHANGED <<ledger, sections, stored, described, server>>

\* Someone watches something through.
Viewed ==
  /\ Len(ledger) < MaxLedger
  /\ \E t \in Titles : ledger' = Append(ledger, t)
  /\ UNCHANGED <<folders, sections, stored, described, server, rounds, upsets>>

LedgerInit ==
  /\ ledger = <<>> /\ folders \in Rules
  /\ sections = <<>> /\ stored = {} /\ described = {}
  /\ server = [cursor |-> 0, history_ok |-> FALSE, library_ok |-> FALSE]
  /\ rounds = [m \in Makers |-> Idle]
  /\ upsets = 0

LedgerNext ==
  \/ \E who \in Makers :
       \/ syncHistory(who) \/ pageHistory(who) \/ enrichItems(who) \/ historyPassed(who)
       \/ listSections(who) \/ syncLibrary(who) \/ Fails(who)
  \/ LedgerRestart \/ Viewed

LedgerSpec == LedgerInit /\ [][LedgerNext]_ledgerVars

LedgerTypeOK ==
  /\ Len(ledger) <= MaxLedger /\ folders \in Rules
  /\ DOMAIN sections \subseteq Sections
  /\ stored \subseteq Plays /\ described \subseteq Titles /\ server.cursor \in 0..MaxLedger
  /\ \A m \in Makers : rounds[m].at \in {"idle", "paging", "enriching", "paged", "listing", "inventory", "last"}

\* A pass that ends well, alone, while the marks are those of the rule in force, has
\* left the ledger as the rule has it: every play of a kept library that the overlap
\* reaches is stored, also one the marks of an older rule had dropped, and none it
\* added names an excluded one (history.ts:36-39, ledger.ts:357-363).
PassObeysRule ==
  \A m \in Makers :
       LET r == rounds[m]  excluded == excludedSections(folders) IN
       historyPassed(m) /\ r.alone /\ r.excluded = excluded =>
         /\ {n \in r.held : n >= r.since /\ ledger[n].section \notin excluded} \subseteq stored'
         /\ \A n \in stored' \ r.had : namedBy(n) \notin excluded

\* An inventory leaves no play or item of an excluded library that it can tell for one,
\* and takes none of a library that is kept (ledger.ts:370-376, inventory.ts:37-44).
PurgeIsExact ==
  \A m \in Makers :
       LET excluded == excludedSections(folders) IN
       listSections(m) =>
         /\ \A n \in stored' : namedBy(n) \notin excluded
         /\ \A n \in stored \ stored' : ledger[n].section \in excluded
         /\ excluded = {s \in DOMAIN sections' : sections'[s]}

\* Both, of every step.
LedgerKeepsRule == [][PassObeysRule /\ PurgeIsExact]_ledgerVars
=============================================================================

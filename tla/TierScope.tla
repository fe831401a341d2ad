----------------------------- MODULE TierScope ------------------------------
(***************************************************************************)
(* Which libraries a tier grants, resolved from Wizarr's cached list, and  *)
(* the checks of that list against Plex. A library row is its id; its      *)
(* name, which Plex can change, comes with the list that was read.         *)
(***************************************************************************)
EXTENDS FiniteSets

CONSTANTS Tiers,       \* the tiers offered, of bronze, silver, gold and youth
          Libraries,   \* library ids
          Enabled,     \* those enabled in Wizarr
          Checkable,   \* those whose section id Wizarr knows
          ServerOf,    \* [Libraries -> servers \union {NoServer}]
          Retired,     \* RETIRED_SERVERS
          Names,       \* library names: a title behind an ordering prefix
          FourK,       \* titles that start with 4K
          Allowlist,   \* YOUTH_LIBRARY_TITLES
          NoServer, Gone, Unanswered, Unreachable

\* A list names each library, or leaves it out.
Lists == [Libraries -> Names \union {Gone}]
listed(list) == {l \in Libraries : list[l] # Gone}

Servers == {ServerOf[l] : l \in Libraries} \ {NoServer}

\* What plex.tv says of each library: its live name, that it is gone, or nothing,
\* where the answer leaves the library's server out.
LiveSections == [Libraries -> Names \union {Gone, Unanswered}]

ASSUME ScopeAssumption ==
  /\ Tiers \subseteq {"bronze", "silver", "gold", "youth"}
  /\ Enabled \subseteq Libraries /\ Checkable \subseteq Libraries
  /\ Libraries = DOMAIN ServerOf
  /\ \A n \in Names : n.prefix \in {"none", "ordering", "private"}
  /\ {Gone, Unanswered} \intersect Names = {} /\ Gone # Unanswered
  /\ Unreachable \notin LiveSections

libraryTitle(name) == name.title
is4k(name) == libraryTitle(name) \in FourK
isPrivate(name) == name.prefix = "private"
isOnShareServer(l) == ServerOf[l] \notin Retired \union {NoServer}

tierWants(tier, name) ==
  CASE tier = "bronze" -> ~is4k(name)
    [] tier = "youth"  -> libraryTitle(name) \in Allowlist
    [] OTHER           -> TRUE

\* The rows of a list that a tier shares.
shareableLibraries(tier, rows, list) ==
  {l \in rows \intersect Enabled :
     isOnShareServer(l) /\ tierWants(tier, list[l]) /\ ~isPrivate(list[l])}

missingTitles(tier, shareable, list) ==
  IF tier = "youth" THEN Allowlist \ {libraryTitle(list[l]) : l \in shareable} ELSE {}

\* Mutant: only an empty tier is a problem.
tierScopeProblemsEmpty(rows, list) == {t \in Tiers : shareableLibraries(t, rows, list) = {}}

\* The tiers whose scope is empty, or lacks a title it is meant to have.
tierScopeProblems(rows, list) ==
  {t \in Tiers :
     LET shareable == shareableLibraries(t, rows, list)
     IN shareable = {} \/ missingTitles(t, shareable, list) # {}}

\* The sections plex.tv has, of the servers in its answer.
liveSections(names, answering) ==
  [l \in Libraries |-> IF ServerOf[l] \in answering THEN names[l] ELSE Unanswered]

\* Every answer it may give, or nothing to check against.
liveSectionsOrNone(names) ==
  {liveSections(names, answering) : answering \in SUBSET Servers} \union {Unreachable}

\* Mutant: a name that kept its title is taken for current.
staleLibrariesByTitle(list, live) ==
  IF live = Unreachable THEN {}
  ELSE {l \in listed(list) \intersect Enabled \intersect Checkable :
          isOnShareServer(l) /\ live[l] # Unanswered
            /\ (live[l] = Gone \/ libraryTitle(live[l]) # libraryTitle(list[l]))}

\* Mutant: a server that is not in the answer has lost its libraries.
staleLibrariesUnlisted(list, live) ==
  IF live = Unreachable THEN {}
  ELSE {l \in listed(list) \intersect Enabled \intersect Checkable :
          isOnShareServer(l) /\ live[l] # list[l]}

\* The rows whose name Plex no longer answers to. Where nothing is known, of all of
\* Plex or of one server, nothing is stale.
staleLibraries(list, live) ==
  IF live = Unreachable THEN {}
  ELSE {l \in listed(list) \intersect Enabled \intersect Checkable :
          isOnShareServer(l) /\ live[l] \notin {list[l], Unanswered}}

withoutStale(list, live) == listed(list) \ staleLibraries(list, live)

\* What the check says of each server whose cache is stale.
libraryCacheProblems(list, live) ==
  {<<ServerOf[l], list[l], live[l]>> : l \in staleLibraries(list, live)}
=============================================================================

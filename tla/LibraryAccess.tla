---------------------------- MODULE LibraryAccess ----------------------------
(***************************************************************************)
(* What the portal says of each library of a member: the names the tier    *)
(* grants, from Wizarr's cached list, set against the names plex.tv shares *)
(* with them. DriftAlarms moves the two lists, TierScope reads them.       *)
(***************************************************************************)
EXTENDS DriftAlarms

\* That plex.tv could not be read is not itself something it might have said.
ASSUME AccessAssumption ==
  \A on \in SUBSET Servers :
    Unreachable \notin [on -> [all_libraries : BOOLEAN, libraries : SUBSET Names]]

\* The names a tier grants on each server.
tierServerLibraries(tier, list) ==
  LET shareable == shareableLibraries(tier, listed(list), list)
  IN [s \in Servers |-> {list[l] : l \in {k \in shareable : ServerOf[k] = s}}]

\* What plex.tv says of one account, of the servers shared with it: whether whole,
\* which need not come with its libraries, and the sections shared, by their live titles.
sharedAccess(on, whole, sections, live) ==
  [s \in on |-> [all_libraries |-> s \in whole,
                 libraries     |-> {live[l] : l \in {k \in sections : ServerOf[k] = s}}]]

\* No share on a server is one of nothing; plex.tv unread says neither.
noShare == [all_libraries |-> FALSE, libraries |-> {}]
shareOn(sharing, s) == IF s \in DOMAIN sharing THEN sharing[s] ELSE noShare

resolveState(isEntitled, isShared) ==
  IF ~isEntitled THEN "not-entitled" ELSE IF isShared THEN "shared" ELSE "not-shared"

\* The member page: each name granted or shared, and how the two agree on it.
buildServerAccess(entitled, sharing) ==
  [s \in Servers |->
     IF sharing = Unreachable THEN [n \in entitled[s] |-> "unknown"]
     ELSE LET share == shareOn(sharing, s) IN
          [n \in entitled[s] \union share.libraries |->
             resolveState(n \in entitled[s], share.all_libraries \/ n \in share.libraries)]]

\* The members list: the names shared where there is a share, else those granted.
withShare(entitled, sharing) ==
  [s \in Servers |-> IF s \in DOMAIN sharing THEN sharing[s].libraries ELSE entitled[s]]

---------------------------------------------------------------------------
\* Properties.

\* Another library of the server has, in either list, a name this one has in either:
\* the page knows libraries by name alone and cannot tell such two apart.
namesake(l) ==
  \E k \in Libraries \ {l} :
    /\ ServerOf[k] = ServerOf[l]
    /\ ({cached[k], plex[k]} \intersect {cached[l], plex[l]}) \ {Gone} # {}

\* The member page is right about access, or the drift alarm's check says why not.
\* A library the tier grants reads as shared exactly when Plex shares its section,
\* and one it does not grant as not entitled, whatever was renamed, removed or left
\* unscanned since, unless the cache check would name that library when plex.tv
\* answers for its server, or it has a namesake.
AccessIsTold ==
  LET judged == {k \in Checkable \ staleLibraries(cached, liveSections(plex, Servers)) : ~namesake(k)} IN
  \A tier \in Tiers :
    LET granted  == shareableLibraries(tier, listed(cached), cached)
        entitled == tierServerLibraries(tier, cached)
    IN \A on \in SUBSET Servers, sections \in SUBSET listed(plex) : \A whole \in SUBSET on :
         LET given     == {l \in sections : ServerOf[l] \in on}
             page      == buildServerAccess(entitled, sharedAccess(on, whole, given, plex))
             shares(l) == l \in given \/ (l \in listed(plex) /\ ServerOf[l] \in whole)
         IN \A l \in judged :
              /\ l \in granted => (page[ServerOf[l]][cached[l]] = "shared" <=> shares(l))
              /\ l \in given \ granted => page[ServerOf[l]][plex[l]] = "not-entitled"

\* The list and the page name the same libraries of a server shared one by one.
ListAgreesWithPage ==
  \A tier \in Tiers :
    LET entitled == tierServerLibraries(tier, cached) IN
    \A on \in SUBSET Servers, sections \in SUBSET listed(plex) :
      LET given   == {l \in sections : ServerOf[l] \in on}
          sharing == sharedAccess(on, {}, given, plex)
          page    == buildServerAccess(entitled, sharing)
          named == withShare(entitled, sharing)
      IN \A s \in on :
           named[s] = {n \in DOMAIN page[s] : page[s][n] \in {"shared", "not-entitled"}}
=============================================================================

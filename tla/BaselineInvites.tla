-------------------------- MODULE BaselineInvites ---------------------------
(***************************************************************************)
(* The baseline invites, one a tier and night, that a prospective member   *)
(* is handed: every night the rotation mints a fresh one for each tier     *)
(* whose scope holds, and then reaps its own that have expired. Meanwhile  *)
(* libraries are renamed on Plex, and Wizarr's cache follows when someone  *)
(* rescans it.                                                             *)
(*                                                                         *)
(* A step is the code between two awaits. An invite is known by its tier   *)
(* and by how many nights ago it was minted, as a tier gets one a night at *)
(* most. A night's rotation is over before the next begins (loops.ts sets  *)
(* its timer only then).                                                   *)
(***************************************************************************)
EXTENDS TierScope, Naturals

CONSTANTS ExpiresDays,   \* baselineExpiresDays
          MaxRenames, MaxFaults

ASSUME BaselineAssumption ==
  /\ ExpiresDays \in Nat \ {0}
  /\ {MaxRenames, MaxFaults} \subseteq Nat

VARIABLES
  plex,      \* the libraries' names on Plex
  cache,     \* their names in Wizarr
  invites,   \* baseline invites Wizarr holds
  rows,      \* baseline_invites
  night,     \* the rotation under way
  rotated,   \* tonight's rotation has begun, or was missed
  renames, faults,
  sound      \* history: nights since a tier's scope and its minting were both sound

libraryVars == <<plex, cache, renames>>
storeVars == <<invites, rows>>
vars == <<libraryVars, storeVars, night, rotated, faults, sound>>

Ages == 0..(ExpiresDays + 2 + MaxFaults)
Invites == [tier : Tiers, age : Ages]

Invite(t, age) == [tier |-> t, age |-> age]

\* A night's rotation: the list it read, the tiers still to mint, and the rows
\* still to judge against the invitations listed. For the properties, the tiers
\* that were whole when it began and whose minting has met no fault.
Idle == [stage |-> "idle"]
Listed(list) == [stage |-> "libraries", list |-> list]
Minting(todo, whole) == [stage |-> "minting", todo |-> todo, whole |-> whole]
Minted == [stage |-> "minted"]
Reaping(list, due) == [stage |-> "reaping", list |-> list, due |-> due]

at(stage) == night.stage = stage

TypeOK ==
  /\ plex \in Lists /\ cache \in Lists
  /\ invites \subseteq Invites /\ rows \subseteq Invites
  /\ \/ night = Idle
     \/ night \in [stage : {"libraries"}, list : Lists]
     \/ night \in [stage : {"minting"}, todo : SUBSET Tiers, whole : SUBSET Tiers]
     \/ night \in [stage : {"minted"}]
     \/ night \in [stage : {"reaping"}, list : SUBSET Invites, due : SUBSET rows]
  /\ rotated \in BOOLEAN
  /\ renames \in 0..MaxRenames /\ faults \in 0..MaxFaults
  /\ sound \in [Tiers -> 0..ExpiresDays]

\* A deployment starts with a current cache, and has no invites yet.
Init ==
  /\ plex \in Lists
  /\ tierScopeProblems(listed(plex), plex) = {}
  /\ cache = plex
  /\ invites = {} /\ rows = {}
  /\ night = Idle
  /\ rotated = FALSE
  /\ renames = 0 /\ faults = 0
  /\ sound = [t \in Tiers |-> ExpiresDays]

---------------------------------------------------------------------------
\* What the rotation is to find, stated from Plex's side.

\* What a tier promises of the libraries Plex has.
Grants(tier, name) ==
  /\ name.prefix # "private"
  /\ tier = "bronze" => name.title \notin FourK
  /\ tier = "youth" => name.title \in Allowlist
Promised(tier) ==
  {l \in Enabled : plex[l] # Gone /\ ServerOf[l] \notin Retired \union {NoServer}
                     /\ Grants(tier, plex[l])}

\* A tier is whole when Plex has what it promises, and the list read says so.
Whole(tier, list) ==
  /\ Promised(tier) # {}
  /\ tier = "youth" => Allowlist \subseteq {plex[l].title : l \in Promised(tier)}
  /\ \A l \in Promised(tier) : list[l] = plex[l]

---------------------------------------------------------------------------
\* The rotation.

Fault == faults < MaxFaults /\ faults' = faults + 1

\* rotateBaselineInvites: Wizarr has listed its libraries.
RotationStarts ==
  /\ ~rotated
  /\ night = Idle
  /\ rotated' = TRUE
  /\ night' = Listed(cache)
  /\ UNCHANGED <<libraryVars, storeVars, faults, sound>>

\* Mutant: one broken tier ends the rotation.
LiveReadStops ==
  /\ at("libraries")
  /\ \E live \in liveSectionsOrNone(plex) :
       LET current == withoutStale(night.list, live)
           broken  == tierScopeProblems(current, night.list)
       IN night' = Minting(IF broken = {} THEN Tiers ELSE {},
                           {t \in Tiers : Whole(t, night.list)})
  /\ UNCHANGED <<libraryVars, storeVars, rotated, faults, sound>>

\* plex.tv has listed its sections, of every server or of some, or cannot be
\* asked: a tier whose scope is broken is skipped.
LiveRead ==
  /\ at("libraries")
  /\ \E live \in liveSectionsOrNone(plex) :
       LET current == withoutStale(night.list, live)
           broken  == tierScopeProblems(current, night.list)
       IN night' = Minting(Tiers \ broken, {t \in Tiers : Whole(t, night.list)})
  /\ UNCHANGED <<libraryVars, storeVars, rotated, faults, sound>>

Fresh(t) == Invite(t, 0)

\* mintBaselineInvite: the invite is made, and recorded as ours.
mintBaselineInvite(t) ==
  /\ at("minting") /\ t \in night.todo
  /\ invites' = invites \union {Fresh(t)}
  /\ rows' = rows \union {Fresh(t)}
  /\ night' = Minting(night.todo \ {t}, night.whole)
  /\ UNCHANGED <<libraryVars, rotated, faults, sound>>

\* createInvite fails, with the invite made or not: the next tier has its turn.
MintFails(t) ==
  /\ at("minting") /\ t \in night.todo
  /\ Fault
  /\ \/ invites' = invites \union {Fresh(t)}
     \/ UNCHANGED invites
  /\ night' = Minting(night.todo \ {t}, night.whole \ {t})
  /\ UNCHANGED <<libraryVars, rows, rotated, sound>>

MintingDone ==
  /\ at("minting") /\ night.todo = {}
  /\ night' = Minted
  /\ sound' = [t \in Tiers |-> IF t \in night.whole THEN 0 ELSE sound[t]]
  /\ UNCHANGED <<libraryVars, storeVars, rotated, faults>>

\* The invitations are listed, and then the rows. One that was minted exactly
\* ExpiresDays ago expires about the moment the rotation begins.
InvitationsRead ==
  /\ at("minted")
  /\ \E edge \in {ExpiresDays, ExpiresDays + 1} :
       LET due == {i \in rows : i.age >= edge}
       IN night' = IF due = {} THEN Idle
                   ELSE Reaping(invites, due)
  /\ UNCHANGED <<libraryVars, storeVars, rotated, faults, sound>>

\* The row is dealt with, and the rotation over with the last.
Judged(i) ==
  night' = IF night.due = {i} THEN Idle ELSE Reaping(night.list, night.due \ {i})

\* Mutant: Wizarr is left to drop an expired invite itself.
ReapUndeleted(i) ==
  /\ at("reaping") /\ i \in night.due
  /\ rows' = rows \ {i}
  /\ Judged(i)
  /\ UNCHANGED <<libraryVars, invites, rotated, faults, sound>>

\* Mutant: a row whose invite is gone is passed over.
ReapLiveOnly(i) ==
  /\ at("reaping") /\ i \in night.due
  /\ invites' = invites \ {i}
  /\ rows' = IF i \in night.list THEN rows \ {i} ELSE rows
  /\ Judged(i)
  /\ UNCHANGED <<libraryVars, rotated, faults, sound>>

\* reapExpiredBaselines: the invite is deleted and its row forgotten, or the row
\* alone when the invite is not on the list.
Reap(i) ==
  /\ at("reaping") /\ i \in night.due
  /\ invites' = IF i \in night.list THEN invites \ {i} ELSE invites
  /\ rows' = rows \ {i}
  /\ Judged(i)
  /\ UNCHANGED <<libraryVars, rotated, faults, sound>>

\* deleteInvitation fails, with the invite gone or not: the row stays.
ReapFails(i) ==
  /\ at("reaping") /\ i \in night.due \intersect night.list
  /\ Fault
  /\ \/ invites' = invites \ {i}
     \/ UNCHANGED invites
  /\ Judged(i)
  /\ UNCHANGED <<libraryVars, rows, rotated, sound>>

\* A list cannot be read and the rotation throws, or the process dies. One that
\* was down at the hour waits for the next.
RotationEnds ==
  /\ Fault
  /\ night # Idle \/ ~rotated
  /\ night' = Idle
  /\ rotated' = TRUE
  /\ UNCHANGED <<libraryVars, storeVars, sound>>

---------------------------------------------------------------------------
\* Outside the bridge.

\* A day later. An invite no row knows is of no account once it has expired.
NewDay ==
  /\ rotated
  /\ night = Idle
  /\ LET older(set) == {Invite(i.tier, i.age + 1) : i \in set}
     IN /\ rows' = older(rows)
        /\ invites' = older({i \in invites : i \in rows \/ i.age < ExpiresDays})
  /\ rotated' = FALSE
  /\ sound' = [t \in Tiers |-> IF sound[t] < ExpiresDays THEN sound[t] + 1 ELSE ExpiresDays]
  /\ UNCHANGED <<libraryVars, night, faults>>

\* A library is renamed on Plex, removed, or made.
Rename(l) ==
  /\ renames < MaxRenames
  /\ renames' = renames + 1
  /\ \E name \in (Names \union {Gone}) \ {plex[l]} : plex' = [plex EXCEPT ![l] = name]
  /\ UNCHANGED <<cache, storeVars, night, rotated, faults, sound>>

\* The operator has Wizarr scan a server's libraries again.
Rescan(server) ==
  /\ cache' = [l \in Libraries |-> IF ServerOf[l] = server THEN plex[l] ELSE cache[l]]
  /\ cache' # cache
  /\ UNCHANGED <<plex, renames, storeVars, night, rotated, faults, sound>>

Rotating ==
  \/ RotationStarts \/ LiveRead
  \/ \E t \in Tiers : mintBaselineInvite(t)
  \/ MintingDone \/ InvitationsRead
  \/ \E i \in Invites : Reap(i)

Next ==
  \/ Rotating
  \/ \E t \in Tiers : MintFails(t)
  \/ \E i \in Invites : ReapFails(i)
  \/ RotationEnds
  \/ NewDay
  \/ \E l \in Libraries : Rename(l)
  \/ \E server \in {ServerOf[l] : l \in Libraries} : Rescan(server)

Spec == Init /\ [][Next]_vars

---------------------------------------------------------------------------
\* Properties.

\* "A tier whose scope is currently broken is skipped and keeps its existing
\* invite": for as long as an invite lasts after the last night the tier was
\* whole and its minting met no fault, Wizarr holds one of the tier's that has not
\* expired and that the rotation owns, whatever broke since, in this tier or
\* another. (A tier broken for longer than that has none.)
OfferedUntilExpiry ==
  \A t \in Tiers : sound[t] < ExpiresDays =>
    \E i \in invites \intersect rows : i.tier = t /\ i.age < ExpiresDays

\* No row outlives its expiry by more than a day, and a day for each fault: a
\* delete that failed, or whose answer was lost, is made up for the next night.
ReapedInTime == \A i \in rows : i.age <= ExpiresDays + 1 + faults

\* Every invite Wizarr holds is one a rotation will reap, but for those a fault
\* cost it between making and recording.
OrphansComeFromFaults == Cardinality(invites \ rows) <= faults

\* The libraries that Plex vouches for: those a list has, with a section id, on a
\* server that plex.tv answered for.
Vouched(list, answering) == {l \in listed(list) \intersect Checkable : ServerOf[l] \in answering}

\* What the two checks of checkTierScopes say of a list, whichever servers plex.tv
\* answers for. A stale row they report is one: a library Plex vouches for, and has
\* by another name, whatever servers are missing from the answer. And when neither
\* says anything, each tier's scope holds of the vouched libraries exactly what
\* Plex has of the tier's promise, and an allowlist found whole among them is whole
\* on Plex. Of a server left out, and so of an unreachable plex.tv, silence says
\* nothing ("reported as healthy"), and nothing is claimed.
ScopeCheckIsExact ==
  \A list \in IF at("libraries") THEN {cache, night.list} ELSE {cache} :
    LET broken == tierScopeProblems(listed(list), list)
        scope  == [t \in Tiers |-> shareableLibraries(t, listed(list), list)]
        due    == [t \in Tiers |-> Promised(t)]
    IN \A answering \in SUBSET Servers :
         LET vouched == Vouched(list, answering)
             stale   == libraryCacheProblems(list, liveSections(plex, answering))
         IN /\ \A p \in stale : \E l \in vouched :
                 p[1] = ServerOf[l] /\ p[2] = list[l] /\ p[2] # plex[l]
            /\ broken = {} /\ stale = {} => \A t \in Tiers :
                 /\ scope[t] \intersect vouched = due[t] \intersect vouched
                 /\ t = "youth" /\ scope[t] \subseteq vouched =>
                      Allowlist \subseteq {plex[l].title : l \in due[t]}
=============================================================================

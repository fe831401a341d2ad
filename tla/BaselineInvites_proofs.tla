----------------------- MODULE BaselineInvites_proofs -----------------------
(***************************************************************************)
(* Proofs about BaselineInvites, for any tiers, libraries, names, number   *)
(* of days, renames and faults.                                            *)
(***************************************************************************)
EXTENDS BaselineInvites, FiniteSetTheorems, FunctionTheorems, TLAPS

\* The rotation owns an invite of the tier that was minted so many nights ago.
Offers(t, age) == Invite(t, age) \in invites \intersect rows

\* Rows are as old as the nights that failed to reap them allow, and within a
\* night those not yet judged may be a day older.
RowAge(i) ==
  /\ i.age <= ExpiresDays + 1 + faults
  /\ rotated /\ night = Idle => i.age <= ExpiresDays + faults
  /\ at("reaping") => i \in night.due \/ i.age <= ExpiresDays + faults

\* An invite without a row is dropped from sight once it has expired.
InviteAge(i) == i \in rows \/ i.age <= ExpiresDays

\* While minting, a tier that was whole is yet to be minted or has been; while
\* reaping, what is due has expired, and every invite was on the list.
NightInv ==
  /\ at("minting") => \A t \in night.whole : t \in night.todo \/ Offers(t, 0)
  /\ at("reaping") => invites \subseteq night.list /\ \A i \in night.due : i.age >= ExpiresDays

\* A tier that was sound some nights ago still has that night's invite.
OfferInv == \A t \in Tiers : sound[t] < ExpiresDays => Offers(t, sound[t])

IInv ==
  /\ TypeOK
  /\ \A i \in rows : RowAge(i)
  /\ \A i \in invites : InviteAge(i)
  /\ NightInv
  /\ OfferInv

---------------------------------------------------------------------------
\* Whatever plex.tv answers, a tier that is whole on the list read is not broken.
LEMMA WholeIsScoped ==
  ASSUME NEW t \in Tiers, NEW list \in Lists, NEW live \in liveSectionsOrNone(plex),
         plex \in Lists, Whole(t, list)
  PROVE  t \notin tierScopeProblems(withoutStale(list, live), list)
<1> DEFINE current == withoutStale(list, live)
           shareable == shareableLibraries(t, current, list)
<1>1. Promised(t) \subseteq shareable
  <2> SUFFICES ASSUME NEW l \in Promised(t) PROVE l \in shareable
    OBVIOUS
  <2>1. /\ l \in Enabled /\ l \in Libraries /\ plex[l] # Gone /\ isOnShareServer(l)
        /\ list[l] = plex[l] /\ Grants(t, plex[l])
    BY ScopeAssumption DEF Promised, Whole, isOnShareServer
  <2>2. l \notin staleLibraries(list, live)
    BY <2>1 DEF staleLibraries, liveSectionsOrNone, liveSections
  <2>3. l \in current
    BY <2>1, <2>2 DEF withoutStale, listed
  <2>4. tierWants(t, list[l]) /\ ~isPrivate(list[l])
    BY <2>1, ScopeAssumption DEF Grants, tierWants, isPrivate, is4k, libraryTitle
  <2> QED
    BY <2>1, <2>3, <2>4 DEF shareableLibraries
<1>2. shareable # {}
  BY <1>1 DEF Whole
<1>3. missingTitles(t, shareable, list) = {}
  <2>1. CASE t = "youth"
    <3>1. \A title \in Allowlist : \E l \in Promised(t) : title = plex[l].title
      BY <2>1 DEF Whole
    <3>2. \A l \in Promised(t) : l \in shareable /\ libraryTitle(list[l]) = plex[l].title
      BY <1>1 DEF Whole, libraryTitle
    <3> QED
      BY <2>1, <3>1, <3>2 DEF missingTitles
  <2>2. CASE t # "youth"
    BY <2>2 DEF missingTitles
  <2> QED
    BY <2>1, <2>2
<1> QED
  BY <1>2, <1>3 DEF tierScopeProblems

---------------------------------------------------------------------------
\* Each action keeps the invariant.

LEMMA InitInvariant == Init => IInv
<1> SUFFICES ASSUME Init PROVE IInv
  OBVIOUS
<1>1. TypeOK
  <2>1. renames \in 0..MaxRenames /\ faults \in 0..MaxFaults
    BY BaselineAssumption DEF Init
  <2>2. sound \in [Tiers -> 0..ExpiresDays]
    BY BaselineAssumption DEF Init
  <2>3. plex \in Lists /\ cache \in Lists /\ invites = {} /\ rows = {} /\ night = Idle /\ rotated = FALSE
    BY DEF Init
  <2> QED
    BY <2>1, <2>2, <2>3 DEF TypeOK
<1>2. \A t \in Tiers : sound[t] = ExpiresDays
  BY DEF Init
<1>3. OfferInv
  BY <1>2, BaselineAssumption DEF OfferInv
<1>4. NightInv
  BY DEF Init, NightInv, at, Idle
<1> QED
  BY <1>1, <1>3, <1>4 DEF Init, IInv

LEMMA RotationStartsKeeps == IInv /\ RotationStarts => IInv'
  BY BaselineAssumption
     DEF IInv, TypeOK, RotationStarts, NightInv, OfferInv, RowAge, InviteAge, Offers,
         at, Idle, Listed, libraryVars, storeVars

LEMMA LiveReadKeeps == IInv /\ LiveRead => IInv'
<1> SUFFICES ASSUME IInv, LiveRead PROVE IInv'
  OBVIOUS
<1>1. night.list \in Lists /\ plex \in Lists
  BY DEF IInv, TypeOK, LiveRead, at, Idle
<1>2. PICK live \in liveSectionsOrNone(plex) :
        night' = Minting(Tiers \ tierScopeProblems(withoutStale(night.list, live), night.list),
                         {t \in Tiers : Whole(t, night.list)})
  BY DEF LiveRead
<1> DEFINE todo == Tiers \ tierScopeProblems(withoutStale(night.list, live), night.list)
           whole == {t \in Tiers : Whole(t, night.list)}
<1>3. todo \subseteq Tiers /\ whole \subseteq todo
  BY <1>1, WholeIsScoped
<1> HIDE DEF todo, whole
<1>4. night' = Minting(todo, whole)
  BY <1>2 DEF todo, whole
<1> QED
  BY <1>3, <1>4, BaselineAssumption
     DEF IInv, TypeOK, LiveRead, NightInv, OfferInv, RowAge, InviteAge, Offers, Minting,
         at, Idle, libraryVars, storeVars

LEMMA MintKeeps ==
  ASSUME NEW t \in Tiers, IInv, mintBaselineInvite(t)
  PROVE  IInv'
<1>1. Fresh(t) \in Invites /\ Fresh(t).age = 0
  BY BaselineAssumption DEF Fresh, Invite, Invites, Ages
<1>2. /\ at("minting") /\ night.todo \subseteq Tiers /\ night.whole \subseteq Tiers
      /\ night' = Minting(night.todo \ {t}, night.whole)
      /\ invites' = invites \union {Fresh(t)} /\ rows' = rows \union {Fresh(t)}
      /\ UNCHANGED <<plex, cache, renames, rotated, faults, sound>>
  BY DEF IInv, TypeOK, mintBaselineInvite, at, Idle, libraryVars
<1>3. TypeOK'
  BY <1>1, <1>2 DEF IInv, TypeOK, Minting
<1>4. (\A i \in rows : RowAge(i))' /\ (\A i \in invites : InviteAge(i))'
  BY <1>1, <1>2, BaselineAssumption
     DEF IInv, TypeOK, RowAge, InviteAge, Minting, at, Idle
<1>5. NightInv'
  BY <1>2 DEF IInv, NightInv, Minting, Offers, Fresh, at
<1>6. OfferInv'
  BY <1>2 DEF IInv, OfferInv, Offers
<1> QED
  BY <1>3, <1>4, <1>5, <1>6 DEF IInv

LEMMA MintFailsKeeps ==
  ASSUME NEW t \in Tiers, IInv, MintFails(t)
  PROVE  IInv'
<1>1. Fresh(t) \in Invites /\ Fresh(t).age = 0
  BY BaselineAssumption DEF Fresh, Invite, Invites, Ages
<1>2. /\ at("minting") /\ night.todo \subseteq Tiers /\ night.whole \subseteq Tiers
      /\ night' = Minting(night.todo \ {t}, night.whole \ {t})
      /\ invites' = invites \union {Fresh(t)} \/ invites' = invites
      /\ faults < MaxFaults /\ faults' = faults + 1
      /\ UNCHANGED <<plex, cache, renames, rows, rotated, sound>>
  BY DEF IInv, TypeOK, MintFails, Fault, at, Idle, libraryVars
<1>3. TypeOK'
  BY <1>1, <1>2, BaselineAssumption DEF IInv, TypeOK, Minting
<1>4. (\A i \in rows : RowAge(i))' /\ (\A i \in invites : InviteAge(i))'
  BY <1>1, <1>2, BaselineAssumption
     DEF IInv, TypeOK, Invites, Ages, RowAge, InviteAge, Minting, at, Idle
<1>5. NightInv'
  BY <1>2 DEF IInv, NightInv, Minting, Offers, at
<1>6. OfferInv'
  BY <1>2 DEF IInv, OfferInv, Offers
<1> QED
  BY <1>3, <1>4, <1>5, <1>6 DEF IInv

LEMMA MintingDoneKeeps == IInv /\ MintingDone => IInv'
<1> SUFFICES ASSUME IInv, MintingDone PROVE IInv'
  OBVIOUS
<1>1. /\ at("minting") /\ night.todo = {} /\ night' = Minted
      /\ sound' = [t \in Tiers |-> IF t \in night.whole THEN 0 ELSE sound[t]]
      /\ UNCHANGED <<plex, cache, renames, invites, rows, rotated, faults>>
  BY DEF MintingDone, libraryVars, storeVars
<1>2. TypeOK'
  BY <1>1, BaselineAssumption DEF IInv, TypeOK, Minted
<1>3. OfferInv'
  BY <1>1 DEF IInv, TypeOK, NightInv, OfferInv, Offers
<1> QED
  BY <1>1, <1>2, <1>3 DEF IInv, NightInv, RowAge, InviteAge, Minted, at, Idle

LEMMA InvitationsReadKeeps == IInv /\ InvitationsRead => IInv'
<1> SUFFICES ASSUME IInv, InvitationsRead PROVE IInv'
  OBVIOUS
<1>1. PICK edge \in {ExpiresDays, ExpiresDays + 1} :
        LET due == {i \in rows : i.age >= edge}
        IN night' = IF due = {} THEN Idle ELSE Reaping(invites, due)
  BY DEF InvitationsRead
<1> DEFINE due == {i \in rows : i.age >= edge}
<1>2. /\ (night' = Idle /\ due = {}) \/ night' = Reaping(invites, due)
      /\ UNCHANGED <<plex, cache, renames, invites, rows, rotated, faults, sound>>
  BY <1>1 DEF InvitationsRead, libraryVars, storeVars
<1>3. \A i \in rows : /\ i.age \in Nat
                      /\ i \in due => i.age >= ExpiresDays
                      /\ i \notin due => i.age <= ExpiresDays + faults
  BY BaselineAssumption DEF IInv, TypeOK, Invites, Ages
<1>4. due \subseteq rows
  OBVIOUS
<1> HIDE DEF due
<1>5. TypeOK'
  BY <1>2, <1>4 DEF IInv, TypeOK, Reaping
<1>6. (\A i \in rows : RowAge(i))' /\ NightInv'
  BY <1>2, <1>3, <1>4 DEF IInv, RowAge, NightInv, Reaping, Idle, at
<1> QED
  BY <1>2, <1>5, <1>6 DEF IInv, InviteAge, OfferInv, Offers

\* A row that is due is dealt with: its invite stays or goes, and its row with it
\* or not, at the cost of a fault.
Judges(i) ==
  /\ at("reaping") /\ i \in night.due
  /\ invites' \in {invites, invites \ {i}}
  /\ \/ rows' = rows \ {i} /\ invites' = invites \ {i} /\ UNCHANGED faults
     \/ rows' = rows /\ Fault
  /\ Judged(i)
  /\ UNCHANGED <<plex, cache, renames, rotated, sound>>

LEMMA JudgingKeeps ==
  ASSUME NEW i, IInv, Judges(i)
  PROVE  IInv'
<1>1. /\ night \in [stage : {"reaping"}, list : SUBSET Invites, due : SUBSET rows]
      /\ i \in rows /\ i \in night.due /\ i.age >= ExpiresDays
      /\ i \in Invites /\ rows \subseteq Invites /\ invites \subseteq Invites
  BY DEF IInv, TypeOK, NightInv, Judges, at, Idle
<1>2. /\ (night' = Idle /\ night.due = {i}) \/ night' = Reaping(night.list, night.due \ {i})
      /\ invites' \in {invites, invites \ {i}} /\ rows' \in {rows, rows \ {i}}
      /\ rows' = rows => faults' = faults + 1
      /\ faults' \in {faults, faults + 1} /\ faults' \in 0..MaxFaults /\ faults \in Nat
      /\ i \in rows' \/ i \notin invites'
      /\ UNCHANGED <<plex, cache, renames, rotated, sound>>
  BY <1>1, BaselineAssumption DEF IInv, TypeOK, Judges, Judged, Fault
<1>3. TypeOK'
  <2>1. night.due \ {i} \subseteq rows'
    BY <1>1, <1>2
  <2> QED
    BY <1>1, <1>2, <2>1 DEF IInv, TypeOK, Reaping
<1>4. ASSUME NEW j \in rows'
      PROVE  RowAge(j)'
  <2>1. j \in rows /\ j.age \in Nat /\ RowAge(j)
    BY <1>1, <1>2 DEF IInv, Invites, Ages
  <2>2. j # i => j \in night.due \ {i} \/ j.age <= ExpiresDays + faults
    BY <1>1, <2>1 DEF RowAge, at
  <2>3. j = i => rows' = rows /\ j.age <= ExpiresDays + faults'
    BY <1>1, <1>2, <2>1, BaselineAssumption DEF RowAge
  <2> QED
    BY <1>2, <2>1, <2>2, <2>3, BaselineAssumption DEF RowAge, Reaping, Idle, at
<1>5. (\A j \in invites : InviteAge(j))'
  BY <1>1, <1>2 DEF IInv, InviteAge
<1>6. NightInv'
  BY <1>1, <1>2 DEF IInv, NightInv, Reaping, Idle, at
<1>7. OfferInv'
  <2> SUFFICES ASSUME NEW t \in Tiers, sound[t] < ExpiresDays
               PROVE  Offers(t, sound[t])'
    BY <1>2 DEF OfferInv
  <2>1. Invite(t, sound[t]) # i
    BY <1>1, BaselineAssumption DEF IInv, TypeOK, Invite, Invites, Ages
  <2> QED
    BY <1>2, <2>1 DEF IInv, OfferInv, Offers
<1> QED
  BY <1>3, <1>4, <1>5, <1>6, <1>7 DEF IInv

LEMMA ReapKeeps ==
  ASSUME NEW i, IInv, Reap(i)
  PROVE  IInv'
<1>1. i \notin night.list => i \notin invites
  BY DEF IInv, NightInv, Reap
<1>2. Judges(i)
  BY <1>1 DEF Reap, Judges, libraryVars
<1> QED
  BY <1>2, JudgingKeeps

LEMMA ReapFailsKeeps ==
  ASSUME NEW i, IInv, ReapFails(i)
  PROVE  IInv'
<1>1. Judges(i)
  BY DEF ReapFails, Judges, libraryVars
<1> QED
  BY <1>1, JudgingKeeps

LEMMA RotationEndsKeeps == IInv /\ RotationEnds => IInv'
<1> SUFFICES ASSUME IInv, RotationEnds PROVE IInv'
  OBVIOUS
<1>1. /\ faults \in 0..MaxFaults /\ faults < MaxFaults /\ faults' = faults + 1
      /\ night' = Idle /\ rotated' = TRUE
      /\ UNCHANGED <<plex, cache, renames, invites, rows, sound>>
  BY DEF IInv, TypeOK, RotationEnds, Fault, libraryVars, storeVars
<1>2. TypeOK'
  BY <1>1, BaselineAssumption DEF IInv, TypeOK
<1>3. (\A i \in rows : RowAge(i))'
  BY <1>1, BaselineAssumption DEF IInv, TypeOK, Invites, Ages, RowAge, Idle, at
<1> QED
  BY <1>1, <1>2, <1>3 DEF IInv, InviteAge, NightInv, OfferInv, Offers, Idle, at

LEMMA NewDayKeeps == IInv /\ NewDay => IInv'
<1> SUFFICES ASSUME IInv, NewDay PROVE IInv'
  OBVIOUS
<1> DEFINE kept == {i \in invites : i \in rows \/ i.age < ExpiresDays}
<1>1. /\ rotated /\ night = Idle /\ rotated' = FALSE
      /\ rows' = {Invite(i.tier, i.age + 1) : i \in rows}
      /\ invites' = {Invite(i.tier, i.age + 1) : i \in kept}
      /\ sound' = [t \in Tiers |-> IF sound[t] < ExpiresDays THEN sound[t] + 1 ELSE ExpiresDays]
      /\ UNCHANGED <<plex, cache, renames, night, faults>>
  BY DEF NewDay, libraryVars
<1>2. ASSUME NEW i \in rows
      PROVE  /\ i.tier \in Tiers /\ i.age \in Nat /\ i.age <= ExpiresDays + faults
             /\ Invite(i.tier, i.age + 1).age = i.age + 1
             /\ Invite(i.tier, i.age + 1) \in Invites
  BY <1>1, BaselineAssumption DEF IInv, TypeOK, RowAge, Invite, Invites, Ages
<1>3. ASSUME NEW i \in kept
      PROVE  /\ i.age \in Nat /\ (i \in rows \/ i.age < ExpiresDays)
             /\ Invite(i.tier, i.age + 1).age = i.age + 1
             /\ Invite(i.tier, i.age + 1) \in Invites
  BY <1>2, BaselineAssumption DEF IInv, TypeOK, Invite, Invites, Ages
<1>4. TypeOK'
  <2>1. rows' \subseteq Invites /\ invites' \subseteq Invites
    BY <1>1, <1>2, <1>3
  <2>2. sound' \in [Tiers -> 0..ExpiresDays]
    BY <1>1, BaselineAssumption DEF IInv, TypeOK
  <2> QED
    BY <1>1, <2>1, <2>2 DEF IInv, TypeOK
<1>5. (\A i \in rows : RowAge(i))'
  BY <1>1, <1>2, BaselineAssumption DEF IInv, TypeOK, RowAge, Idle, at
<1>6. ASSUME NEW j \in invites'
      PROVE  j \in rows' \/ j.age <= ExpiresDays
  <2>1. PICK i \in kept : j = Invite(i.tier, i.age + 1)
    BY <1>1
  <2>2. CASE i \in rows
    BY <1>1, <2>1, <2>2
  <2>3. CASE i \notin rows
    BY <1>3, <2>1, <2>3, BaselineAssumption
  <2> QED
    BY <2>2, <2>3
<1>7. OfferInv'
  <2> SUFFICES ASSUME NEW t \in Tiers, sound'[t] < ExpiresDays
               PROVE  Invite(t, sound'[t]) \in invites' \intersect rows'
    BY <1>1 DEF OfferInv, Offers, Invite
  <2>1. sound[t] \in 0..ExpiresDays /\ sound'[t] = sound[t] + 1 /\ sound[t] < ExpiresDays
    BY <1>1, BaselineAssumption DEF IInv, TypeOK
  <2>2. Invite(t, sound[t]) \in invites \intersect rows
    BY <2>1 DEF IInv, OfferInv, Offers
  <2>3. Invite(t, sound[t]) \in kept \intersect rows
    BY <2>2
  <2>4. Invite(t, sound[t]).tier = t /\ Invite(t, sound[t]).age = sound[t]
    BY DEF Invite
  <2>5. Invite(t, sound[t] + 1) \in invites' \intersect rows'
    BY <1>1, <2>3, <2>4
  <2> QED
    BY <2>1, <2>5
<1> QED
  BY <1>1, <1>4, <1>5, <1>6, <1>7 DEF IInv, InviteAge, NightInv, Idle, at

LEMMA LibrariesKeep ==
  ASSUME IInv, (\E l \in Libraries : Rename(l)) \/ (\E server : Rescan(server))
  PROVE  IInv'
<1>1. plex' \in Lists /\ cache' \in Lists /\ renames' \in 0..MaxRenames
  BY BaselineAssumption DEF IInv, TypeOK, Rename, Rescan, Lists
<1>2. UNCHANGED <<invites, rows, night, rotated, faults, sound>>
  BY DEF Rename, Rescan, storeVars
<1> QED
  BY <1>1, <1>2 DEF IInv, TypeOK, RowAge, InviteAge, NightInv, OfferInv, Offers, at

LEMMA StutterKeeps == IInv /\ UNCHANGED vars => IInv'
  BY DEF IInv, TypeOK, RowAge, InviteAge, NightInv, OfferInv, Offers, at, vars,
         libraryVars, storeVars

LEMMA NextKeeps == IInv /\ [Next]_vars => IInv'
<1> SUFFICES ASSUME IInv, [Next]_vars PROVE IInv'
  OBVIOUS
<1>1. CASE Rotating
  BY <1>1, RotationStartsKeeps, LiveReadKeeps, MintKeeps, MintingDoneKeeps,
     InvitationsReadKeeps, ReapKeeps DEF Rotating
<1>2. CASE (\E t \in Tiers : MintFails(t)) \/ (\E i \in Invites : ReapFails(i))
  BY <1>2, MintFailsKeeps, ReapFailsKeeps
<1>3. CASE RotationEnds \/ NewDay
  BY <1>3, RotationEndsKeeps, NewDayKeeps
<1>4. CASE (\E l \in Libraries : Rename(l)) \/ (\E server \in {ServerOf[l] : l \in Libraries} : Rescan(server))
  BY <1>4, LibrariesKeep
<1>5. CASE UNCHANGED vars
  BY <1>5, StutterKeeps
<1> QED
  BY <1>1, <1>2, <1>3, <1>4, <1>5 DEF Next

LEMMA Invariance == Spec => []IInv
  BY InitInvariant, NextKeeps, PTL DEF Spec

---------------------------------------------------------------------------
\* Every variable keeps its type, and no row grows older than the bound.
THEOREM TypeCorrect == Spec => []TypeOK
<1>1. IInv => TypeOK
  BY DEF IInv
<1> QED
  BY <1>1, Invariance, PTL

\* Whatever breaks, a tier keeps an invite for as long as one lasts after the last
\* night that was sound for it (the order and the skips of rotateBaselineInvites).
THEOREM Offered == Spec => []OfferedUntilExpiry
<1>1. IInv => OfferedUntilExpiry
  <2> SUFFICES ASSUME IInv, NEW t \in Tiers, sound[t] < ExpiresDays
               PROVE  \E i \in invites \intersect rows : i.tier = t /\ i.age < ExpiresDays
    BY DEF OfferedUntilExpiry
  <2>1. Invite(t, sound[t]) \in invites \intersect rows
    BY DEF IInv, OfferInv, Offers
  <2> QED
    BY <2>1 DEF Invite
<1> QED
  BY <1>1, Invariance, PTL

\* A row outlives its expiry by a day at most, and a day for each fault
\* (reapExpiredBaselines deals with every expired row every night).
THEOREM Reaped == Spec => []ReapedInTime
<1>1. IInv => ReapedInTime
  BY DEF IInv, RowAge, ReapedInTime
<1> QED
  BY <1>1, Invariance, PTL

\* What an answer of plex.tv says of a library depends on its server alone.
LEMMA AnswerIsByServer ==
  ASSUME plex \in Lists, NEW answering \in SUBSET Servers
  PROVE  /\ liveSections(plex, answering) # Unreachable
         /\ \A l \in Libraries :
              liveSections(plex, answering)[l]
                = IF ServerOf[l] \in answering THEN plex[l] ELSE Unanswered
         /\ Unanswered \notin {plex[l] : l \in Libraries}
<1>1. liveSections(plex, answering) \in LiveSections
  BY DEF liveSections, LiveSections, Lists
<1>2. Unanswered \notin {plex[l] : l \in Libraries}
  BY ScopeAssumption DEF Lists
<1> QED
  BY <1>1, <1>2, ScopeAssumption DEF liveSections

\* The two checks of checkTierScopes on any list, whichever servers plex.tv answers
\* for: a row they call stale is stale, and their silence means that every tier
\* shares, of what Plex vouches for, what Plex has of its promise.
THEOREM Exact == Spec => []ScopeCheckIsExact
<1>1. ASSUME plex \in Lists, NEW list \in Lists, NEW answering \in SUBSET Servers
      PROVE  \A p \in libraryCacheProblems(list, liveSections(plex, answering)) :
               \E l \in Vouched(list, answering) :
                 p[1] = ServerOf[l] /\ p[2] = list[l] /\ p[2] # plex[l]
  <2> DEFINE live == liveSections(plex, answering)
  <2> SUFFICES ASSUME NEW l \in staleLibraries(list, live)
               PROVE  l \in Vouched(list, answering) /\ list[l] # plex[l]
    BY DEF libraryCacheProblems
  <2>1. l \in listed(list) \intersect Checkable /\ l \in Libraries
        /\ live[l] \notin {list[l], Unanswered}
    BY <1>1, AnswerIsByServer DEF staleLibraries, listed
  <2>2. ServerOf[l] \in answering /\ live[l] = plex[l]
    BY <1>1, <2>1, AnswerIsByServer
  <2> QED
    BY <2>1, <2>2 DEF Vouched
<1>2. ASSUME plex \in Lists, NEW list \in Lists, NEW answering \in SUBSET Servers, NEW t \in Tiers,
             tierScopeProblems(listed(list), list) = {},
             libraryCacheProblems(list, liveSections(plex, answering)) = {}
      PROVE  LET scope   == shareableLibraries(t, listed(list), list)
                 vouched == Vouched(list, answering)
             IN /\ scope \intersect vouched = Promised(t) \intersect vouched
                /\ t = "youth" /\ scope \subseteq vouched =>
                     Allowlist \subseteq {plex[l].title : l \in Promised(t)}
  <2> DEFINE scope == shareableLibraries(t, listed(list), list)
             vouched == Vouched(list, answering)
             live == liveSections(plex, answering)
  <2>1. staleLibraries(list, live) = {}
    BY <1>2 DEF libraryCacheProblems
  <2>2. ASSUME NEW l \in vouched \intersect Enabled, isOnShareServer(l)
        PROVE  plex[l] = list[l] /\ plex[l] # Gone
    <3>1. l \in listed(list) /\ l \in Checkable /\ l \in Libraries /\ ServerOf[l] \in answering
      BY DEF Vouched, listed
    <3>2. live[l] = plex[l] /\ live # Unreachable /\ plex[l] # Unanswered
      BY <1>2, <3>1, AnswerIsByServer
    <3>3. live[l] = list[l]
      BY <2>1, <2>2, <3>1, <3>2 DEF staleLibraries
    <3> QED
      BY <3>1, <3>2, <3>3 DEF listed
  <2>3. ASSUME NEW name
        PROVE  Grants(t, name) <=> tierWants(t, name) /\ ~isPrivate(name)
    BY ScopeAssumption DEF Grants, tierWants, isPrivate, is4k, libraryTitle
  <2>4. ASSUME NEW l \in vouched
        PROVE  l \in scope <=> l \in Promised(t)
    BY <2>2, <2>3 DEF shareableLibraries, Promised, isOnShareServer, Vouched
  <2>5. ASSUME t = "youth", scope \subseteq vouched, NEW title \in Allowlist
        PROVE  \E l \in Promised(t) : title = plex[l].title
    <3>1. missingTitles(t, scope, list) = {}
      BY <1>2 DEF tierScopeProblems
    <3>2. PICK l \in scope : title = libraryTitle(list[l])
      BY <2>5, <3>1 DEF missingTitles
    <3>3. l \in vouched \intersect Enabled /\ isOnShareServer(l)
      BY <2>5, <3>2 DEF shareableLibraries
    <3> QED
      BY <2>2, <2>4, <3>2, <3>3 DEF libraryTitle
  <2> QED
    BY <2>4, <2>5
<1>3. IInv => ScopeCheckIsExact
  <2> SUFFICES ASSUME IInv, NEW list \in IF at("libraries") THEN {cache, night.list} ELSE {cache},
                      NEW answering \in SUBSET Servers
               PROVE  /\ \A p \in libraryCacheProblems(list, liveSections(plex, answering)) :
                           \E l \in Vouched(list, answering) :
                             p[1] = ServerOf[l] /\ p[2] = list[l] /\ p[2] # plex[l]
                      /\ tierScopeProblems(listed(list), list) = {}
                         /\ libraryCacheProblems(list, liveSections(plex, answering)) = {} =>
                         \A t \in Tiers :
                           LET scope   == shareableLibraries(t, listed(list), list)
                               vouched == Vouched(list, answering)
                           IN /\ scope \intersect vouched = Promised(t) \intersect vouched
                              /\ t = "youth" /\ scope \subseteq vouched =>
                                   Allowlist \subseteq {plex[l].title : l \in Promised(t)}
    BY DEF ScopeCheckIsExact
  <2>1. plex \in Lists /\ list \in Lists
    BY DEF IInv, TypeOK, at, Idle
  <2> QED
    BY <1>1, <1>2, <2>1
<1> QED
  BY <1>3, Invariance, PTL

---------------------------------------------------------------------------
\* Invites nobody will reap.

Unowned == invites \ rows
UnownedCount == IsFiniteSet(Unowned) /\ Cardinality(Unowned) <= faults

\* What a step may do to them: leave out some, or cost a fault to add one.
LEMMA UnownedShrinks ==
  ASSUME IInv, UnownedCount, Unowned' \subseteq Unowned, faults' \in {faults, faults + 1}
  PROVE  UnownedCount'
<1>1. IsFiniteSet(Unowned') /\ Cardinality(Unowned') <= Cardinality(Unowned)
  BY FS_Subset DEF UnownedCount
<1>2. faults \in Nat /\ Cardinality(Unowned) \in Nat /\ Cardinality(Unowned') \in Nat
  BY <1>1, FS_CardinalityType, BaselineAssumption DEF IInv, TypeOK, UnownedCount
<1> QED
  BY <1>1, <1>2 DEF UnownedCount

LEMMA UnownedGrows ==
  ASSUME IInv, UnownedCount, NEW i, Unowned' \subseteq Unowned \union {i}, faults' = faults + 1
  PROVE  UnownedCount'
<1>1. IsFiniteSet(Unowned \union {i}) /\ Cardinality(Unowned \union {i}) <= Cardinality(Unowned) + 1
      /\ Cardinality(Unowned) \in Nat
  BY FS_AddElement, FS_CardinalityType DEF UnownedCount
<1>2. IsFiniteSet(Unowned') /\ Cardinality(Unowned') <= Cardinality(Unowned \union {i})
  BY <1>1, FS_Subset
<1>3. faults \in Nat /\ Cardinality(Unowned') \in Nat /\ Cardinality(Unowned \union {i}) \in Nat
  BY <1>1, <1>2, FS_CardinalityType, BaselineAssumption DEF IInv, TypeOK
<1> QED
  BY <1>1, <1>2, <1>3 DEF UnownedCount

\* A day makes every invite older and owned by the row it was owned by.
LEMMA NewDayUnowned ==
  ASSUME IInv, UnownedCount, NewDay
  PROVE  UnownedCount'
<1> DEFINE kept == {i \in invites : i \in rows \/ i.age < ExpiresDays}
           older == [i \in Unowned |-> Invite(i.tier, i.age + 1)]
<1>1. /\ rows' = {Invite(i.tier, i.age + 1) : i \in rows}
      /\ invites' = {Invite(i.tier, i.age + 1) : i \in kept}
      /\ UNCHANGED faults
  BY DEF NewDay
<1>2. \A j \in Unowned' : \E i \in Unowned : j = older[i]
  BY <1>1 DEF Unowned
<1> DEFINE image == {older[i] : i \in Unowned}
<1>3. IsFiniteSet(image) /\ Cardinality(image) <= Cardinality(Unowned)
  <2>1. older \in Surjection(Unowned, image)
    BY DEF Surjection
  <2> QED
    BY <2>1, FS_Surjection DEF UnownedCount
<1>4. Unowned' \in SUBSET image
  BY <1>2
<1> HIDE DEF image
<1>5. IsFiniteSet(Unowned') /\ Cardinality(Unowned') <= Cardinality(image)
  BY <1>3, <1>4, FS_Subset
<1>6. faults \in Nat /\ Cardinality(Unowned) \in Nat /\ Cardinality(Unowned') \in Nat
      /\ Cardinality(image) \in Nat
  BY <1>3, <1>5, FS_CardinalityType, BaselineAssumption DEF IInv, TypeOK, UnownedCount
<1> QED
  BY <1>1, <1>3, <1>5, <1>6 DEF UnownedCount

\* Every step accounts for the invites it leaves without a row.
LEMMA UnownedKeeps ==
  ASSUME IInv, UnownedCount, [Next]_vars
  PROVE  UnownedCount'
<1>1. CASE RotationStarts \/ LiveRead \/ MintingDone \/ InvitationsRead
           \/ (\E l \in Libraries : Rename(l)) \/ (\E server : Rescan(server)) \/ UNCHANGED vars
  <2>1. UNCHANGED <<invites, rows, faults>>
    BY <1>1 DEF RotationStarts, LiveRead, MintingDone, InvitationsRead, Rename, Rescan, vars, storeVars
  <2> QED
    BY <2>1, UnownedShrinks DEF Unowned
<1>2. ASSUME NEW t \in Tiers, mintBaselineInvite(t) PROVE UnownedCount'
  BY <1>2, UnownedShrinks DEF mintBaselineInvite, Unowned
<1>3. ASSUME NEW t \in Tiers, MintFails(t) PROVE UnownedCount'
  BY <1>3, UnownedGrows DEF MintFails, Fault, Unowned
<1>4. ASSUME NEW i \in Invites, Reap(i) PROVE UnownedCount'
  <2>1. i \in night.list \/ i \notin invites
    BY <1>4 DEF IInv, NightInv, Reap
  <2>2. Unowned' \subseteq Unowned /\ UNCHANGED faults
    BY <1>4, <2>1 DEF Reap, Unowned
  <2> QED
    BY <2>2, UnownedShrinks
<1>5. ASSUME NEW i \in Invites, ReapFails(i) PROVE UnownedCount'
  BY <1>5, UnownedShrinks DEF ReapFails, Fault, Unowned
<1>6. CASE RotationEnds
  BY <1>6, UnownedShrinks DEF RotationEnds, Fault, storeVars, Unowned
<1>7. CASE NewDay
  BY <1>7, NewDayUnowned
<1> QED
  BY <1>1, <1>2, <1>3, <1>4, <1>5, <1>6, <1>7 DEF Next, Rotating

\* Every invite Wizarr holds is one a rotation will reap, but for one a fault at
\* most (mintBaselineInvite's create and record, and the reaper's delete).
THEOREM OrphansCounted == Spec => []OrphansComeFromFaults
<1>1. Init => UnownedCount
  <2> SUFFICES ASSUME Init PROVE UnownedCount
    OBVIOUS
  <2>1. Unowned = {} /\ faults = 0
    BY DEF Init, Unowned
  <2> QED
    BY <2>1, FS_EmptySet DEF UnownedCount
<1>2. IInv /\ UnownedCount /\ [Next]_vars => UnownedCount'
  BY UnownedKeeps
<1>3. UnownedCount => OrphansComeFromFaults
  BY DEF UnownedCount, Unowned, OrphansComeFromFaults
<1> QED
  BY <1>1, <1>2, <1>3, Invariance, PTL DEF Spec
=============================================================================

---------------------------- MODULE MemberLinks -----------------------------
(***************************************************************************)
(* How a member's addresses come to be joined: the admin states links, the *)
(* bridge issues invites and members redeem them under whatever Plex       *)
(* account they please.                                                    *)
(***************************************************************************)
EXTENDS Identity

VARIABLES links,    \* member_links, payer -> Plex address
          invites,  \* invite_code on the newest customer row of each address
          issued,   \* every code issued so far
          usedBy,   \* the record each invitation was redeemed into
          users     \* Wizarr's users list

vars == <<links, invites, issued, usedBy, users>>

TypeOK ==
  /\ links \in Links
  /\ invites \in [Addresses -> Codes \union {NoCode}]
  /\ issued \subseteq Codes
  /\ usedBy \in [Codes -> Records \union {NoRecord}]
  /\ users \subseteq Records

Init ==
  /\ links = [a \in Addresses |-> NoAddress]
  /\ invites = [a \in Addresses |-> NoCode]
  /\ issued = {}
  /\ usedBy = [c \in Codes |-> NoRecord]
  /\ users = {}

\* What a handler reads from Wizarr and the store, and what a caller without
\* Wizarr reads from the store alone.
identitySnapshot == [users |-> users, usedBy |-> usedBy, links |-> links, invites |-> invites]
storedSnapshot == [users |-> {}, usedBy |-> usedBy, links |-> links, invites |-> invites]

\* Mutant: only a chain ahead of the proposed link is refused, not one behind it.
memberLinkConflictAhead(stripe, plex) == stripe = plex \/ links[plex] # NoAddress

\* No address may be both a payer and a destination.
memberLinkConflict(stripe, plex) ==
  LET proposed == [links EXCEPT ![stripe] = plex] IN
  \/ stripe = plex
  \/ \E a \in Addresses : proposed[a] # NoAddress /\ proposed[proposed[a]] # NoAddress

linkAddress(stripe, plex) ==
  /\ ~memberLinkConflict(stripe, plex)
  /\ links' = [links EXCEPT ![stripe] = plex]
  /\ UNCHANGED <<invites, issued, usedBy, users>>

\* Mutant: the link is overwritten with nobody's address instead of deleted.
unlinkAddressKept(stripe) ==
  /\ links[stripe] # NoAddress
  /\ links' = [links EXCEPT ![stripe] = NoRecord]
  /\ UNCHANGED <<invites, issued, usedBy, users>>

\* Unlinking is always possible.
unlinkAddress(stripe) ==
  /\ links[stripe] # NoAddress
  /\ links' = [links EXCEPT ![stripe] = NoAddress]
  /\ UNCHANGED <<invites, issued, usedBy, users>>

\* The pending row of a new invite points the address at the new code, whatever
\* became of the last one.
upsertPending(a, c) ==
  /\ c \notin issued
  /\ issued' = issued \union {c}
  /\ invites' = [invites EXCEPT ![a] = c]
  /\ UNCHANGED <<links, usedBy, users>>

\* A link, the latest or an older one, is opened once, under some Plex account,
\* which gets a new record.
Redeem(c, r) ==
  /\ c \in issued
  /\ usedBy[c] = NoRecord
  /\ \A other \in Codes : usedBy[other] # r
  /\ usedBy' = [usedBy EXCEPT ![c] = r]
  /\ users' = users \union {r}
  /\ UNCHANGED <<links, invites, issued>>

\* A record expires or is disabled; its invitation still names its id.
Drop(r) ==
  /\ r \in users
  /\ users' = users \ {r}
  /\ UNCHANGED <<links, invites, issued, usedBy>>

Next ==
  \/ \E a, b \in Addresses : linkAddress(a, b)
  \/ \E a \in Addresses : unlinkAddress(a)
  \/ \E a \in Addresses, c \in Codes : upsertPending(a, c)
  \/ \E c \in Codes, r \in Records : Redeem(c, r)
  \/ \E r \in Records : Drop(r)

Spec == Init /\ [][Next]_vars

---------------------------------------------------------------------------
\* Properties.

\* No address both pays for another and is paid for (linkAddress's refusal,
\* over any history of links and unlinks).
LinksFormStars ==
  \A a \in Addresses : links[a] # NoAddress => links[links[a]] = NoAddress

\* From the store alone a person is the same whichever address is asked about:
\* the same addresses and the same primary one (linkedTo's single step each way
\* is enough because links form stars).
StoredPersonIsOne ==
  \A a \in Addresses : \A b \in personAt(storedSnapshot, a).addresses :
    /\ personAt(storedSnapshot, b).addresses = personAt(storedSnapshot, a).addresses
    /\ personAt(storedSnapshot, b).primaryAddress = personAt(storedSnapshot, a).primaryAddress

\* Whatever evidence finds the records, they are the person's own: under one of
\* the addresses the tags and the ban are read over, or under none at all.
HeldRecordsAreThePersons ==
  \A a \in Addresses :
    LET person == personAt(identitySnapshot, a) IN
    \A r \in person.records : EmailOf[r] \in person.addresses \union {NoAddress}
=============================================================================

---------------------------- MODULE Bridge_proofs ----------------------------
(***************************************************************************)
(* Proofs about the parts that MCBridge checks side by side: the member    *)
(* links and the roster, the drift alarms, the billing of a ban, the       *)
(* admin's requests, the libraries told and the customer map, each for     *)
(* every value of its constants; and, with Portal_proofs, about the parts  *)
(* together.                                                               *)
(***************************************************************************)
EXTENDS MCBridge, Portal_proofs, FiniteSetTheorems, TLAPS

---------------------------------------------------------------------------
\* The links between members, and the roster read from them.

\* The star shape needs no strengthening but the type of links.
IInv == links \in Links /\ LinksFormStars

\* A link that passes memberLinkConflict keeps the stars.
LEMMA LinkKeepsStars ==
  ASSUME IInv, NEW a \in Addresses, NEW b \in Addresses, linkAddress(a, b)
  PROVE  IInv'
<1>1. links' = [links EXCEPT ![a] = b]
  BY DEF linkAddress
<1>2. links' \in Links
  BY <1>1 DEF IInv, Links
<1>3. \A x \in Addresses :
        ~([links EXCEPT ![a] = b][x] # NoAddress
            /\ [links EXCEPT ![a] = b][[links EXCEPT ![a] = b][x]] # NoAddress)
  BY DEF linkAddress, memberLinkConflict
<1>4. QED
  BY <1>1, <1>2, <1>3 DEF IInv, LinksFormStars

\* Removing a link frees its payer and ties up nobody.
LEMMA UnlinkKeepsStars ==
  ASSUME IInv, NEW a \in Addresses, unlinkAddress(a)
  PROVE  IInv'
<1>1. links' = [links EXCEPT ![a] = NoAddress]
  BY DEF unlinkAddress
<1>2. links' \in Links
  BY <1>1 DEF IInv, Links
<1>3. \A x \in Addresses : links'[x] # NoAddress => links'[links'[x]] = NoAddress
  BY <1>1, IdentityAssumption DEF IInv, Links, LinksFormStars
<1>4. QED
  BY <1>2, <1>3 DEF IInv, LinksFormStars

\* Every step keeps the stars: only the link route writes the links.
LEMMA NextKeeps == IInv /\ [Next]_vars => IInv'
<1> SUFFICES ASSUME IInv, [Next]_vars PROVE IInv'
  OBVIOUS
<1>1. CASE \E a, b \in Addresses : linkAddress(a, b)
  BY <1>1, LinkKeepsStars
<1>2. CASE \E a \in Addresses : unlinkAddress(a)
  BY <1>2, UnlinkKeepsStars
<1>3. CASE \E a \in Addresses, c \in Codes : upsertPending(a, c)
  BY <1>3 DEF upsertPending, IInv, LinksFormStars
<1>4. CASE \E c \in Codes, r \in Records : Redeem(c, r)
  BY <1>4 DEF Redeem, IInv, LinksFormStars
<1>5. CASE \E r \in Records : Drop(r)
  BY <1>5 DEF Drop, IInv, LinksFormStars
<1>6. CASE UNCHANGED vars
  BY <1>6 DEF vars, IInv, LinksFormStars
<1>7. QED
  BY <1>1, <1>2, <1>3, <1>4, <1>5, <1>6 DEF Next

\* No links at first.
LEMMA InitInvariant == Init => IInv
  BY DEF Init, IInv, Links, LinksFormStars

\* The stars and their type are invariant.
LEMMA Invariance == Spec => []IInv
  BY InitInvariant, NextKeeps, PTL DEF Spec

\* Whatever the admin links and unlinks, no address both pays and is paid for.
THEOREM Stars == Spec => []LinksFormStars
<1>1. IInv => LinksFormStars
  BY DEF IInv
<1>2. QED
  BY Invariance, <1>1, PTL

---------------------------------------------------------------------------
\* Without Wizarr's users nobody has redeemed anything, so the links are the
\* stated ones.
LEMMA StoredLinks ==
  ASSUME links \in Links
  PROVE  linksOf(storedSnapshot) = links
<1> DEFINE s == storedSnapshot
<1>1. s.users = {} /\ s.links = links
  BY DEF storedSnapshot, identitySnapshot
<1>2. \A c : redeemerOf(s, c) = NoRecord
  BY <1>1 DEF redeemerOf, redeemerRecord
<1>3. impliedLinks(s) = [a \in Addresses |-> NoAddress]
  BY <1>2, IdentityAssumption DEF impliedLinks, addressOf
<1>4. linksOf(s) = [a \in Addresses |-> links[a]]
  BY <1>1, <1>3 DEF linksOf
<1>5. QED
  BY <1>4 DEF Links

\* The person the store alone sees at an address: what is linked to it.
LEMMA StoredPerson ==
  ASSUME links \in Links, NEW a \in Addresses
  PROVE  /\ personAt(storedSnapshot, a).addresses = linkedTo(links, {a})
         /\ personAt(storedSnapshot, a).primaryAddress = owner(links, a)
<1> DEFINE s == storedSnapshot
<1>1. s.users = {}
  BY DEF storedSnapshot, identitySnapshot
<1>2. redeemerOf(s, s.invites[a]) = NoRecord
  BY <1>1 DEF redeemerOf, redeemerRecord
<1>3. addressOf(redeemerOf(s, s.invites[a])) = NoAddress
  BY <1>2 DEF addressOf
<1>4. {a, NoAddress} \ {NoAddress} = {a}
  BY IdentityAssumption
<1>5. a # NoAddress
  BY IdentityAssumption
<1>6. linksOf(s) = links
  BY StoredLinks
<1>7. QED
  BY <1>3, <1>4, <1>5, <1>6 DEF personAt, identityFor

\* Under stars everyone linked to an address has the same owner.
LEMMA SameOwner ==
  ASSUME links \in Links, LinksFormStars,
         NEW a \in Addresses, NEW b \in linkedTo(links, {a})
  PROVE  b \in Addresses /\ owner(links, b) = owner(links, a)
<1>1. owner(links, a) \in Addresses
  BY DEF owner, Links
<1>2. owner(links, owner(links, a)) = owner(links, a)
  BY DEF owner, Links, LinksFormStars
<1>3. CASE b = a
  BY <1>3
<1>4. CASE b = owner(links, a)
  BY <1>1, <1>2, <1>4
<1>5. CASE b \in Addresses /\ links[b] = owner(links, a)
  BY <1>1, <1>5, IdentityAssumption DEF owner
<1>6. QED
  BY <1>3, <1>4, <1>5 DEF linkedTo

\* What is linked to an address is its owner and all who pay for the owner, the
\* address among them.
LEMMA LinkedToOwner ==
  ASSUME links \in Links, NEW a \in Addresses
  PROVE  linkedTo(links, {a}) = {owner(links, a)} \union
           {p \in Addresses : links[p] = owner(links, a)}
<1>1. a = owner(links, a) \/ links[a] = owner(links, a)
  BY DEF owner
<1>2. QED
  BY <1>1 DEF linkedTo

\* For any number of payers and accounts, and after any links and unlinks, the
\* store alone tells one person from another the same way from every address.
THEOREM OnePerson == Spec => []StoredPersonIsOne
<1>1. IInv => StoredPersonIsOne
  <2> SUFFICES ASSUME IInv, NEW a \in Addresses,
                      NEW b \in personAt(storedSnapshot, a).addresses
               PROVE  /\ personAt(storedSnapshot, b).addresses
                           = personAt(storedSnapshot, a).addresses
                      /\ personAt(storedSnapshot, b).primaryAddress
                           = personAt(storedSnapshot, a).primaryAddress
    BY DEF StoredPersonIsOne
  <2>1. links \in Links /\ LinksFormStars
    BY DEF IInv
  <2>2. b \in linkedTo(links, {a})
    BY <2>1, StoredPerson
  <2>3. b \in Addresses /\ owner(links, b) = owner(links, a)
    BY <2>1, <2>2, SameOwner
  <2>4. linkedTo(links, {b}) = linkedTo(links, {a})
    BY <2>1, <2>3, LinkedToOwner
  <2>5. QED
    BY <2>1, <2>3, <2>4, StoredPerson
<1>2. QED
  BY Invariance, <1>1, PTL

---------------------------------------------------------------------------
\* The seeds of a person are among its addresses, and so is what the asked
\* address links to.
LEMMA SeedsAreLinked ==
  ASSUME NEW ls, NEW known
  PROVE  /\ known \subseteq linkedTo(ls, known)
         /\ \A a \in known : owner(ls, a) \in linkedTo(ls, known)
  BY DEF linkedTo

\* Each kind of evidence finds records of the person's own.
LEMMA HeldRecords ==
  ASSUME NEW a \in Addresses, NEW r \in personAt(identitySnapshot, a).records
  PROVE  EmailOf[r] \in personAt(identitySnapshot, a).addresses \union {NoAddress}
<1> DEFINE s == identitySnapshot
           code == s.invites[a]
           redeemer == addressOf(redeemerOf(s, code))
           known == {a, redeemer} \ {NoAddress}
           byLink == IF s.links[a] # NoAddress THEN recordsAt(s, s.links[a]) ELSE {}
<1>1. a # NoAddress
  BY IdentityAssumption
<1>2. personAt(s, a).addresses = linkedTo(linksOf(s), known)
  BY <1>1 DEF personAt, identityFor
<1>3. r \in recordsAt(s, a) \/ r \in byLink \/ r \in redeemerRecords(s, code)
  BY <1>1 DEF personAt, identityFor
<1>4. CASE r \in recordsAt(s, a)
  <2>1. EmailOf[r] = a
    BY <1>4 DEF recordsAt
  <2>2. a \in known
    BY <1>1
  <2>3. QED
    BY <1>2, <2>1, <2>2, SeedsAreLinked
<1>5. CASE r \in byLink
  <2>1. s.links[a] # NoAddress /\ EmailOf[r] = s.links[a]
    BY <1>5 DEF recordsAt
  <2>2. linksOf(s)[a] = s.links[a]
    BY <2>1 DEF linksOf
  <2>3. owner(linksOf(s), a) = EmailOf[r]
    BY <2>1, <2>2 DEF owner
  <2>4. a \in known
    BY <1>1
  <2>5. QED
    BY <1>2, <2>3, <2>4, SeedsAreLinked
<1>6. CASE r \in redeemerRecords(s, code)
  <2>1. EmailOf[r] = redeemer
    BY <1>6 DEF redeemerRecords, recordsAt, addressOf
  <2>2. redeemer = NoAddress \/ redeemer \in known
    OBVIOUS
  <2>3. QED
    BY <1>2, <2>1, <2>2, SeedsAreLinked
<1>7. QED
  BY <1>3, <1>4, <1>5, <1>6

\* Whatever the evidence, nobody is found holding a stranger's records.
THEOREM HeldAreOwn == Spec => []HeldRecordsAreThePersons
<1>1. HeldRecordsAreThePersons
  BY HeldRecords DEF HeldRecordsAreThePersons
<1>2. QED
  BY <1>1, PTL

LEMMA TypeInit == Init => TypeOK
  BY DEF Init, TypeOK, Links

LEMMA TypeNext == TypeOK /\ [Next]_vars => TypeOK'
<1>. SUFFICES ASSUME TypeOK, [Next]_vars PROVE TypeOK'
  OBVIOUS
<1>1. CASE \E a, b \in Addresses : linkAddress(a, b)
  BY <1>1 DEF linkAddress, TypeOK, Links
<1>2. CASE \E a \in Addresses : unlinkAddress(a)
  BY <1>2 DEF unlinkAddress, TypeOK, Links
<1>3. CASE \E a \in Addresses, c \in Codes : upsertPending(a, c)
  BY <1>3 DEF upsertPending, TypeOK
<1>4. CASE \E c \in Codes, r \in Records : Redeem(c, r)
  BY <1>4 DEF Redeem, TypeOK
<1>5. CASE \E r \in Records : Drop(r)
  BY <1>5 DEF Drop, TypeOK
<1>6. CASE UNCHANGED vars
  BY <1>6 DEF vars, TypeOK
<1>7. QED
  BY <1>1, <1>2, <1>3, <1>4, <1>5, <1>6 DEF Next

\* Every variable keeps its type.
THEOREM TypeCorrect == Spec => []TypeOK
  BY TypeInit, TypeNext, PTL DEF Spec

---------------------------------------------------------------------------
\* The roster.

\* The links stated and implied, and the account an address's invite was redeemed as.
joined == linksOf(identitySnapshot)
redeemedAs(a) == addressOf(redeemerOf(identitySnapshot, invites[a]))

LEMMA JoinedLinks ==
  ASSUME TypeOK
  PROVE  /\ joined \in Links
         /\ \A a \in Addresses :
              /\ redeemedAs(a) \in Addresses \union {NoAddress}
              /\ joined[a] = IF links[a] # NoAddress THEN links[a]
                             ELSE IF redeemedAs(a) # a THEN redeemedAs(a) ELSE NoAddress
<1>1. ASSUME NEW a \in Addresses
      PROVE  redeemedAs(a) \in Addresses \union {NoAddress}
  <2>1. redeemerOf(identitySnapshot, invites[a]) \in Records \union {NoRecord}
    BY DEF redeemerOf, redeemerRecord, identitySnapshot, TypeOK
  <2>2. QED
    BY <2>1, IdentityAssumption DEF redeemedAs, addressOf
<1>2. joined = [a \in Addresses |->
                  IF links[a] # NoAddress THEN links[a]
                  ELSE IF redeemedAs(a) # a THEN redeemedAs(a) ELSE NoAddress]
  BY DEF joined, linksOf, impliedLinks, redeemedAs, identitySnapshot
<1>3. links \in Links
  BY DEF TypeOK
<1>4. QED
  BY <1>1, <1>2, <1>3 DEF Links

\* The person the page and the handlers find at an address.
LEMMA PersonJoined ==
  ASSUME TypeOK, NEW a \in Addresses
  PROVE  /\ personAt(identitySnapshot, a).addresses
              = linkedTo(joined, {a, redeemedAs(a)} \ {NoAddress})
         /\ personAt(identitySnapshot, a).primaryAddress = owner(joined, a)
<1>1. a # NoAddress
  BY IdentityAssumption
<1>2. identitySnapshot.invites[a] = invites[a]
  BY DEF identitySnapshot
<1>3. QED
  BY <1>1, <1>2 DEF personAt, identityFor, joined, redeemedAs

\* Two addresses of one owner: each is among the other's.
LEMMA OwnerReaches ==
  ASSUME TypeOK, NEW a \in Addresses, NEW b \in Addresses,
         owner(joined, a) = owner(joined, b)
  PROVE  a \in personAt(identitySnapshot, b).addresses
<1>1. b \in {b, redeemedAs(b)} \ {NoAddress}
  BY IdentityAssumption
<1>2. a = owner(joined, b) \/ joined[a] = owner(joined, b)
  BY DEF owner
<1>3. QED
  BY <1>1, <1>2, PersonJoined DEF linkedTo

LEMMA FirstIsOne ==
  ASSUME NEW some \in SUBSET Addresses, some # {}
  PROVE  first(some) \in some
  BY RosterAssumption DEF first

\* Every address the list is built from is in the entry of its owner's first seed.
LEMMA SeedIsListed ==
  ASSUME TypeOK, NEW a \in Addresses,
         a \in seeds(identitySnapshot, customerRows).wizarr \union customerRows
  PROVE  \E i \in identities(identitySnapshot, customerRows) :
           \E b \in Addresses : /\ i = personAt(identitySnapshot, b)
                               /\ a \in personAt(identitySnapshot, b).addresses
<1>. DEFINE wizarr == seeds(identitySnapshot, customerRows).wizarr
            all == wizarr \union customerRows
            from == {b \in all : personAt(identitySnapshot, b).primaryAddress
                                   = personAt(identitySnapshot, a).primaryAddress}
            pick == firstSeed(from, wizarr)
<1>1. all \subseteq Addresses
  BY IdentityAssumption DEF seeds, identitySnapshot, customerRows, TypeOK
<1>2. from \subseteq Addresses /\ a \in from
  BY <1>1
<1>3. pick \in from
  BY <1>2, FirstIsOne DEF firstSeed
<1>4. personAt(identitySnapshot, pick) \in identities(identitySnapshot, customerRows)
  BY DEF identities
<1>5. pick \in Addresses /\ owner(joined, pick) = owner(joined, a)
  BY <1>2, <1>3, PersonJoined
<1>6. a \in personAt(identitySnapshot, pick).addresses
  BY <1>5, OwnerReaches
<1>7. QED
  BY <1>4, <1>5, <1>6

LEMMA RosterHas ==
  ASSUME NEW i \in identities(identitySnapshot, customerRows)
  PROVE  i \in roster
  BY DEF roster, assembleMembers

\* A record with an address is with that address; one without is claimed, or is of
\* the entry of its username when it has one.
LEMMA NobodyIsMissing == TypeOK => EveryoneIsListed
<1>. SUFFICES ASSUME TypeOK PROVE EveryoneIsListed
  OBVIOUS
<1>1. ASSUME NEW r \in users, EmailOf[r] # NoAddress \/ UsernameOf[r] # NoName
      PROVE  \E entry \in roster : r \in listedRecords(identitySnapshot, entry)
  <2>1. r \in Records /\ r \in identitySnapshot.users
    BY DEF TypeOK, identitySnapshot
  <2>2. CASE EmailOf[r] # NoAddress
    <3>1. EmailOf[r] \in Addresses
      BY <2>1, <2>2, IdentityAssumption
    <3>2. EmailOf[r] \in seeds(identitySnapshot, customerRows).wizarr
      BY <2>1, <2>2 DEF seeds
    <3>3. PICK i \in identities(identitySnapshot, customerRows) : EmailOf[r] \in i.addresses
      BY <3>1, <3>2, SeedIsListed
    <3>4. r \in listedRecords(identitySnapshot, i)
      BY <2>1, <3>3 DEF listedRecords, everyRecord
    <3>5. QED
      BY <3>4, RosterHas
  <2>3. CASE EmailOf[r] = NoAddress
    <3>. DEFINE found == identities(identitySnapshot, customerRows)
                claimed == UNION {everyRecord(identitySnapshot, i) : i \in found}
                unclaimed == {q \in identitySnapshot.users : EmailOf[q] = NoAddress /\ UsernameOf[q] # NoName} \ claimed
                own == [primaryAddress |-> NoAddress, addresses |-> {}, via |-> "none",
                          records |-> {q \in unclaimed : UsernameOf[q] = UsernameOf[r]}]
    <3>1. CASE r \in claimed
      <4>1. PICK i \in found : r \in everyRecord(identitySnapshot, i)
        BY <3>1
      <4>2. QED
        BY <4>1, RosterHas DEF listedRecords
    <3>2. CASE r \notin claimed
      <4>1. r \in unclaimed
        BY <1>1, <2>1, <2>3, <3>2
      <4>2. own \in roster
        BY <4>1 DEF roster, assembleMembers, localAccounts
      <4>3. r \in listedRecords(identitySnapshot, own)
        BY <4>1 DEF listedRecords, everyRecord
      <4>4. QED
        BY <4>2, <4>3
    <3>3. QED
      BY <3>1, <3>2
  <2>4. QED
    BY <2>2, <2>3
<1>2. ASSUME NEW a \in customerRows
      PROVE  /\ \E entry \in roster : a \in entry.addresses
             /\ getMember(identitySnapshot, customerRows, a) # {}
  <2>1. a \in Addresses
    BY DEF customerRows
  <2>2. \E entry \in roster : a \in entry.addresses
    BY <2>1, SeedIsListed, RosterHas
  <2>3. getMember(identitySnapshot, customerRows, a) # {}
    BY DEF getMember
  <2>4. QED
    BY <2>2, <2>3
<1>3. QED
  BY <1>1, <1>2 DEF EveryoneIsListed

\* The addresses that one owner joins.
ownedWith(a) == {owner(joined, a)} \union {p \in Addresses : joined[p] = owner(joined, a)}

\* While the links agree no address that pays is paid for, and an invite redeemed under
\* another address was redeemed under the one its payer is linked to.
LEMMA AgreedLinks ==
  ASSUME TypeOK, linksAgree, NEW a \in Addresses
  PROVE  /\ joined[a] # NoAddress => joined[joined[a]] = NoAddress
         /\ redeemedAs(a) \notin {NoAddress, a} => redeemedAs(a) = joined[a]
<1>1. /\ joined[a] # NoAddress => joined[joined[a]] = NoAddress
      /\ links[a] # NoAddress /\ redeemedAs(a) \notin {NoAddress, a} => redeemedAs(a) = links[a]
  BY DEF linksAgree, joined, redeemedAs
<1>2. QED
  BY <1>1, JoinedLinks

\* A person's addresses are those of one owner, from whichever they are looked up.
LEMMA AgreedPerson ==
  ASSUME TypeOK, linksAgree, NEW a \in Addresses
  PROVE  personAt(identitySnapshot, a).addresses = ownedWith(a)
<1>. DEFINE known == {a, redeemedAs(a)} \ {NoAddress}
            owners == {owner(joined, x) : x \in known}
<1>1. joined \in Links /\ redeemedAs(a) \in Addresses \union {NoAddress}
  BY JoinedLinks
<1>2. a \in known /\ owner(joined, a) \in Addresses
  BY <1>1, IdentityAssumption DEF owner, Links
<1>3. ASSUME NEW x \in known
      PROVE  owner(joined, x) = owner(joined, a) /\ (x = a \/ x = owner(joined, a))
  <2>1. CASE x = a
    BY <2>1
  <2>2. CASE x # a
    <3>1. x = redeemedAs(a) /\ redeemedAs(a) \notin {NoAddress, a}
      BY <2>2
    <3>2. joined[a] = x /\ joined[a] # NoAddress /\ joined[x] = NoAddress
      BY <3>1, AgreedLinks
    <3>3. QED
      BY <3>2 DEF owner
  <2>3. QED
    BY <2>1, <2>2
<1>4. owners = {owner(joined, a)}
  BY <1>2, <1>3
<1>5. known \subseteq ownedWith(a)
  <2>1. a \in ownedWith(a)
    BY DEF ownedWith, owner
  <2>2. QED
    BY <1>3, <2>1 DEF ownedWith
<1>6. linkedTo(joined, known)
        = known \union owners \union {p \in Addresses : joined[p] \in owners}
  BY DEF linkedTo
<1>7. linkedTo(joined, known) = ownedWith(a)
  BY <1>4, <1>5, <1>6 DEF ownedWith
<1>8. QED
  BY <1>7, PersonJoined

\* Whoever is among a person's addresses has that person's owner.
LEMMA AgreedOwner ==
  ASSUME TypeOK, linksAgree, NEW a \in Addresses, NEW b \in ownedWith(a)
  PROVE  b \in Addresses /\ ownedWith(b) = ownedWith(a)
<1>1. joined \in Links
  BY JoinedLinks
<1>2. owner(joined, a) \in Addresses
  BY <1>1 DEF owner, Links
<1>3. owner(joined, b) = owner(joined, a)
  <2>1. CASE b = owner(joined, a)
    BY <2>1, AgreedLinks DEF owner
  <2>2. CASE b \in Addresses /\ joined[b] = owner(joined, a)
    BY <1>2, <2>2, IdentityAssumption DEF owner
  <2>3. QED
    BY <2>1, <2>2 DEF ownedWith
<1>4. QED
  BY <1>2, <1>3 DEF ownedWith

\* Among any addresses one ranks as high as any other, where ranks are below 8.
LEMMA OneRanksHighest ==
  ASSUME NEW some, NEW rank \in [some -> 0..7], some # {}
  PROVE  \E a \in some : \A b \in some : rank[b] <= rank[a]
<1>. DEFINE below(n) == \A b \in some : rank[b] < n
<1>1. ASSUME NEW n \in 0..7, below(n + 1), ~below(n)
      PROVE  \E a \in some : \A b \in some : rank[b] <= rank[a]
  <2>1. PICK a \in some : ~(rank[a] < n)
    BY <1>1
  <2>2. rank[a] = n /\ \A b \in some : rank[b] <= n
    BY <1>1, <2>1
  <2>3. QED
    BY <2>2
<1>2. below(8) /\ ~below(0)
  OBVIOUS
<1>. HIDE DEF below
<1>3. PICK n \in 0..7 : below(n + 1) /\ ~below(n)
  <2>1. SUFFICES ASSUME \A n \in 0..7 : below(n + 1) => below(n) PROVE FALSE
    OBVIOUS
  <2>2. (below(8) => below(7)) /\ (below(7) => below(6)) /\ (below(6) => below(5))
    BY <2>1, 7 + 1 = 8, 6 + 1 = 7, 5 + 1 = 6
  <2>3. (below(5) => below(4)) /\ (below(4) => below(3)) /\ (below(3) => below(2))
    BY <2>1, 4 + 1 = 5, 3 + 1 = 4, 2 + 1 = 3
  <2>4. (below(2) => below(1)) /\ (below(1) => below(0))
    BY <2>1, 1 + 1 = 2, 0 + 1 = 1
  <2>5. QED
    BY <1>2, <2>2, <2>3, <2>4
<1>4. QED
  BY <1>1, <1>3

\* The account billed is one of the entry's.
LEMMA BillingIsTheirs ==
  ASSUME NEW entry, entry.addresses \subseteq Addresses
  PROVE  primaryBilling(identitySnapshot, customerRows, {}, entry)
           \in entry.addresses \union {NoAddress}
<1>. DEFINE accounts == customerRows \intersect entry.addresses
            rank(a) == (IF a \in {} THEN 4 ELSE 0)
                         + (IF identitySnapshot.links[a] # NoAddress THEN 2 ELSE 0)
                         + (IF a = entry.primaryAddress THEN 1 ELSE 0)
            best == {a \in accounts : \A b \in accounts : rank(b) <= rank(a)}
            ranks == [a \in accounts |-> rank(a)]
<1>1. primaryBilling(identitySnapshot, customerRows, {}, entry)
        = IF accounts = {} THEN NoAddress ELSE first(best)
  BY Zenon DEF primaryBilling
<1>2. ASSUME accounts # {}
      PROVE  first(best) \in entry.addresses
  <2>1. \A a \in accounts : rank(a) \in 0..7
    OBVIOUS
  <2>. HIDE DEF rank
  <2>2. ranks \in [accounts -> 0..7] /\ \A a \in accounts : ranks[a] = rank(a)
    BY <2>1
  <2>. HIDE DEF ranks
  <2>3. PICK a \in accounts : \A b \in accounts : ranks[b] <= ranks[a]
    BY <1>2, <2>2, OneRanksHighest
  <2>4. a \in best
    BY <2>2, <2>3
  <2>5. best \subseteq accounts /\ best \in SUBSET Addresses
    OBVIOUS
  <2>6. QED
    BY <2>4, <2>5, FirstIsOne
<1>3. QED
  BY <1>1, <1>2

\* An entry is a person's of some address, or an account's that has none.
LEMMA EntryIsPersons ==
  ASSUME TypeOK, NEW entry \in roster
  PROVE  \/ \E a \in Addresses : entry = personAt(identitySnapshot, a)
         \/ entry.addresses = {}
<1>. DEFINE found == identities(identitySnapshot, customerRows)
<1>1. CASE entry \in found
  <2>. DEFINE wizarr == seeds(identitySnapshot, customerRows).wizarr
              all == wizarr \union customerRows
              from(a) == {b \in all : personAt(identitySnapshot, b).primaryAddress
                                        = personAt(identitySnapshot, a).primaryAddress}
  <2>1. PICK a \in all : entry = personAt(identitySnapshot, firstSeed(from(a), wizarr))
    BY <1>1 DEF identities
  <2>2. all \subseteq Addresses
    BY IdentityAssumption DEF seeds, identitySnapshot, customerRows, TypeOK
  <2>3. from(a) \subseteq Addresses /\ a \in from(a)
    BY <2>1, <2>2
  <2>4. firstSeed(from(a), wizarr) \in Addresses
    BY <2>3, FirstIsOne DEF firstSeed
  <2>5. QED
    BY <2>1, <2>4
<1>2. CASE entry \in localAccounts(identitySnapshot, found)
  BY <1>2 DEF localAccounts
<1>3. QED
  BY <1>1, <1>2 DEF roster, assembleMembers

\* An entry's own addresses all lead back to it.
LEMMA ListedAreHandled == TypeOK => ListedAsHandled
<1>. SUFFICES ASSUME TypeOK, linksAgree, NEW entry \in roster
              PROVE  /\ \A a \in entry.addresses :
                          personAt(identitySnapshot, a).addresses = entry.addresses
                     /\ primaryBilling(identitySnapshot, customerRows, {}, entry)
                          \in entry.addresses \union {NoAddress}
                     /\ \A a \in entry.addresses : \A tags :
                          finishMember(entry, tags) = standingOf(identitySnapshot, tags, a)
  BY Zenon DEF ListedAsHandled
<1>1. entry.addresses \subseteq Addresses
      /\ \A a \in entry.addresses :
           personAt(identitySnapshot, a).addresses = entry.addresses
  <2>1. CASE entry.addresses = {}
    BY <2>1
  <2>2. CASE \E a \in Addresses : entry = personAt(identitySnapshot, a)
    <3>1. PICK b \in Addresses : entry = personAt(identitySnapshot, b)
      BY <2>2
    <3>2. entry.addresses = ownedWith(b)
      BY <3>1, AgreedPerson
    <3>3. ASSUME NEW a \in ownedWith(b)
          PROVE  a \in Addresses /\ personAt(identitySnapshot, a).addresses = ownedWith(b)
      <4>1. a \in Addresses /\ ownedWith(a) = ownedWith(b)
        BY AgreedOwner
      <4>2. QED
        BY <4>1, AgreedPerson
    <3>4. QED
      BY <3>2, <3>3
  <2>3. QED
    BY <2>1, <2>2, EntryIsPersons
<1>2. \A a \in entry.addresses : \A tags :
        finishMember(entry, tags) = standingOf(identitySnapshot, tags, a)
  BY <1>1 DEF finishMember, standingOf
<1>3. QED
  BY <1>1, <1>2, BillingIsTheirs

LEMMA TypedRosterIsTrue == TypeOK => RosterIsTrue
  BY NobodyIsMissing, ListedAreHandled DEF RosterIsTrue

\* However links are stated, invites redeemed and records dropped, for any number of
\* them: nobody is missing from the members list, and while the links agree it is of
\* the people the handlers act on.
THEOREM MembersAreListed == Spec => []RosterIsTrue
  BY TypedRosterIsTrue, TypeCorrect, PTL

---------------------------------------------------------------------------
\* The drift alarms.

\* What a ChangeAlert remembers is what its last check found: a failed mail
\* does not take it back, and a check that could not read leaves both alone.
Remembers ==
  /\ last = seen
  /\ last = [a \in Alarms |-> last[a]]

\* The inductive invariant of the alarms. That the set remembered is the set
\* last found is what keeps a second mail from going out, and a first one in.
Alarmed == AlarmTypeOK /\ Remembers /\ OneMailPerStanding

\* Nothing remembered, nothing found, nothing mailed: how the process starts.
LEMMA StartsQuiet ==
  ASSUME last' = [a \in Alarms |-> Quiet], seen' = [a \in Alarms |-> Quiet],
         told' = [a \in Alarms |-> 0]
  PROVE  /\ DOMAIN last' = Alarms /\ DOMAIN seen' = Alarms
         /\ told' \in [Alarms -> 0..2] /\ Remembers' /\ OneMailPerStanding'
  BY DEF Remembers, OneMailPerStanding

\* One check: a mail goes out exactly when the set is new and not empty.
LEMMA RaiseKeeps ==
  ASSUME Alarmed, NEW alarm \in Alarms, NEW problems, NEW next \in Passes,
         Raise(alarm, problems, next)
  PROVE  /\ pass' \in Passes
         /\ DOMAIN last' = Alarms /\ DOMAIN seen' = Alarms
         /\ told' \in [Alarms -> 0..2]
         /\ Remembers' /\ OneMailPerStanding'
<1>1. /\ last' = [last EXCEPT ![alarm] = problems]
      /\ seen' = [seen EXCEPT ![alarm] = problems]
  BY DEF Raise, Notes
<1>2. Remembers' /\ DOMAIN last' = Alarms /\ DOMAIN seen' = Alarms
  BY <1>1 DEF Alarmed, Remembers, AlarmTypeOK
<1>3. pass' \in Passes
  BY DEF Raise, Passes, mailOf
<1>4. seen'[alarm] = problems /\ \A a \in Alarms \ {alarm} : seen'[a] = seen[a]
  BY <1>1 DEF Alarmed, AlarmTypeOK
<1>5. told' \in [Alarms -> 0..2] /\ told'[alarm] = IF problems = Quiet THEN 0 ELSE 1
  <2>1. told[alarm] = IF seen[alarm] = Quiet THEN 0 ELSE 1
    BY DEF Alarmed, OneMailPerStanding
  <2>2. last[alarm] = seen[alarm] /\ told \in [Alarms -> 0..2]
    BY DEF Alarmed, Remembers, AlarmTypeOK
  <2>3. CASE problems = seen[alarm]
    <3>1. told' = [told EXCEPT ![alarm] = told[alarm]]
      BY <2>2, <2>3 DEF Raise, Notes
    <3>2. QED
      BY <2>1, <2>2, <2>3, <3>1
  <2>4. CASE problems # seen[alarm] /\ problems = Quiet
    <3>1. told' = [told EXCEPT ![alarm] = 0]
      BY <2>2, <2>4 DEF Raise, Notes
    <3>2. QED
      BY <2>2, <2>4, <3>1
  <2>5. CASE problems # seen[alarm] /\ problems # Quiet
    <3>1. told' = [told EXCEPT ![alarm] = 1]
      BY <2>2, <2>5 DEF Raise, Notes
    <3>2. QED
      BY <2>2, <2>5, <3>1
  <2>6. QED
    BY <2>3, <2>4, <2>5
<1>6. \A a \in Alarms \ {alarm} : told'[a] = told[a]
  BY DEF Raise, Notes, Alarmed, AlarmTypeOK
<1>7. OneMailPerStanding'
  BY <1>4, <1>5, <1>6 DEF OneMailPerStanding, Alarmed
<1>8. QED
  BY <1>2, <1>3, <1>5, <1>7

LEMMA AlarmInitKeeps == AlarmInit => Alarmed
<1>. SUFFICES ASSUME AlarmInit PROVE Alarmed
  OBVIOUS
<1>1. AlarmTypeOK
  BY AlarmAssumption DEF AlarmInit, AlarmTypeOK, Passes
<1>2. Remembers /\ OneMailPerStanding
  BY DEF AlarmInit, Remembers, OneMailPerStanding
<1>3. QED
  BY <1>1, <1>2 DEF Alarmed

\* A step that raises nothing leaves the alarms' memory and their history alone.
LEMMA NoRaiseKeeps ==
  ASSUME Alarmed, UNCHANGED <<last, seen, told>>
  PROVE  /\ DOMAIN last' = Alarms /\ DOMAIN seen' = Alarms
         /\ told' \in [Alarms -> 0..2] /\ Remembers' /\ OneMailPerStanding'
  BY DEF Alarmed, AlarmTypeOK, Remembers, OneMailPerStanding

LEMMA OutageKeeps == Alarmed /\ (Outage \/ UNCHANGED outages) => outages' \in 0..MaxOutages
  BY AlarmAssumption DEF Alarmed, AlarmTypeOK, Outage

LEMMA AlarmNextKeeps == Alarmed /\ [AlarmNext]_alarmVars => Alarmed'
<1>. SUFFICES ASSUME Alarmed, [AlarmNext]_alarmVars PROVE Alarmed'
  OBVIOUS
<1>. DEFINE Upstream == /\ cached' \in Lists /\ plex' \in Lists /\ inHand' \in Lists
                        /\ tagged' \subseteq Vips /\ holding' \subseteq Vips
            Rest == /\ pass' \in Passes
                    /\ DOMAIN last' = Alarms /\ DOMAIN seen' = Alarms
                    /\ told' \in [Alarms -> 0..2]
                    /\ outages' \in 0..MaxOutages
                    /\ Remembers' /\ OneMailPerStanding'
<1>1. Upstream /\ Rest => Alarmed'
  BY DEF Alarmed, AlarmTypeOK
<1>2. UNCHANGED <<upstreamVars, inHand>> => Upstream
  BY DEF upstreamVars, Alarmed, AlarmTypeOK
<1>. HIDE DEF Upstream
<1>3. CASE UNCHANGED alarmVars
  BY <1>1, <1>2, <1>3, NoRaiseKeeps, OutageKeeps DEF alarmVars, upstreamVars, Alarmed, AlarmTypeOK
<1>4. CASE reconcileStarts
  <2>1. UNCHANGED <<last, seen, told>> /\ UNCHANGED <<upstreamVars, inHand>>
        /\ UNCHANGED outages /\ pass' \in Passes
    BY <1>4 DEF reconcileStarts, Passes
  <2>2. QED
    BY <2>1, <1>1, <1>2, NoRaiseKeeps, OutageKeeps
<1>5. CASE LibrariesRead
  <2>1. UNCHANGED <<last, seen, told>> /\ pass' \in Passes
    BY <1>5 DEF LibrariesRead, Passes
  <2>4. Outage \/ UNCHANGED outages
    BY <1>5 DEF LibrariesRead
  <2>2. Upstream
    BY <1>5 DEF LibrariesRead, upstreamVars, Upstream, Alarmed, AlarmTypeOK
  <2>3. QED
    BY <2>1, <2>2, <2>4, <1>1, NoRaiseKeeps, OutageKeeps
<1>6. CASE checkTierScopes
  <2>1. PICK live \in liveSectionsOrNone(plex) :
          /\ IF live = liveSections(plex, Servers) THEN UNCHANGED outages ELSE Outage
          /\ Raise("tierScope", problemsOf(inHand, live), "vipAccess")
    BY <1>6 DEF checkTierScopes
  <2>2. (Outage \/ UNCHANGED outages) /\ Upstream
    BY <1>2, <1>6, <2>1 DEF checkTierScopes
  <2>3. "tierScope" \in Alarms /\ "vipAccess" \in Passes
    BY DEF Alarms, Passes
  <2>4. QED
    BY <2>1, <2>2, <2>3, <1>1, RaiseKeeps, OutageKeeps
<1>7. CASE checkVipAccess
  <2>1. Upstream
    BY <1>2, <1>7 DEF checkVipAccess
  <2>2. CASE Raise("vipAccess", tagged \ holding, "idle") /\ UNCHANGED outages
    <3>1. "vipAccess" \in Alarms /\ "idle" \in Passes
      BY DEF Alarms, Passes
    <3>2. QED
      BY <2>1, <2>2, <3>1, <1>1, RaiseKeeps, OutageKeeps
  <2>3. CASE Outage /\ pass' = "idle" /\ UNCHANGED <<last, seen, told>>
    <3>1. pass' \in Passes
      BY <2>3 DEF Passes
    <3>2. QED
      BY <2>1, <2>3, <3>1, <1>1, NoRaiseKeeps, OutageKeeps
  <2>4. QED
    BY <1>7, <2>2, <2>3 DEF checkVipAccess
<1>8. CASE fire
  <2>1. UNCHANGED <<last, seen, told>> /\ UNCHANGED <<upstreamVars, inHand>> /\ pass' \in Passes
    BY <1>8 DEF fire, Passes
  <2>4. Outage \/ UNCHANGED outages
    BY <1>8 DEF fire
  <2>2. QED
    BY <2>1, <2>4, <1>1, <1>2, NoRaiseKeeps, OutageKeeps
<1>9. CASE Restart
  <2>1. /\ last' = [a \in Alarms |-> Quiet] /\ seen' = [a \in Alarms |-> Quiet]
        /\ told' = [a \in Alarms |-> 0] /\ pass' \in Passes /\ Outage
        /\ UNCHANGED <<upstreamVars, inHand>>
    BY <1>9 DEF Restart, Passes, Outage
  <2>2. QED
    BY <2>1, <1>1, <1>2, StartsQuiet, OutageKeeps
<1>10. CASE Outside
  <2>1. UNCHANGED <<last, seen, told>> /\ UNCHANGED outages /\ UNCHANGED pass /\ pass' \in Passes
    BY <1>10 DEF Outside, Alarmed, AlarmTypeOK
  <2>2. Upstream
    BY <1>10, AlarmAssumption
       DEF Outside, Rename, Rescan, Tag, Record, Upstream, Alarmed, AlarmTypeOK
  <2>3. QED
    BY <2>1, <2>2, <1>1, NoRaiseKeeps, OutageKeeps
<1>11. QED
  BY <1>3, <1>4, <1>5, <1>6, <1>7, <1>8, <1>9, <1>10 DEF AlarmNext

\* Of every problem set that stands, an alarm mails once and only once, whatever
\* fails, is renamed, tagged or restarted meanwhile (ChangeAlert.fire).
THEOREM MailedOnce == AlarmSpec => []OneMailPerStanding
<1>1. Alarmed => OneMailPerStanding
  BY DEF Alarmed
<1>2. QED
  BY <1>1, AlarmInitKeeps, AlarmNextKeeps, PTL DEF AlarmSpec

---------------------------------------------------------------------------
\* The billing of a ban or of a cancellation.

\* Calls are out for somebody who asks, who has no answer yet; between an answer
\* that was taken and the next asking nothing is tallied.
OneAtATime ==
  /\ doing => ask # "none"
  /\ ask # "none" => answer = "none"
  /\ ask = "none" /\ answer = "none" => tally = EmptyTally

\* As long as nothing failed, a customer that was found is still to be listed, or
\* each of their subscriptions is set to end, in hand to be, or began or ended since.
Swept ==
  tally.failures = 0 =>
    \A c \in tally.found \ toList : subscriptionsFor(c) \subseteq flagged \union touched \union toFlag

\* The answers that claim the billing is as asked are given when nothing failed.
Claims == {"scheduled", "already_scheduled", "absent", "canceled", "unknown"}
Unfailing == answer \in Claims => tally.failures = 0

\* The inductive invariant of the billing.
Billed == BillingTypeOK /\ OneAtATime /\ Swept /\ Unfailing

LEMMA BilledIsTrue == Billed => BillingIsTrue
<1>. SUFFICES ASSUME Billed, answer \in Claims, NEW c \in tally.found
              PROVE  subscriptionsFor(c) \subseteq flagged \union touched
  BY DEF BillingIsTrue, Claims
<1>1. answer # "none"
  BY DEF Claims
<1>2. toList = {} /\ toFlag = {}
  BY <1>1 DEF Billed, OneAtATime, doing
<1>3. tally.failures = 0
  BY DEF Billed, Unfailing
<1>4. QED
  BY <1>2, <1>3 DEF Billed, Swept

LEMMA BillingInitKeeps == BillingInit => Billed
<1>. SUFFICES ASSUME BillingInit PROVE Billed
  OBVIOUS
<1>1. tally = EmptyTally /\ answer = "none" /\ ask = "none" /\ ~doing
  BY DEF BillingInit, doing
<1>2. tally \in [found : SUBSET Customers, flagged : SUBSET Plans, already : SUBSET Plans,
                 failures : 0..MaxBillingFailures]
  BY <1>1, BillingAssumption DEF EmptyTally
<1>3. BillingTypeOK
  BY <1>2, BillingAssumption DEF BillingInit, BillingTypeOK, Asks, Answers, Statuses
<1>4. OneAtATime /\ Swept /\ Unfailing
  BY <1>1 DEF OneAtATime, Swept, Unfailing, EmptyTally, Claims
<1>5. QED
  BY <1>3, <1>4 DEF Billed

LEMMA AskKeeps ==
  ASSUME Billed, NEW what \in Asks, Ask(what)
  PROVE  Billed'
<1>1. tally = EmptyTally /\ tally' = tally
  BY DEF Ask, Billed, OneAtATime
<1>2. BillingTypeOK'
  BY DEF Ask, Billed, BillingTypeOK
<1>3. ask' # "none" /\ answer' = "none"
  BY DEF Ask, Asks
<1>4. OneAtATime' /\ Unfailing'
  BY <1>3 DEF OneAtATime, Unfailing, Claims
<1>5. Swept'
  BY <1>1 DEF Swept, EmptyTally
<1>6. QED
  BY <1>2, <1>4, <1>5 DEF Billed

\* A failure is counted, within the bound, and from then on nothing is claimed.
LEMMA FailureCounts ==
  ASSUME Billed, MayFail, Failed
  PROVE  /\ tally' \in [found : SUBSET Customers, flagged : SUBSET Plans,
                        already : SUBSET Plans, failures : 0..MaxBillingFailures]
         /\ tally'.failures # 0
  BY BillingAssumption DEF Billed, BillingTypeOK, MayFail, Failed

\* While somebody waits for the answer, and keeps waiting, only the sweep matters.
LEMMA WaitingKeeps ==
  ASSUME Billed, ask # "none", UNCHANGED <<ask, answer>>, BillingTypeOK', Swept'
  PROVE  Billed'
<1>1. answer' = "none"
  BY DEF Billed, OneAtATime
<1>2. OneAtATime' /\ Unfailing'
  BY <1>1 DEF OneAtATime, Unfailing, Claims
<1>3. QED
  BY <1>2 DEF Billed

LEMMA FindKeeps ==
  ASSUME Billed, NEW a \in Emails, FindCustomers(a)
  PROVE  Billed'
<1>. DEFINE ids == IF mappedIds(a) # {} THEN mappedIds(a) ELSE customerIdsForEmail(a)
<1>1. ask # "none" /\ UNCHANGED <<ask, answer, worldVars, toFlag>>
  BY DEF FindCustomers, Billed, OneAtATime, doing
<1>2. ids \subseteq Customers
  BY DEF mappedIds, customerIdsForEmail, Billed, BillingTypeOK
<1>3. BillingTypeOK' /\ Swept'
  <2>1. CASE /\ toList' = toList \union ids
             /\ tally' = [tally EXCEPT !.found = @ \union ids]
    <3>1. /\ tally' \in [found : SUBSET Customers, flagged : SUBSET Plans,
                         already : SUBSET Plans, failures : 0..MaxBillingFailures]
          /\ tally'.found \ toList' \subseteq tally.found \ toList
          /\ tally'.failures = tally.failures
      BY <1>2, <2>1 DEF Billed, BillingTypeOK
    <3>2. BillingTypeOK'
      BY <1>1, <1>2, <2>1, <3>1 DEF FindCustomers, Billed, BillingTypeOK, worldVars
    <3>3. Swept'
      BY <1>1, <3>1 DEF Billed, Swept, subscriptionsFor, worldVars
    <3>4. QED
      BY <3>2, <3>3
  <2>2. CASE MayFail /\ Failed /\ UNCHANGED toList
    <3>1. BillingTypeOK'
      BY <1>1, <2>2, FailureCounts DEF FindCustomers, Billed, BillingTypeOK, worldVars
    <3>2. Swept'
      BY <2>2, FailureCounts DEF Swept
    <3>3. QED
      BY <3>1, <3>2
  <2>3. QED
    BY <2>1, <2>2 DEF FindCustomers
<1>4. QED
  BY <1>1, <1>3, WaitingKeeps

LEMMA ListKeeps ==
  ASSUME Billed, NEW c \in Customers, ListSubscriptions(c)
  PROVE  Billed'
<1>. DEFINE listedNow == subscriptionsFor(c)
<1>1. ask # "none" /\ UNCHANGED <<ask, answer, worldVars, toFind>>
      /\ toList' = toList \ {c} /\ toFlag = {}
  BY DEF ListSubscriptions, Billed, OneAtATime, doing
<1>2. listedNow \subseteq Plans
  BY DEF subscriptionsFor
<1>3. BillingTypeOK' /\ Swept'
  <2>1. CASE /\ toFlag' = listedNow \ flagged
             /\ tally' = [tally EXCEPT !.already = @ \union (listedNow \intersect flagged)]
    <3>1. /\ tally' \in [found : SUBSET Customers, flagged : SUBSET Plans,
                         already : SUBSET Plans, failures : 0..MaxBillingFailures]
          /\ tally'.found = tally.found
          /\ tally'.failures = tally.failures
      BY <1>2, <2>1 DEF Billed, BillingTypeOK
    <3>2. BillingTypeOK'
      BY <1>1, <1>2, <2>1, <3>1 DEF Billed, BillingTypeOK, worldVars
    <3>3. \A d : subscriptionsFor(d)' = subscriptionsFor(d)
      BY <1>1 DEF subscriptionsFor, worldVars
    <3>4. flagged' = flagged /\ touched' = touched
      BY <1>1 DEF worldVars
    <3>5. Swept'
      <4>. SUFFICES ASSUME tally'.failures = 0, NEW d \in tally'.found \ toList'
                    PROVE  subscriptionsFor(d)' \subseteq flagged' \union touched' \union toFlag'
        BY DEF Swept
      <4>1. CASE d = c
        BY <2>1, <3>3, <3>4, <4>1
      <4>2. CASE d # c
        <5>1. d \in tally.found \ toList
          BY <1>1, <3>1, <4>2
        <5>2. subscriptionsFor(d) \subseteq flagged \union touched
          BY <1>1, <3>1, <5>1 DEF Billed, Swept
        <5>3. QED
          BY <3>3, <3>4, <5>2
      <4>3. QED
        BY <4>1, <4>2
    <3>6. QED
      BY <3>2, <3>5
  <2>2. CASE MayFail /\ Failed /\ UNCHANGED toFlag
    <3>1. BillingTypeOK'
      BY <1>1, <2>2, FailureCounts DEF Billed, BillingTypeOK, worldVars
    <3>2. Swept'
      BY <2>2, FailureCounts DEF Swept
    <3>3. QED
      BY <3>1, <3>2
  <2>3. QED
    BY <2>1, <2>2 DEF ListSubscriptions
<1>4. QED
  BY <1>1, <1>3, WaitingKeeps

LEMMA FlagKeeps ==
  ASSUME Billed, NEW p \in Plans, FlagSubscription(p)
  PROVE  Billed'
<1>1. /\ ask # "none" /\ UNCHANGED <<ask, answer, stored, status, touched, toFind, toList>>
      /\ toFlag' = toFlag \ {p}
  BY DEF FlagSubscription, Billed, OneAtATime, doing
<1>2. BillingTypeOK' /\ Swept'
  <2>1. CASE /\ flagged' = flagged \union {p}
             /\ tally' = [tally EXCEPT !.flagged = @ \union {p}]
    <3>1. /\ tally' \in [found : SUBSET Customers, flagged : SUBSET Plans,
                         already : SUBSET Plans, failures : 0..MaxBillingFailures]
          /\ tally'.found = tally.found
          /\ tally'.failures = tally.failures
      BY <2>1 DEF Billed, BillingTypeOK
    <3>2. BillingTypeOK'
      BY <1>1, <2>1, <3>1 DEF Billed, BillingTypeOK
    <3>3. flagged' \union touched' \union toFlag' = flagged \union touched \union toFlag \union {p}
      BY <1>1, <2>1
    <3>4. \A d : subscriptionsFor(d)' = subscriptionsFor(d)
      BY <1>1 DEF subscriptionsFor
    <3>5. Swept'
      BY <1>1, <3>1, <3>3, <3>4 DEF Billed, Swept
    <3>6. QED
      BY <3>2, <3>5
  <2>2. CASE /\ MayFail /\ Failed
             /\ \E done \in SUBSET ({p} \ {o \in Plans : status[o] = "canceled"}) :
                  flagged' = flagged \union done
    <3>1. BillingTypeOK'
      BY <1>1, <2>2, FailureCounts DEF Billed, BillingTypeOK
    <3>2. Swept'
      BY <2>2, FailureCounts DEF Swept
    <3>3. QED
      BY <3>1, <3>2
  <2>3. QED
    BY <2>1, <2>2 DEF FlagSubscription
<1>3. QED
  BY <1>1, <1>2, WaitingKeeps

LEMMA AnswerKeeps == Billed /\ Answer => Billed'
<1>. SUFFICES ASSUME Billed, Answer PROVE Billed'
  OBVIOUS
<1>1. /\ ~doing /\ ask' = "none"
      /\ UNCHANGED <<stored, status, flagged, touched, toFind, toList, toFlag, tally>>
  BY DEF Answer, worldVars
<1>2. answer' = banBillingOutcome \/ answer' = cancelOutcome
  BY Zenon DEF Answer
<1>3. /\ answer' \in Answers \ {"none"}
      /\ answer' \in Claims => tally.failures = 0
  <2>1. tally.failures \in Nat
    BY BillingAssumption DEF Billed, BillingTypeOK
  <2>2. QED
    BY <1>2, <2>1 DEF banBillingOutcome, cancelOutcome, Answers, Claims
<1>4. BillingTypeOK'
  BY <1>1, <1>3 DEF Billed, BillingTypeOK
<1>5. OneAtATime'
  BY <1>1, <1>3 DEF OneAtATime, doing
<1>6. Unfailing'
  BY <1>1, <1>3 DEF Unfailing
<1>7. Swept'
  BY <1>1 DEF Billed, Swept, subscriptionsFor
<1>8. QED
  BY <1>4, <1>5, <1>6, <1>7 DEF Billed

LEMMA AgainKeeps == Billed /\ Again => Billed'
<1>. SUFFICES ASSUME Billed, Again PROVE Billed'
  OBVIOUS
<1>1. /\ answer # "none" /\ answer' = "none" /\ tally' = EmptyTally
      /\ UNCHANGED <<stored, status, flagged, touched, ask, toFind, toList, toFlag>>
  BY DEF Again, worldVars
<1>2. tally' \in [found : SUBSET Customers, flagged : SUBSET Plans, already : SUBSET Plans,
                  failures : 0..MaxBillingFailures]
  BY <1>1, BillingAssumption DEF EmptyTally
<1>3. BillingTypeOK'
  BY <1>1, <1>2 DEF Billed, BillingTypeOK, Answers
<1>4. OneAtATime' /\ Unfailing'
  BY <1>1 DEF Billed, OneAtATime, Unfailing, doing, Claims
<1>5. Swept'
  BY <1>1 DEF Swept, EmptyTally
<1>6. QED
  BY <1>3, <1>4, <1>5 DEF Billed

\* What Stripe does of itself leaves no subscription that was there all along.
LEMMA WorldKeeps ==
  ASSUME Billed, UNCHANGED <<flagged, ask, toFind, toList, toFlag, tally, answer>>,
         BillingTypeOK', touched \subseteq touched',
         \A q \in Plans : \/ status[q] \notin {"unborn", "canceled"}
                          \/ status'[q] \in {"unborn", "canceled"}
                          \/ q \in touched'
  PROVE  Billed'
<1>1. \A c : subscriptionsFor(c)' \subseteq subscriptionsFor(c) \union touched'
  BY DEF subscriptionsFor
<1>2. Swept'
  BY <1>1 DEF Billed, Swept
<1>3. OneAtATime' /\ Unfailing'
  BY DEF Billed, OneAtATime, Unfailing, doing
<1>4. QED
  BY <1>2, <1>3 DEF Billed

LEMMA CheckoutKeeps ==
  ASSUME Billed, NEW p \in Plans, Checkout(p)
  PROVE  Billed'
<1>1. /\ status' = [status EXCEPT ![p] = "active"]
      /\ stored' = stored \union {PayerOf[p]} /\ touched' = touched \union {p}
      /\ UNCHANGED <<flagged, ask, toFind, toList, toFlag, tally, answer>>
  BY DEF Checkout
<1>2. BillingTypeOK'
  BY <1>1, BillingAssumption DEF Billed, BillingTypeOK, Statuses
<1>3. \A q \in Plans : status'[q] = status[q] \/ q \in touched'
  BY <1>1 DEF Billed, BillingTypeOK
<1>4. QED
  BY <1>1, <1>2, <1>3, WorldKeeps

LEMMA MovesKeeps ==
  ASSUME Billed, NEW p \in Plans, StripeMoves(p)
  PROVE  Billed'
<1>1. /\ status[p] \in {"active", "past_due"}
      /\ UNCHANGED <<stored, flagged, ask, toFind, toList, toFlag, tally, answer>>
  BY DEF StripeMoves
<1>2. PICK to \in {"active", "past_due", "canceled"} :
        /\ status' = [status EXCEPT ![p] = to]
        /\ touched' = IF to = "canceled" THEN touched \union {p} ELSE touched
  BY DEF StripeMoves
<1>3. BillingTypeOK'
  BY <1>1, <1>2 DEF Billed, BillingTypeOK, Statuses
<1>4. \A q \in Plans : status'[q] = status[q] \/ status[q] \notin {"unborn", "canceled"}
  BY <1>1, <1>2 DEF Billed, BillingTypeOK
<1>5. touched \subseteq touched'
  BY <1>2
<1>6. QED
  BY <1>1, <1>3, <1>4, <1>5, WorldKeeps

LEMMA BillingNextKeeps == Billed /\ [BillingNext]_billingVars => Billed'
<1>. SUFFICES ASSUME Billed, [BillingNext]_billingVars PROVE Billed'
  OBVIOUS
<1>1. CASE UNCHANGED billingVars
  BY <1>1 DEF billingVars, Billed, BillingTypeOK, OneAtATime, Swept, Unfailing,
              subscriptionsFor, doing
<1>2. CASE BillingNext
  BY <1>2, AskKeeps, FindKeeps, ListKeeps, FlagKeeps, CheckoutKeeps, MovesKeeps,
     AnswerKeeps, AgainKeeps DEF BillingNext
<1>3. QED
  BY <1>1, <1>2

\* The state of the billing stays well-typed, and its answers true of Stripe: for
\* any customers, addresses and plans, in whatever order the calls fail and the
\* subscriptions begin, go into dunning and end (flagSubscriptions).
THEOREM BillingTold == BillingSpec => [](BillingTypeOK /\ BillingIsTrue)
<1>1. Billed => BillingTypeOK /\ BillingIsTrue
  BY BilledIsTrue DEF Billed
<1>2. QED
  BY <1>1, BillingInitKeeps, BillingNextKeeps, PTL DEF BillingSpec

---------------------------------------------------------------------------
\* The admin's requests about one member.

Posts == [at : Stages, kind : Kinds \union {"none"}, held : SUBSET Ids, todo : SUBSET Ids,
          link : LinkIds \union {Unlinked}]

\* Only a reissue resolves a scope and mints, and a ban has stages of its own.
BanStages == {"read", "disable", "billing", "done", "failed"}
StageFits(post) ==
  /\ post.at \in {"scope", "mint"} => post.kind = "reissue"
  /\ post.kind = "ban" => post.at \in BanStages
Staged == \A q \in Requests : StageFits(request[q])

\* The bans that stand are bans, and the tag stands with them.
BansStand ==
  /\ standing # {} => tag = "banned"
  /\ \A q \in standing : request[q].kind = "ban"

\* While the tag says banned every link that came to be is allowed for, since
\* only a reissue that was past its check by then can still mint one.
Covered ==
  tag = "banned" =>
    /\ \A l \in LinkIds : link[l] # "none" => l \in allowed
    /\ \A q \in Requests : Passed(q) => q \in passed

\* A record came through a link that had been minted, or through none.
Sourced == \A r \in Ids : source[r] # Unlinked => link[source[r]] # "none"

\* What a ban that stands has left of the records that came through no link: when
\* it is disabling, what it has still to do; after that, nothing.
LeavesNone(post) ==
  \A r \in records :
    source[r] = Unlinked =>
      /\ post.at \notin {"billing", "done"}
      /\ post.at = "disable" => r \in post.todo
Cleared == \A q \in standing : LeavesNone(request[q])

\* The inductive invariant of the requests.
BanInv == AdminTypeOK /\ Staged /\ BansStand /\ Covered /\ Sourced /\ Cleared

LEMMA BanInvHolds == BanInv => BanHolds
<1>. SUFFICES ASSUME BanInv, NEW q \in standing, At(q, "done"), NEW r \in records
              PROVE  source[r] \in allowed
  BY DEF BanHolds
<1>1. source[r] # Unlinked
  BY DEF BanInv, Cleared, LeavesNone, At
<1>2. r \in Ids /\ source[r] \in LinkIds
  BY <1>1 DEF BanInv, AdminTypeOK
<1>3. link[source[r]] # "none" /\ tag = "banned"
  BY <1>1, <1>2 DEF BanInv, Sourced, BansStand
<1>4. QED
  BY <1>2, <1>3 DEF BanInv, Covered

LEMMA AdminInitKeeps == AdminInit => BanInv
<1>. SUFFICES ASSUME AdminInit PROVE BanInv
  OBVIOUS
<1>1. Fresh \in Posts
  BY DEF Fresh, Posts, Stages, Kinds
<1>2. AdminTypeOK
  BY <1>1, AdminAssumption DEF AdminInit, AdminTypeOK, Posts, Tags, LinkStates
<1>3. Staged
  BY DEF AdminInit, Staged, StageFits, Fresh
<1>4. BansStand /\ Covered /\ Sourced /\ Cleared
  BY DEF AdminInit, BansStand, Covered, Sourced, Cleared, Passed
<1>5. QED
  BY <1>2, <1>3, <1>4 DEF BanInv

\* One request goes on, and what it does to the member is at most to disable some
\* of their records or to stamp them.
LEMMA OneGoesOn ==
  ASSUME BanInv, NEW q \in Requests, NEW post \in Posts,
         request' = [request EXCEPT ![q] = post],
         records' \subseteq records, stamped' \subseteq Ids, failures' \in 0..MaxFailures,
         UNCHANGED <<tag, born, source, link, pending, standing, allowed, passed>>,
         StageFits(post), post.kind = request[q].kind \/ q \notin standing,
         post.at \in {"scope", "mint"} =>
           request[q].at \in {"scope", "mint"} \/ tag # "banned",
         q \in standing => LeavesNone(post)'
  PROVE  BanInv'
<1>1. AdminTypeOK'
  BY DEF BanInv, AdminTypeOK, Posts
<1>2. request'[q] = post /\ \A o \in Requests \ {q} : request'[o] = request[o]
  BY DEF BanInv, AdminTypeOK
<1>3. standing \subseteq Requests
  BY DEF BanInv, AdminTypeOK
<1>4. Staged'
  BY <1>2 DEF BanInv, Staged, StageFits
<1>5. BansStand'
  BY <1>2, <1>3 DEF BanInv, BansStand
<1>6. Covered'
  BY <1>2 DEF BanInv, Staged, StageFits, Covered, Passed
<1>7. Sourced'
  BY DEF BanInv, Sourced
<1>8. Cleared'
  <2>. SUFFICES ASSUME NEW o \in standing' PROVE LeavesNone(request[o])'
    BY DEF Cleared
  <2>1. CASE o = q
    BY <1>2, <2>1 DEF LeavesNone
  <2>2. CASE o # q
    BY <1>2, <1>3, <2>2 DEF BanInv, Cleared, LeavesNone
  <2>3. QED
    BY <2>1, <2>2
<1>9. QED
  BY <1>1, <1>4, <1>5, <1>6, <1>7, <1>8 DEF BanInv

\* The same for a request that ends without a result.
LEMMA OneEnds ==
  ASSUME BanInv, NEW q \in Requests, NEW post \in Posts,
         request' = [request EXCEPT ![q] = post],
         post.at \in {"refused", "failed"}, post.kind = request[q].kind,
         post.kind = "ban" => post.at = "failed",
         records' \subseteq records, stamped' \subseteq Ids, failures' \in 0..MaxFailures,
         UNCHANGED <<tag, born, source, link, pending, standing, allowed, passed>>
  PROVE  BanInv'
<1>1. StageFits(post) /\ LeavesNone(post)'
  BY DEF StageFits, BanStages, LeavesNone
<1>2. QED
  BY <1>1, OneGoesOn

\* Goes, GoesOn and Cuts write fields of one post alone.
LEMMA PostsTyped == ASSUME BanInv, NEW q \in Requests PROVE request[q] \in Posts
  BY DEF BanInv, AdminTypeOK, Posts

LEMMA GoesWrites ==
  ASSUME BanInv, NEW q \in Requests, NEW stage \in Stages, Goes(q, stage)
  PROVE  \E post \in Posts :
           /\ request' = [request EXCEPT ![q] = post]
           /\ post.at = stage /\ post.kind = request[q].kind /\ post.todo = request[q].todo
<1>. DEFINE post == [request[q] EXCEPT !.at = stage]
<1>1. /\ post \in Posts
      /\ post.at = stage /\ post.kind = request[q].kind /\ post.todo = request[q].todo
  BY PostsTyped DEF Posts
<1>2. request' = [request EXCEPT ![q] = post]
  BY PostsTyped DEF Goes, Posts
<1>. HIDE DEF post
<1>3. QED
  BY <1>1, <1>2

LEMMA GoesOnWrites ==
  ASSUME BanInv, NEW q \in Requests, NEW stage \in Stages, NEW todo \in SUBSET Ids,
         GoesOn(q, stage, todo)
  PROVE  \E post \in Posts :
           /\ request' = [request EXCEPT ![q] = post]
           /\ post.at = stage /\ post.kind = request[q].kind /\ post.todo = todo
<1>. DEFINE post == [request[q] EXCEPT !.at = stage, !.todo = todo]
<1>1. /\ post \in Posts
      /\ post.at = stage /\ post.kind = request[q].kind /\ post.todo = todo
  BY PostsTyped DEF Posts
<1>2. request' = [request EXCEPT ![q] = post]
  BY PostsTyped DEF GoesOn, Posts
<1>. HIDE DEF post
<1>3. QED
  BY <1>1, <1>2

LEMMA CutsWrites ==
  ASSUME BanInv, NEW q \in Requests, NEW stage \in Stages, NEW r, Cuts(q, r, stage)
  PROVE  \E post \in Posts :
           /\ request' = [request EXCEPT ![q] = post]
           /\ post.at = stage /\ post.kind = request[q].kind
           /\ post.todo = request[q].todo \ {r}
<1>. DEFINE post == [request[q] EXCEPT !.at = stage, !.todo = request[q].todo \ {r}]
<1>1. /\ post \in Posts
      /\ post.at = stage /\ post.kind = request[q].kind
      /\ post.todo = request[q].todo \ {r}
  BY PostsTyped DEF Posts
<1>2. request' = [request EXCEPT ![q] = post]
  BY PostsTyped DEF Cuts, Posts
<1>. HIDE DEF post
<1>3. QED
  BY <1>1, <1>2

\* The list is read: a ban works from every record there is.
LEMMA ListReadKeeps ==
  ASSUME BanInv, NEW q \in Requests, NEW kind \in Kinds, NEW ids \in SUBSET Ids, NEW stage \in Stages,
         ListRead(q, kind, ids, stage),
         kind = "ban" => ids = records /\ stage = IF records = {} THEN "billing" ELSE "disable",
         kind = "expiry" => stage \notin {"scope", "mint"},
         kind = "reissue" /\ stage \in {"scope", "mint"} => tag # "banned"
  PROVE  BanInv'
<1>1. request[q] \in Posts /\ request[q].kind = kind
  BY DEF BanInv, AdminTypeOK, Posts, ListRead
<1>2. PICK post \in Posts : post = [request[q] EXCEPT !.at = stage, !.held = ids, !.todo = ids]
  BY <1>1 DEF Posts
<1>3. request' = [request EXCEPT ![q] = post]
  BY <1>1, <1>2 DEF ListRead, BanInv, AdminTypeOK
<1>4. /\ UNCHANGED <<tag, records, born, stamped, source, link, pending, failures>>
      /\ UNCHANGED <<standing, allowed, passed>>
  BY DEF ListRead, wizarrVars, banVars
<1>5. post.at = stage /\ post.kind = kind /\ post.todo = ids
  BY <1>1, <1>2 DEF Posts
<1>6. StageFits(post)
  BY <1>5 DEF StageFits, BanStages, Kinds
<1>7. q \in standing => LeavesNone(post)'
  BY <1>1, <1>4, <1>5 DEF BanInv, BansStand, LeavesNone
<1>8. stamped' \subseteq Ids /\ failures' \in 0..MaxFailures
  BY <1>4 DEF BanInv, AdminTypeOK
<1>9. QED
  BY <1>1, <1>3, <1>4, <1>5, <1>6, <1>7, <1>8, OneGoesOn DEF Kinds

LEMMA ReadsKeep ==
  ASSUME BanInv, NEW q \in Requests, BanReads(q) \/ ExpiryReads(q) \/ ReissueReads(q)
  PROVE  BanInv'
<1>1. records \in SUBSET Ids /\ records \intersect Asked \in SUBSET Ids
  BY DEF BanInv, AdminTypeOK
<1>2. Kinds = {"ban", "expiry", "reissue"}
  BY DEF Kinds
<1>3. CASE BanReads(q)
  <2>1. "billing" \in Stages /\ "disable" \in Stages
    BY DEF Stages
  <2>2. QED
    BY <1>1, <1>2, <1>3, <2>1, ListReadKeeps DEF BanReads
<1>4. CASE ExpiryReads(q)
  <2>1. PICK body \in DOMAIN expiryFor :
          ListRead(q, "expiry", records \intersect Asked,
                   IF records \intersect Asked = {} THEN "refused" ELSE expiryFor[body])
    BY <1>4 DEF ExpiryReads
  <2>2. expiryFor[body] \in {"stamp", "refused", "failed"}
    BY DEF expiryFor
  <2>. DEFINE stage == IF records \intersect Asked = {} THEN "refused" ELSE expiryFor[body]
  <2>3. stage \in Stages /\ stage \notin {"scope", "mint"}
    BY <2>2 DEF Stages
  <2>. HIDE DEF stage
  <2>4. ListRead(q, "expiry", records \intersect Asked, stage)
    BY <2>1 DEF stage
  <2>5. QED
    BY <1>1, <1>2, <2>3, <2>4, ListReadKeeps
<1>5. CASE ReissueReads(q)
  <2>1. "refused" \in Stages /\ "scope" \in Stages
    BY DEF Stages
  <2>2. QED
    BY <1>1, <1>2, <1>5, <2>1, ListReadKeeps DEF ReissueReads
<1>6. QED
  BY <1>3, <1>4, <1>5

\* A record disabled is one the request had to do, and is gone from both.
LEMMA DisableKeeps ==
  ASSUME BanInv, NEW q \in Requests, NEW from, NEW then,
         <<from, then>> \in {<<"disable", "billing">>, <<"rescope", "mail">>},
         Disable(q, from, then)
  PROVE  BanInv'
<1>1. PICK r \in request[q].todo :
        /\ At(q, from)
        /\ records' = records \ {r}
        /\ Cuts(q, r, IF request[q].todo = {r} THEN then ELSE from)
        /\ UNCHANGED <<tag, born, source, stamped, link, pending, failures, banVars>>
  BY DEF Disable
<1>2. PICK stage : stage = IF request[q].todo = {r} THEN then ELSE from
  OBVIOUS
<1>3. stage \in Stages \ {"scope", "mint"} /\ Cuts(q, r, stage)
  BY <1>1, <1>2 DEF Stages
<1>4. PICK post \in Posts :
        /\ request' = [request EXCEPT ![q] = post]
        /\ post.at = stage /\ post.kind = request[q].kind
        /\ post.todo = request[q].todo \ {r}
  BY <1>3, CutsWrites
<1>5. StageFits(request[q])
  BY DEF BanInv, Staged
<1>6. from = "disable" \/ request[q].kind # "ban"
  BY <1>1, <1>5 DEF StageFits, BanStages, At
<1>7. StageFits(post)
  BY <1>2, <1>3, <1>4, <1>6 DEF StageFits, BanStages
<1>8. ASSUME q \in standing PROVE LeavesNone(post)'
  <2>1. LeavesNone(request[q]) /\ from = "disable" /\ then = "billing" /\ request[q].at = "disable"
    BY <1>1, <1>6, <1>8 DEF BanInv, Cleared, BansStand, At
  <2>2. QED
    BY <1>1, <1>2, <1>4, <2>1 DEF LeavesNone
<1>9. /\ stamped' \subseteq Ids /\ failures' \in 0..MaxFailures
      /\ UNCHANGED <<standing, allowed, passed>>
  BY <1>1 DEF BanInv, AdminTypeOK, banVars
<1>10. QED
  BY <1>1, <1>3, <1>4, <1>7, <1>8, <1>9, OneGoesOn

\* The requests that go on without disabling anything.
LEMMA GoesOnKeeps ==
  ASSUME BanInv, NEW q \in Requests, BanBills(q) \/ ExpiryStamps(q) \/ ReissueScopes(q)
  PROVE  BanInv'
<1>1. StageFits(request[q]) /\ records \subseteq Ids /\ stamped \subseteq Ids
      /\ failures \in 0..MaxFailures
  BY DEF BanInv, Staged, AdminTypeOK
<1>2. CASE BanBills(q)
  <2>1. /\ At(q, "billing") /\ Goes(q, "done")
        /\ UNCHANGED <<tag, records, born, source, stamped, link, pending, failures>>
        /\ UNCHANGED <<standing, allowed, passed>>
    BY <1>2 DEF BanBills, wizarrVars, banVars
  <2>2. PICK post \in Posts :
          /\ request' = [request EXCEPT ![q] = post]
          /\ post.at = "done" /\ post.kind = request[q].kind /\ post.todo = request[q].todo
    BY <2>1, GoesWrites DEF Stages
  <2>3. StageFits(post)
    BY <2>2 DEF StageFits, BanStages
  <2>4. ASSUME q \in standing PROVE LeavesNone(post)'
    BY <2>1, <2>2, <2>4 DEF BanInv, Cleared, LeavesNone, At
  <2>5. QED
    BY <1>1, <2>1, <2>2, <2>3, <2>4, OneGoesOn
<1>3. CASE ExpiryStamps(q)
  <2>1. /\ At(q, "stamp")
        /\ UNCHANGED <<tag, records, born, source, link, pending, failures>>
        /\ UNCHANGED <<standing, allowed, passed>>
    BY <1>3 DEF ExpiryStamps, banVars
  <2>2. PICK r \in request[q].todo :
          /\ r \in records
          /\ stamped' = stamped \union {r}
          /\ LET left == request[q].todo \ {r}
             IN GoesOn(q, IF left = {} THEN "done" ELSE "stamp", left)
    BY <1>3 DEF ExpiryStamps
  <2>3. PICK left, stage : left = request[q].todo \ {r} /\ stage = IF left = {} THEN "done" ELSE "stamp"
    OBVIOUS
  <2>4. left \in SUBSET Ids /\ stage \in {"done", "stamp"} /\ stage \in Stages
    BY <2>3, PostsTyped DEF Posts, Stages
  <2>5. GoesOn(q, stage, left)
    BY <2>2, <2>3
  <2>6. PICK post \in Posts :
          /\ request' = [request EXCEPT ![q] = post]
          /\ post.at = stage /\ post.kind = request[q].kind /\ post.todo = left
    BY <2>4, <2>5, GoesOnWrites
  <2>7. request[q].kind # "ban"
    BY <1>1, <2>1 DEF StageFits, BanStages, At
  <2>8. StageFits(post) /\ q \notin standing
    BY <2>4, <2>6, <2>7 DEF StageFits, BanInv, BansStand
  <2>9. stamped' \subseteq Ids
    BY <1>1, <2>2
  <2>10. QED
    BY <1>1, <2>1, <2>4, <2>6, <2>8, <2>9, OneGoesOn
<1>4. CASE ReissueScopes(q)
  <2>1. /\ At(q, "scope")
        /\ UNCHANGED <<tag, records, born, source, stamped, link, pending, failures>>
        /\ UNCHANGED <<standing, allowed, passed>>
    BY <1>4 DEF ReissueScopes, wizarrVars, banVars
  <2>2. PICK stage \in {"mint", "failed"} : Goes(q, stage)
    BY <1>4 DEF ReissueScopes
  <2>3. stage \in Stages
    BY DEF Stages
  <2>4. PICK post \in Posts :
          /\ request' = [request EXCEPT ![q] = post]
          /\ post.at = stage /\ post.kind = request[q].kind /\ post.todo = request[q].todo
    BY <2>2, <2>3, GoesWrites
  <2>5. request[q].kind = "reissue" /\ request[q].at = "scope"
    BY <1>1, <2>1 DEF StageFits, At
  <2>6. StageFits(post) /\ q \notin standing
    BY <2>4, <2>5 DEF StageFits, BanInv, BansStand
  <2>7. QED
    BY <1>1, <2>1, <2>4, <2>5, <2>6, OneGoesOn
<1>5. QED
  BY <1>2, <1>3, <1>4

\* A link minted while the tag says banned is minted by one of those passed.
LEMMA MintsKeep ==
  ASSUME BanInv, NEW q \in Requests, At(q, "mint"), NEW l \in LinkIds, Mints(l, q),
         NEW post \in Posts, request' = [request EXCEPT ![q] = post],
         post.kind = request[q].kind, post.at \in {"mail", "rescope", "failed"},
         pending' \in LinkIds \union {Unlinked}, failures' \in 0..MaxFailures,
         UNCHANGED <<tag, records, born, source, stamped, standing>>
  PROVE  BanInv'
<1>1. /\ link[l] = "none" /\ link' = [link EXCEPT ![l] = "minted"]
      /\ allowed' = IF q \in passed THEN allowed \union {l} ELSE allowed
      /\ passed' = passed \ {q}
  BY DEF Mints
<1>2. AdminTypeOK'
  BY <1>1 DEF BanInv, AdminTypeOK, Posts, LinkStates
<1>3. request'[q] = post /\ \A o \in Requests \ {q} : request'[o] = request[o]
  BY DEF BanInv, AdminTypeOK
<1>4. request[q].kind = "reissue" /\ q \notin standing /\ standing \subseteq Requests
  BY DEF BanInv, Staged, StageFits, At, BansStand, AdminTypeOK
<1>5. Staged' /\ BansStand'
  BY <1>3, <1>4 DEF BanInv, Staged, StageFits, BansStand
<1>6. \A k \in LinkIds : link'[k] # "none" <=> (k = l \/ link[k] # "none")
  BY <1>1 DEF BanInv, AdminTypeOK
<1>7. Covered'
  <2>. SUFFICES ASSUME tag = "banned"
                PROVE  /\ \A k \in LinkIds : link'[k] # "none" => k \in allowed'
                       /\ \A o \in Requests : Passed(o)' => o \in passed'
    BY DEF Covered
  <2>1. q \in passed
    BY <1>4 DEF BanInv, Covered, Passed, At
  <2>2. \A k \in LinkIds : link'[k] # "none" => k \in allowed'
    BY <1>1, <1>6, <2>1 DEF BanInv, Covered
  <2>3. ~Passed(q)'
    BY <1>3 DEF Passed
  <2>4. \A o \in Requests \ {q} : Passed(o)' => o \in passed'
    BY <1>1, <1>3 DEF BanInv, Covered, Passed
  <2>5. QED
    BY <2>2, <2>3, <2>4
<1>8. Sourced'
  <2>. SUFFICES ASSUME NEW r \in Ids, source[r] # Unlinked PROVE link'[source[r]] # "none"
    BY DEF Sourced
  <2>1. source[r] \in LinkIds /\ link[source[r]] # "none"
    BY DEF BanInv, AdminTypeOK, Sourced
  <2>2. QED
    BY <1>6, <2>1
<1>9. Cleared'
  BY <1>3, <1>4 DEF BanInv, Cleared, LeavesNone
<1>10. QED
  BY <1>2, <1>5, <1>7, <1>8, <1>9 DEF BanInv

LEMMA ReissueMintsKeeps == ASSUME BanInv, NEW q \in Requests, ReissueMints(q) PROVE BanInv'
<1>1. At(q, "mint") /\ UNCHANGED <<tag, wizarrVars, failures, standing>>
  BY Zenon DEF ReissueMints
<1>2. PICK l \in LinkIds :
        /\ Mints(l, q)
        /\ pending' = l
        /\ LET stale == staleRecordIds(request[q].held) IN
           request' = [request EXCEPT ![q].at = IF stale = {} THEN "mail" ELSE "rescope",
                                      ![q].todo = stale, ![q].link = l]
  BY Zenon DEF ReissueMints
<1>3. PICK stale, stage : /\ stale = staleRecordIds(request[q].held)
                          /\ stage = IF stale = {} THEN "mail" ELSE "rescope"
  OBVIOUS
<1>4. stale \in SUBSET Ids /\ stage \in {"mail", "rescope"} /\ stage \in Stages
  BY <1>3, PostsTyped DEF staleRecordIds, Posts, Stages
<1>5. PICK post \in Posts : post = [request[q] EXCEPT !.at = stage, !.todo = stale, !.link = l]
  BY <1>4, PostsTyped DEF Posts
<1>6. post.at = stage /\ post.kind = request[q].kind
  BY <1>4, <1>5, PostsTyped DEF Posts
<1>7. request' = [request EXCEPT ![q].at = stage, ![q].todo = stale, ![q].link = l]
  BY <1>2, <1>3, Zenon
<1>8. request' = [request EXCEPT ![q] = post]
  BY <1>5, <1>7, PostsTyped DEF Posts
<1>9. Mints(l, q) /\ pending' = l
  BY <1>2, Zenon
<1>10. /\ failures' \in 0..MaxFailures /\ pending' \in LinkIds \union {Unlinked}
       /\ UNCHANGED <<tag, records, born, source, stamped, standing>>
  BY <1>1, <1>9 DEF BanInv, AdminTypeOK, wizarrVars
<1>11. QED
  BY <1>1, <1>4, <1>6, <1>8, <1>9, <1>10, MintsKeep

\* A call that fails, or that has nothing to write to any more.
LEMMA FailsKeeps ==
  ASSUME BanInv, NEW q \in Requests, WritesGone(q) \/ CallFails(q)
  PROVE  BanInv'
<1>1. "failed" \in Stages
  BY DEF Stages
<1>2. CASE WritesGone(q)
  <2>1. /\ Goes(q, "failed") /\ UNCHANGED <<standing, allowed, passed>>
        /\ UNCHANGED <<tag, records, born, source, stamped, link, pending, failures>>
    BY <1>2 DEF WritesGone, wizarrVars, banVars
  <2>2. stamped' \subseteq Ids /\ failures' \in 0..MaxFailures
    BY <2>1 DEF BanInv, AdminTypeOK
  <2>3. PICK post \in Posts :
          /\ request' = [request EXCEPT ![q] = post]
          /\ post.at = "failed" /\ post.kind = request[q].kind
    BY <1>1, <2>1, GoesWrites
  <2>4. QED
    BY <2>1, <2>2, <2>3, OneEnds
<1>3. CASE CallFails(q)
  <2>1. /\ failures' \in 0..MaxFailures
        /\ UNCHANGED <<tag, born, source, pending, standing>>
        /\ stamped \subseteq Ids /\ records \subseteq Ids
    BY <1>3, AdminAssumption DEF CallFails, BanInv, AdminTypeOK
  <2>2. CASE UNCHANGED <<records, stamped, link, allowed, passed>> /\ Goes(q, "failed")
    <3>1. PICK post \in Posts :
            /\ request' = [request EXCEPT ![q] = post]
            /\ post.at = "failed" /\ post.kind = request[q].kind
      BY <1>1, <2>2, GoesWrites
    <3>2. QED
      BY <2>1, <2>2, <3>1, OneEnds
  <2>3. CASE /\ \E r \in request[q].todo : records' = records \ {r} /\ Cuts(q, r, "failed")
             /\ UNCHANGED <<stamped, link, allowed, passed>>
    <3>1. PICK r : records' = records \ {r} /\ Cuts(q, r, "failed")
      BY <2>3
    <3>2. PICK post \in Posts :
            /\ request' = [request EXCEPT ![q] = post]
            /\ post.at = "failed" /\ post.kind = request[q].kind
      BY <1>1, <3>1, CutsWrites
    <3>3. QED
      BY <2>1, <2>3, <3>1, <3>2, OneEnds
  <2>4. CASE /\ \E r \in request[q].todo \intersect records : stamped' = stamped \union {r}
             /\ Goes(q, "failed")
             /\ UNCHANGED <<records, link, allowed, passed>>
    <3>1. stamped' \subseteq Ids
      BY <2>1, <2>4
    <3>2. PICK post \in Posts :
            /\ request' = [request EXCEPT ![q] = post]
            /\ post.at = "failed" /\ post.kind = request[q].kind
      BY <1>1, <2>4, GoesWrites
    <3>3. QED
      BY <2>1, <2>4, <3>1, <3>2, OneEnds
  <2>5. CASE /\ At(q, "mint")
             /\ \E l \in LinkIds : Mints(l, q)
             /\ Goes(q, "failed")
             /\ UNCHANGED <<records, stamped>>
    <3>1. PICK post \in Posts :
            /\ request' = [request EXCEPT ![q] = post]
            /\ post.at = "failed" /\ post.kind = request[q].kind
      BY <1>1, <2>5, GoesWrites
    <3>2. pending' \in LinkIds \union {Unlinked}
      BY <2>1 DEF BanInv, AdminTypeOK
    <3>3. QED
      BY <2>1, <2>5, <3>1, <3>2, MintsKeep
  <2>6. QED
    BY <1>3, <2>2, <2>3, <2>4, <2>5 DEF CallFails
<1>4. QED
  BY <1>2, <1>3

\* The tag is written, by a ban that then starts or by itself. When it comes to
\* say banned, what there is by then is what is allowed.
LEMMA TaggedKeeps ==
  ASSUME BanInv, NEW new \in Tags, NEW by \in SUBSET Requests, Tagged(new, by),
         UNCHANGED <<wizarrVars, link, pending, failures>>,
         request' \in [Requests -> Posts],
         \A o \in Requests :
           \/ o \notin by /\ request'[o] = request[o]
           \/ request'[o].at = "read" /\ request'[o].kind = "ban"
  PROVE  BanInv'
<1>1. /\ tag' = new
      /\ standing' = IF new = "banned" THEN standing \union by ELSE {}
      /\ UNCHANGED <<records, born, source, stamped, link, pending, failures>>
  BY DEF Tagged, wizarrVars
<1>2. /\ new = "banned" /\ tag # "banned" =>
           /\ allowed' = {l \in LinkIds : link[l] # "none"}
           /\ passed' = {o \in Requests : Passed(o)}
      /\ ~(new = "banned" /\ tag # "banned") => UNCHANGED <<allowed, passed>>
  BY DEF Tagged
<1>3. /\ standing \subseteq Requests /\ passed \subseteq Requests /\ allowed \subseteq LinkIds
      /\ standing # {} => tag = "banned"
  BY DEF BanInv, AdminTypeOK, BansStand
<1>4. AdminTypeOK'
  <2>1. standing' \subseteq Requests
    BY <1>1, <1>3
  <2>2. allowed' \subseteq LinkIds /\ passed' \subseteq Requests
    BY <1>2, <1>3
  <2>3. QED
    BY <1>1, <2>1, <2>2 DEF BanInv, AdminTypeOK, Posts
<1>5. Staged'
  BY DEF BanInv, Staged, StageFits, BanStages
<1>6. BansStand'
  <2>1. standing' # {} => tag' = "banned"
    BY <1>1
  <2>2. ASSUME NEW o \in standing' PROVE request'[o].kind = "ban"
    BY <1>1, <1>3, <2>2 DEF BanInv, BansStand
  <2>3. QED
    BY <2>1, <2>2 DEF BansStand
<1>7. Covered'
  <2>. SUFFICES ASSUME new = "banned"
                PROVE  /\ \A l \in LinkIds : link[l] # "none" => l \in allowed'
                       /\ \A o \in Requests : Passed(o)' => o \in passed'
    BY <1>1 DEF Covered
  <2>1. \A o \in Requests : Passed(o)' => Passed(o)
    BY DEF Passed
  <2>2. CASE tag # "banned"
    BY <1>2, <2>1, <2>2
  <2>3. CASE tag = "banned"
    BY <1>2, <2>1, <2>3 DEF BanInv, Covered
  <2>4. QED
    BY <2>2, <2>3
<1>8. Sourced'
  BY <1>1 DEF BanInv, Sourced
<1>9. Cleared'
  <2>. SUFFICES ASSUME NEW o \in standing' PROVE LeavesNone(request[o])'
    BY DEF Cleared
  <2>1. o \in Requests /\ (o \in standing \/ o \in by)
    BY <1>1, <1>3
  <2>2. CASE request'[o].at = "read"
    BY <2>2 DEF LeavesNone
  <2>3. CASE o \notin by /\ request'[o] = request[o]
    BY <1>1, <2>1, <2>3 DEF BanInv, Cleared, LeavesNone
  <2>4. QED
    BY <2>1, <2>2, <2>3
<1>10. QED
  BY <1>4, <1>5, <1>6, <1>7, <1>8, <1>9 DEF BanInv

LEMMA tagMemberKeeps == ASSUME BanInv, NEW new \in Tags, tagMember(new) PROVE BanInv'
<1>1. request' = request /\ request \in [Requests -> Posts]
  BY DEF tagMember, BanInv, AdminTypeOK, Posts
<1>2. Tagged(new, {}) /\ UNCHANGED <<wizarrVars, link, pending, failures>>
  BY DEF tagMember
<1>3. QED
  BY <1>1, <1>2, TaggedKeeps

\* A request begins: a ban with the tag, the others with nothing yet.
LEMMA PostedWrites ==
  ASSUME BanInv, NEW q \in Requests, NEW kind \in Kinds, Posted(q, kind)
  PROVE  /\ q \notin standing
         /\ request' \in [Requests -> Posts]
         /\ \E post \in Posts : /\ request' = [request EXCEPT ![q] = post]
                                /\ post.at = "read" /\ post.kind = kind
<1>1. PICK post : post = [Fresh EXCEPT !.at = "read", !.kind = kind]
  OBVIOUS
<1>2. post \in Posts /\ post.at = "read" /\ post.kind = kind
  BY <1>1 DEF Fresh, Posts, Stages
<1>3. At(q, "new") /\ request' = [request EXCEPT ![q] = post]
  BY <1>1 DEF Posted
<1>4. q \notin standing
  BY <1>3 DEF BanInv, Staged, StageFits, BanStages, BansStand, At
<1>5. request' \in [Requests -> Posts]
  BY <1>2, <1>3 DEF BanInv, AdminTypeOK, Posts
<1>6. QED
  BY <1>2, <1>3, <1>4, <1>5

LEMMA StartsKeep ==
  ASSUME BanInv, NEW q \in Requests, BanStarts(q) \/ ExpiryStarts(q) \/ ReissueStarts(q)
  PROVE  BanInv'
<1>1. CASE BanStarts(q)
  <2>1. Posted(q, "ban") /\ Tagged("banned", {q}) /\ "ban" \in Kinds /\ "banned" \in Tags
    BY <1>1 DEF BanStarts, Kinds, Tags
  <2>2. PICK post \in Posts : /\ request' = [request EXCEPT ![q] = post]
                              /\ post.at = "read" /\ post.kind = "ban"
    BY <2>1, PostedWrites
  <2>3. request' \in [Requests -> Posts]
    BY <2>1, PostedWrites
  <2>4. request'[q] = post /\ \A o \in Requests \ {q} : request'[o] = request[o]
    BY <2>2 DEF BanInv, AdminTypeOK
  <2>5. UNCHANGED <<wizarrVars, link, pending, failures>>
    BY <2>1 DEF Posted
  <2>6. QED
    BY <2>1, <2>2, <2>3, <2>4, <2>5, TaggedKeeps
<1>2. CASE ExpiryStarts(q) \/ ReissueStarts(q)
  <2>1. PICK kind \in {"expiry", "reissue"} : Posted(q, kind) /\ UNCHANGED <<tag, banVars>>
    BY <1>2 DEF ExpiryStarts, ReissueStarts
  <2>2. kind \in Kinds
    BY DEF Kinds
  <2>3. PICK post \in Posts : /\ request' = [request EXCEPT ![q] = post]
                              /\ post.at = "read" /\ post.kind = kind
    BY <2>1, <2>2, PostedWrites
  <2>4. q \notin standing
    BY <2>1, <2>2, PostedWrites
  <2>5. /\ UNCHANGED <<tag, records, born, source, stamped, link, pending, failures>>
        /\ UNCHANGED <<standing, allowed, passed>>
    BY <2>1 DEF Posted, wizarrVars, banVars
  <2>6. StageFits(post)
    BY <2>3 DEF StageFits
  <2>7. stamped' \subseteq Ids /\ failures' \in 0..MaxFailures
    BY <2>5 DEF BanInv, AdminTypeOK
  <2>8. QED
    BY <2>3, <2>4, <2>5, <2>6, <2>7, OneGoesOn
<1>3. QED
  BY <1>1, <1>2

\* A link's later states are of one that was minted.
LEMMA LinkMoves ==
  ASSUME BanInv, NEW l, NEW to \in LinkStates \ {"none"},
         l \in LinkIds => link[l] # "none",
         link' = [link EXCEPT ![l] = to]
  PROVE  /\ link' \in [LinkIds -> LinkStates]
         /\ \A k \in LinkIds : link'[k] # "none" <=> link[k] # "none"
  BY DEF BanInv, AdminTypeOK

LEMMA ReissueMailsKeeps == ASSUME BanInv, NEW q \in Requests, ReissueMails(q) PROVE BanInv'
<1>1. /\ At(q, "mail") /\ Goes(q, "done")
      /\ UNCHANGED <<tag, records, born, source, stamped, pending, failures>>
      /\ UNCHANGED <<standing, allowed, passed>>
  BY DEF ReissueMails, wizarrVars, banVars
<1>2. /\ link' \in [LinkIds -> LinkStates]
      /\ \A k \in LinkIds : link'[k] # "none" <=> link[k] # "none"
  BY DEF ReissueMails, BanInv, AdminTypeOK, LinkStates
<1>3. PICK post \in Posts :
        /\ request' = [request EXCEPT ![q] = post]
        /\ post.at = "done" /\ post.kind = request[q].kind
  BY <1>1, GoesWrites DEF Stages
<1>4. request[q].kind # "ban" /\ q \notin standing /\ standing \subseteq Requests
  BY <1>1 DEF BanInv, Staged, StageFits, BanStages, BansStand, At, AdminTypeOK
<1>5. request'[q] = post /\ \A o \in Requests \ {q} : request'[o] = request[o]
  BY <1>3 DEF BanInv, AdminTypeOK
<1>6. AdminTypeOK'
  BY <1>1, <1>2, <1>3 DEF BanInv, AdminTypeOK, Posts
<1>7. Staged' /\ BansStand'
  BY <1>1, <1>3, <1>4, <1>5 DEF BanInv, Staged, StageFits, BansStand
<1>8. Covered'
  BY <1>1, <1>2, <1>3, <1>5 DEF BanInv, Covered, Passed
<1>9. Sourced'
  BY <1>1, <1>2 DEF BanInv, Sourced, AdminTypeOK
<1>10. Cleared'
  BY <1>1, <1>4, <1>5 DEF BanInv, Cleared, LeavesNone
<1>11. QED
  BY <1>6, <1>7, <1>8, <1>9, <1>10 DEF BanInv

\* What is not a request's doing: the requests and the tag stay as they are.
LEMMA OutsideKeeps ==
  ASSUME BanInv, (\E l \in LinkIds : OpenLink(l)) \/ (\E r \in Ids : Expire(r))
  PROVE  BanInv'
<1>1. /\ UNCHANGED <<tag, stamped, pending, request, failures>>
      /\ UNCHANGED <<standing, allowed, passed>>
  BY DEF OpenLink, Expire, banVars
<1>. DEFINE Grown ==
            /\ link' \in [LinkIds -> LinkStates] /\ born' \subseteq Ids
            /\ source' \in [Ids -> LinkIds \union {Unlinked}] /\ records' \subseteq born'
            /\ \A k \in LinkIds : link'[k] # "none" <=> link[k] # "none"
            /\ \A r \in Ids : source'[r] # Unlinked => link'[source'[r]] # "none"
            /\ \A r \in records' : source'[r] = Unlinked => r \in records /\ source[r] = Unlinked
<1>2. Grown
  <2>1. ASSUME NEW l \in LinkIds, OpenLink(l)
        PROVE  Grown
    <3>1. PICK r \in OnCovered \ born : /\ records' = records \union {r}
                                        /\ born' = born \union {r}
                                        /\ source' = [source EXCEPT ![r] = l]
      BY <2>1 DEF OpenLink
    <3>2. link[l] = "out" /\ link' = [link EXCEPT ![l] = "used"] /\ "used" \in LinkStates \ {"none"}
      BY <2>1 DEF OpenLink, LinkStates
    <3>3. /\ link' \in [LinkIds -> LinkStates]
          /\ \A k \in LinkIds : link'[k] # "none" <=> link[k] # "none"
      BY <3>2, LinkMoves
    <3>4. r \in Ids /\ source'[r] = l /\ l # Unlinked
          /\ \A o \in Ids \ {r} : source'[o] = source[o]
      BY <3>1, AdminAssumption DEF BanInv, AdminTypeOK, LinkIds, Unlinked
    <3>5. /\ born' \subseteq Ids /\ records' \subseteq born'
          /\ source' \in [Ids -> LinkIds \union {Unlinked}]
      BY <3>1, <3>4 DEF BanInv, AdminTypeOK
    <3>6. \A o \in Ids : source'[o] # Unlinked => link'[source'[o]] # "none"
      <4>. SUFFICES ASSUME NEW o \in Ids, source'[o] # Unlinked PROVE link'[source'[o]] # "none"
        OBVIOUS
      <4>1. CASE o = r
        BY <3>2, <3>3, <3>4, <4>1
      <4>2. CASE o # r
        BY <3>3, <3>4, <4>2 DEF BanInv, Sourced, AdminTypeOK
      <4>3. QED
        BY <4>1, <4>2
    <3>7. \A o \in records' : source'[o] = Unlinked => o \in records /\ source[o] = Unlinked
      BY <3>1, <3>4, <3>5
    <3>8. QED
      BY <3>3, <3>5, <3>6, <3>7
  <2>2. ASSUME NEW r \in Ids, Expire(r) PROVE Grown
    <3>1. records' = records \ {r} /\ UNCHANGED <<born, source, link>>
      BY <2>2 DEF Expire
    <3>2. QED
      BY <3>1 DEF BanInv, AdminTypeOK, Sourced
  <2>3. QED
    BY <2>1, <2>2
<1>3. AdminTypeOK'
  BY <1>1, <1>2 DEF BanInv, AdminTypeOK
<1>4. Staged' /\ BansStand'
  BY <1>1 DEF BanInv, Staged, StageFits, BansStand
<1>5. Covered'
  BY <1>1, <1>2 DEF BanInv, Covered, Passed
<1>6. Sourced'
  BY <1>2 DEF Sourced
<1>7. Cleared'
  BY <1>1, <1>2 DEF BanInv, Cleared, LeavesNone
<1>8. QED
  BY <1>3, <1>4, <1>5, <1>6, <1>7 DEF BanInv

LEMMA AdminNextKeeps == BanInv /\ [AdminNext]_adminVars => BanInv'
<1>. SUFFICES ASSUME BanInv, [AdminNext]_adminVars PROVE BanInv'
  OBVIOUS
<1>1. CASE UNCHANGED adminVars
  BY <1>1 DEF adminVars, wizarrVars, banVars, BanInv, AdminTypeOK, Staged, StageFits, BansStand,
              Covered, Passed, Sourced, Cleared, LeavesNone
<1>2. ASSUME NEW new \in Tags, tagMember(new) PROVE BanInv'
  BY <1>2, tagMemberKeeps
<1>3. ASSUME NEW q \in Requests, BanStarts(q) \/ ExpiryStarts(q) \/ ReissueStarts(q) PROVE BanInv'
  BY <1>3, StartsKeep
<1>4. ASSUME NEW q \in Requests, BanReads(q) \/ ExpiryReads(q) \/ ReissueReads(q) PROVE BanInv'
  BY <1>4, ReadsKeep
<1>5. ASSUME NEW q \in Requests, BanDisables(q) \/ ReissueRescopes(q) PROVE BanInv'
  BY <1>5, DisableKeeps DEF BanDisables, ReissueRescopes
<1>6. ASSUME NEW q \in Requests, BanBills(q) \/ ExpiryStamps(q) \/ ReissueScopes(q) PROVE BanInv'
  BY <1>6, GoesOnKeeps
<1>7. ASSUME NEW q \in Requests, ReissueMints(q) \/ ReissueMails(q) PROVE BanInv'
  BY <1>7, ReissueMintsKeeps, ReissueMailsKeeps
<1>8. ASSUME NEW q \in Requests, WritesGone(q) \/ CallFails(q) PROVE BanInv'
  BY <1>8, FailsKeeps
<1>9. ASSUME (\E l \in LinkIds : OpenLink(l)) \/ (\E r \in Ids : Expire(r)) PROVE BanInv'
  BY <1>9, OutsideKeeps
<1>10. QED
  BY <1>1, <1>2, <1>3, <1>4, <1>5, <1>6, <1>7, <1>8, <1>9 DEF AdminNext

\* A ban that was answered holds while its tag stays, for any number of records,
\* links and requests posted side by side, whichever of their calls fail: the tag
\* comes before the list is read, and every record on the list goes (banMember).
THEOREM BanStands == AdminSpec => [](AdminTypeOK /\ BanHolds)
<1>1. BanInv => AdminTypeOK /\ BanHolds
  BY BanInvHolds DEF BanInv
<1>2. QED
  BY <1>1, AdminInitKeeps, AdminNextKeeps, PTL DEF AdminSpec

---------------------------------------------------------------------------
\* What the portal says of libraries, from the two lists the alarms compare.

\* The names of the sections shared on a server, and those a tier grants there.
SharedNames(s, on, given) ==
  IF s \in on THEN {plex[l] : l \in {k \in given : ServerOf[k] = s}} ELSE {}
Granted(tier) == shareableLibraries(tier, listed(cached), cached)
GrantedNames(s, tier) == {cached[l] : l \in {k \in Granted(tier) : ServerOf[k] = s}}

\* What plex.tv says of an account is never taken for its silence.
LEMMA SharingIsRead ==
  ASSUME plex \in Lists, NEW on \in SUBSET Servers, NEW whole \in SUBSET on,
         NEW given \in SUBSET listed(plex)
  PROVE  /\ sharedAccess(on, whole, given, plex) # Unreachable
         /\ DOMAIN sharedAccess(on, whole, given, plex) = on
         /\ \A s \in on :
              sharedAccess(on, whole, given, plex)[s]
                = [all_libraries |-> s \in whole, libraries |-> SharedNames(s, on, given)]
<1>1. \A s \in on : SharedNames(s, on, given) \in SUBSET Names
  BY DEF SharedNames, listed, Lists
<1>2. sharedAccess(on, whole, given, plex)
        = [s \in on |-> [all_libraries |-> s \in whole, libraries |-> SharedNames(s, on, given)]]
  BY DEF sharedAccess, SharedNames
<1>3. sharedAccess(on, whole, given, plex)
        \in [on -> [all_libraries : BOOLEAN, libraries : SUBSET Names]]
  <2>1. \A s \in on : (s \in whole) \in BOOLEAN
    OBVIOUS
  <2>2. \A s \in on : [all_libraries |-> s \in whole, libraries |-> SharedNames(s, on, given)]
                        \in [all_libraries : BOOLEAN, libraries : SUBSET Names]
    BY <1>1, <2>1
  <2>3. QED
    BY <1>2, <2>2
<1>4. QED
  BY <1>2, <1>3, AccessAssumption

\* The page of one server: every name granted or shared there; one not granted
\* reads as not entitled, one granted by whether it is shared.
Reads(names, s, granted, shared, whole) ==
  /\ DOMAIN names = granted \union shared
  /\ \A n \in shared \ granted : names[n] = "not-entitled"
  /\ \A n \in granted : names[n] = IF s \in whole \/ n \in shared THEN "shared" ELSE "not-shared"

LEMMA PageSays ==
  ASSUME plex \in Lists, NEW tier, NEW on \in SUBSET Servers, NEW whole \in SUBSET on,
         NEW given \in SUBSET listed(plex), NEW s \in Servers
  PROVE  Reads(buildServerAccess(tierServerLibraries(tier, cached),
                                 sharedAccess(on, whole, given, plex))[s],
               s, GrantedNames(s, tier), SharedNames(s, on, given), whole)
<1>. DEFINE sharing == sharedAccess(on, whole, given, plex)
            entitled == tierServerLibraries(tier, cached)
            share == shareOn(sharing, s)
<1>1. sharing # Unreachable
  BY SharingIsRead
<1>2. share.all_libraries = (s \in whole) /\ share.libraries = SharedNames(s, on, given)
  <2>1. CASE s \in on
    <3>1. share = [all_libraries |-> s \in whole, libraries |-> SharedNames(s, on, given)]
      BY <2>1, SharingIsRead DEF shareOn
    <3>2. QED
      BY <3>1
  <2>2. CASE s \notin on
    <3>1. share = noShare
      BY <2>2, SharingIsRead DEF shareOn
    <3>2. share.all_libraries = FALSE /\ share.libraries = {}
      BY <3>1 DEF noShare
    <3>3. (s \in whole) = FALSE /\ SharedNames(s, on, given) = {}
      BY <2>2 DEF SharedNames
    <3>4. QED
      BY <3>2, <3>3, Zenon
  <2>3. QED
    BY <2>1, <2>2
<1>3. entitled[s] = GrantedNames(s, tier)
  BY DEF tierServerLibraries, GrantedNames, Granted
<1>. HIDE DEF sharing, entitled
<1>4. buildServerAccess(entitled, sharing)[s]
        = [n \in entitled[s] \union share.libraries |->
             resolveState(n \in entitled[s], share.all_libraries \/ n \in share.libraries)]
  BY <1>1 DEF buildServerAccess
<1>. HIDE DEF share
<1>5. QED
  BY <1>2, <1>3, <1>4 DEF sharing, entitled, resolveState, Reads

LEMMA PageTellsAccess == cached \in Lists /\ plex \in Lists => AccessIsTold
<1>. SUFFICES ASSUME cached \in Lists, plex \in Lists,
                     NEW tier \in Tiers, NEW on \in SUBSET Servers,
                     NEW sections \in SUBSET listed(plex), NEW whole \in SUBSET on
              PROVE  LET granted   == shareableLibraries(tier, listed(cached), cached)
                         given     == {l \in sections : ServerOf[l] \in on}
                         page      == buildServerAccess(tierServerLibraries(tier, cached),
                                                        sharedAccess(on, whole, given, plex))
                         shares(l) == l \in given \/ (l \in listed(plex) /\ ServerOf[l] \in whole)
                     IN \A l \in {k \in Checkable \ staleLibraries(cached, liveSections(plex, Servers)) : ~namesake(k)} :
                          /\ l \in granted => (page[ServerOf[l]][cached[l]] = "shared" <=> shares(l))
                          /\ l \in given \ granted => page[ServerOf[l]][plex[l]] = "not-entitled"
  BY DEF AccessIsTold
<1>. DEFINE given == {l \in sections : ServerOf[l] \in on}
            page == buildServerAccess(tierServerLibraries(tier, cached),
                                      sharedAccess(on, whole, given, plex))
<1>. SUFFICES ASSUME NEW l \in Checkable, l \notin staleLibraries(cached, liveSections(plex, Servers)), ~namesake(l)
              PROVE  /\ l \in Granted(tier) =>
                          (page[ServerOf[l]][cached[l]] = "shared" <=>
                             l \in given \/ (l \in listed(plex) /\ ServerOf[l] \in whole))
                     /\ l \in given \ Granted(tier) => page[ServerOf[l]][plex[l]] = "not-entitled"
  BY DEF Granted
<1>1. given \in SUBSET listed(plex) /\ l \in Libraries
  BY ScopeAssumption
<1>2. \A k \in Libraries \ {l} :
        ServerOf[k] = ServerOf[l] =>
          ({cached[k], plex[k]} \intersect {cached[l], plex[l]}) \subseteq {Gone}
  BY DEF namesake
<1>. DEFINE s == ServerOf[l]
<1>. HIDE DEF given
<1>3. s \in Servers =>
        Reads(page[s], s, GrantedNames(s, tier), SharedNames(s, on, given), whole)
  BY <1>1, PageSays
<1>. HIDE DEF page
<1>. USE DEF given
<1>4. ASSUME l \in Granted(tier)
      PROVE  page[s][cached[l]] = "shared" <=>
               l \in given \/ (l \in listed(plex) /\ s \in whole)
  <2>1. /\ l \in listed(cached) /\ l \in Enabled
        /\ isOnShareServer(l) /\ s \in Servers
    BY <1>1, <1>4 DEF Granted, shareableLibraries, isOnShareServer, Servers
  <2>2. plex[l] = cached[l] /\ cached[l] # Gone /\ l \in listed(plex)
    <3>1. liveSections(plex, Servers) \in LiveSections
      BY DEF liveSections, LiveSections, Lists
    <3>2. liveSections(plex, Servers)[l] = plex[l] /\ plex[l] # Unanswered
      BY <1>1, <2>1, ScopeAssumption DEF liveSections, Lists
    <3>3. QED
      BY <1>1, <2>1, <3>1, <3>2, ScopeAssumption DEF staleLibraries, listed
  <2>3. cached[l] \in GrantedNames(s, tier)
    BY <1>4 DEF GrantedNames
  <2>4. cached[l] \in SharedNames(s, on, given) <=> l \in given
    <3>1. ASSUME NEW k \in given, ServerOf[k] = s, plex[k] = cached[l] PROVE k = l
      BY <1>1, <1>2, <2>2, <3>1 DEF listed
    <3>2. QED
      BY <2>2, <3>1 DEF SharedNames
  <2>5. QED
    BY <1>3, <2>1, <2>2, <2>3, <2>4 DEF Reads
<1>5. ASSUME l \in given, l \notin Granted(tier)
      PROVE  page[s][plex[l]] = "not-entitled"
  <2>1. s \in Servers /\ s \in on /\ plex[l] # Gone
    BY <1>5 DEF listed
  <2>2. plex[l] \in SharedNames(s, on, given)
    BY <1>5, <2>1 DEF SharedNames
  <2>3. plex[l] \notin GrantedNames(s, tier)
    <3>1. ASSUME NEW k \in Granted(tier), ServerOf[k] = s, cached[k] = plex[l] PROVE FALSE
      <4>1. k \in Libraries /\ k # l
        BY <1>5, <3>1 DEF Granted, shareableLibraries, listed
      <4>2. QED
        BY <1>2, <2>1, <3>1, <4>1
    <3>2. QED
      BY <3>1 DEF GrantedNames
  <2>4. QED
    BY <1>3, <2>1, <2>2, <2>3 DEF Reads
<1>6. QED
  BY <1>4, <1>5

LEMMA ListTellsAsPage == plex \in Lists => ListAgreesWithPage
<1>. SUFFICES ASSUME plex \in Lists,
                     NEW tier \in Tiers, NEW on \in SUBSET Servers,
                     NEW sections \in SUBSET listed(plex), NEW s \in on
              PROVE  LET entitled == tierServerLibraries(tier, cached)
                         given    == {l \in sections : ServerOf[l] \in on}
                         sharing  == sharedAccess(on, {}, given, plex)
                         page     == buildServerAccess(entitled, sharing)
                     IN withShare(entitled, sharing)[s]
                          = {n \in DOMAIN page[s] : page[s][n] \in {"shared", "not-entitled"}}
  BY DEF ListAgreesWithPage
<1>. DEFINE given == {l \in sections : ServerOf[l] \in on}
            page == buildServerAccess(tierServerLibraries(tier, cached),
                                      sharedAccess(on, {}, given, plex))
<1>1. given \in SUBSET listed(plex) /\ s \in Servers /\ {} \in SUBSET on
  OBVIOUS
<1>. HIDE DEF given
<1>2. Reads(page[s], s, GrantedNames(s, tier), SharedNames(s, on, given), {})
  BY <1>1, PageSays
<1>3. withShare(tierServerLibraries(tier, cached), sharedAccess(on, {}, given, plex))[s]
        = sharedAccess(on, {}, given, plex)[s].libraries
  <2>1. DOMAIN sharedAccess(on, {}, given, plex) = on
    BY <1>1, SharingIsRead
  <2>2. QED
    BY <1>1, <2>1 DEF withShare
<1>4. withShare(tierServerLibraries(tier, cached), sharedAccess(on, {}, given, plex))[s]
        = SharedNames(s, on, given)
  <2>1. sharedAccess(on, {}, given, plex)[s]
          = [all_libraries |-> s \in {}, libraries |-> SharedNames(s, on, given)]
    BY <1>1, SharingIsRead
  <2>2. QED
    BY <1>3, <2>1
<1>. HIDE DEF page
<1>5. {n \in DOMAIN page[s] : page[s][n] \in {"shared", "not-entitled"}} = SharedNames(s, on, given)
  BY <1>2 DEF Reads
<1>6. QED
  BY <1>4, <1>5 DEF page, given

---------------------------------------------------------------------------
\* The customer map. Which row answers for an address is decided when it is read,
\* so the promise rests on what every row is keyed by: a placeholder by the address
\* it stands for, a customer by itself whatever address it last checked out with.

RowsAreTyped(table) == DOMAIN table \subseteq Rowids /\ table \in [DOMAIN table -> Rows]
IsPlaceholder(row) == row.key.kind = "admin"
\* A placeholder's key is the address on it.
PlaceholdersKeyed(table) ==
  \A i \in DOMAIN table : IsPlaceholder(table[i]) => table[i].key = placeholder(table[i].email)
\* The key is the table's primary key.
OneRowAKey(table) == \A i, j \in DOMAIN table : table[i].key = table[j].key => i = j
\* A placeholder and a customer are never of one address.
Apart(table) ==
  \A i, j \in DOMAIN table :
    IsPlaceholder(table[i]) /\ ~IsPlaceholder(table[j])
      => lower(table[i].email) # lower(table[j].email)

Placed(table) ==
  RowsAreTyped(table) /\ PlaceholdersKeyed(table) /\ OneRowAKey(table) /\ Apart(table)
Mapped == CustomerTypeOK /\ Placed(rows)

\* Columns other than the key and the address disturb nothing.
LEMMA ColumnsAreFree ==
  ASSUME NEW old, NEW new, Placed(old), DOMAIN new = DOMAIN old, new \in [DOMAIN old -> Rows],
         \A i \in DOMAIN old : new[i].key = old[i].key /\ new[i].email = old[i].email
  PROVE  Placed(new)
<1>1. RowsAreTyped(new)
  BY DEF Placed, RowsAreTyped
<1>2. PlaceholdersKeyed(new)
  BY DEF Placed, PlaceholdersKeyed, IsPlaceholder
<1>3. OneRowAKey(new)
  BY DEF Placed, OneRowAKey
<1>4. Apart(new)
  BY DEF Placed, Apart, IsPlaceholder
<1>5. QED
  BY <1>1, <1>2, <1>3, <1>4 DEF Placed

\* A row that may stand beside those of a table.
Fits(row, table) ==
  /\ row \in Rows
  /\ IsPlaceholder(row) => row.key = placeholder(row.email)
  /\ \A i \in DOMAIN table :
       /\ table[i].key # row.key
       /\ ~(IsPlaceholder(table[i]) <=> IsPlaceholder(row))
            => lower(table[i].email) # lower(row.email)

LEMMA InsertedFits ==
  ASSUME NEW kept, NEW row, Placed(kept), Fits(row, kept), Inserts(kept, row)
  PROVE  Placed(rows')
<1>1. PICK id \in Rowids :
        /\ \A i \in DOMAIN kept : i < id
        /\ rows' = [i \in DOMAIN kept \union {id} |-> IF i = id THEN row ELSE kept[i]]
  BY Zenon DEF Inserts
<1>. DEFINE new == [i \in DOMAIN kept \union {id} |-> IF i = id THEN row ELSE kept[i]]
<1>2. id \notin DOMAIN kept
  BY <1>1 DEF Rowids, Placed, RowsAreTyped
<1>3. /\ DOMAIN new = DOMAIN kept \union {id}
      /\ new[id] = row
      /\ \A i \in DOMAIN kept : new[i] = kept[i]
  BY <1>2
<1>4. new = [i \in DOMAIN new |-> new[i]]
  BY Zenon
<1>. HIDE DEF new
<1>5. RowsAreTyped(new)
  BY <1>1, <1>3, <1>4 DEF Placed, RowsAreTyped, Fits
<1>6. PlaceholdersKeyed(new)
  BY <1>3 DEF Placed, PlaceholdersKeyed, Fits
<1>7. OneRowAKey(new)
  BY <1>3 DEF Placed, OneRowAKey, Fits
<1>8. Apart(new)
  BY <1>3 DEF Placed, Apart, Fits
<1>9. rows' = new
  BY <1>1 DEF new
<1>10. QED
  BY <1>5, <1>6, <1>7, <1>8, <1>9 DEF Placed

\* The tables a deletion leaves.
LEMMA WithoutKeeps ==
  ASSUME NEW key, Placed(rows)
  PROVE  /\ Placed(without(key))
         /\ DOMAIN without(key) \subseteq DOMAIN rows
         /\ \A i \in DOMAIN without(key) : without(key)[i] = rows[i] /\ rows[i].key # key
<1>1. /\ DOMAIN without(key) = {j \in DOMAIN rows : rows[j].key # key}
      /\ \A i \in DOMAIN without(key) : without(key)[i] = rows[i] /\ rows[i].key # key
      /\ without(key) = [i \in DOMAIN without(key) |-> without(key)[i]]
  BY DEF without
<1>2. RowsAreTyped(without(key))
  BY <1>1 DEF Placed, RowsAreTyped
<1>3. PlaceholdersKeyed(without(key)) /\ OneRowAKey(without(key)) /\ Apart(without(key))
  BY <1>1 DEF Placed, PlaceholdersKeyed, OneRowAKey, Apart
<1>4. QED
  BY <1>1, <1>2, <1>3 DEF Placed

LEMMA NewRowTyped ==
  ASSUME NEW key \in Keys, NEW email \in Typed
  PROVE  /\ NewRow(key, email) \in Rows
         /\ NewRow(key, email).key = key
         /\ NewRow(key, email).email = email
BY CustomerAssumption DEF NewRow, Rows, TierNames, NoInvite

LEMMA TypedKeys ==
  /\ \A email \in Typed : placeholder(email) \in Keys /\ placeholder(email).kind = "admin"
  /\ \A c \in Payers : cus(c) \in Keys /\ cus(c).kind = "cus"
BY DEF Typed, placeholder, lower, cus, Keys

\* What a checkout writes is its customer's row, at the address it came with.
LEMMA CheckedFits ==
  ASSUME NEW c \in Payers, NEW email \in Typed, NEW row \in Rows,
         issuedCodes \in 0..MaxInvites, issuedCodes < MaxInvites
  PROVE  /\ Checked(c, email, row) \in Rows
         /\ Checked(c, email, row).key = cus(c)
         /\ Checked(c, email, row).email = email
         /\ ~IsPlaceholder(Checked(c, email, row))
<1>1. issuedCodes + 1 \in 0..MaxInvites
  BY CustomerAssumption
<1>. DEFINE put == Checked(c, email, row)
<1>2. /\ put \in Rows
      /\ put.key = cus(c)
      /\ put.email = email
  BY <1>1, TypedKeys DEF Checked, Rows, TierNames
<1>3. QED
  BY <1>2, TypedKeys DEF IsPlaceholder

\* The address has no placeholder left among the rows a checkout is written into.
LEMMA CustomerFits ==
  ASSUME NEW c \in Payers, NEW email \in Typed, NEW kept, Placed(kept),
         \A i \in DOMAIN kept : kept[i].key # placeholder(email),
         issuedCodes \in 0..MaxInvites, issuedCodes < MaxInvites,
         WriteCustomer(c, email, kept)
  PROVE  Placed(rows')
<1>. DEFINE old == {i \in DOMAIN kept : kept[i].key = cus(c)}
<1>1. \A i \in DOMAIN kept : IsPlaceholder(kept[i]) => lower(kept[i].email) # lower(email)
  BY DEF Placed, PlaceholdersKeyed, placeholder
<1>2. CASE old = {}
  <2>1. NewRow(cus(c), email) \in Rows
    BY NewRowTyped, TypedKeys
  <2>. DEFINE row == Checked(c, email, NewRow(cus(c), email))
  <2>2. row \in Rows /\ row.key = cus(c) /\ row.email = email /\ ~IsPlaceholder(row)
    BY <2>1, CheckedFits
  <2>. HIDE DEF row
  <2>4. \A i \in DOMAIN kept : kept[i].key # row.key
    BY <1>2, <2>2
  <2>5. Fits(row, kept)
    BY <1>1, <2>2, <2>4 DEF Fits
  <2>3. Inserts(kept, row)
    BY <1>2 DEF WriteCustomer, row
  <2>6. QED
    BY <2>3, <2>5, InsertedFits
<1>3. CASE old # {}
  <2>. DEFINE new == [i \in DOMAIN kept |-> IF i \in old THEN Checked(c, email, kept[i]) ELSE kept[i]]
  <2>1. rows' = new
    BY <1>3 DEF WriteCustomer
  <2>2. \A i \in DOMAIN kept : kept[i] \in Rows
    BY DEF Placed, RowsAreTyped
  <2>3. \A i \in DOMAIN kept :
          /\ new[i] \in Rows
          /\ new[i].key = kept[i].key
          /\ i \in old => new[i].email = email /\ ~IsPlaceholder(new[i])
          /\ i \notin old => new[i] = kept[i]
    BY <2>2, CheckedFits
  <2>4. DOMAIN new = DOMAIN kept /\ new = [i \in DOMAIN new |-> new[i]]
    OBVIOUS
  <2>. HIDE DEF new
  <2>5. RowsAreTyped(new)
    BY <2>3, <2>4 DEF Placed, RowsAreTyped
  <2>6. PlaceholdersKeyed(new)
    BY <2>3, <2>4 DEF Placed, PlaceholdersKeyed
  <2>7. OneRowAKey(new)
    BY <2>3, <2>4 DEF Placed, OneRowAKey
  <2>8. Apart(new)
    <3>1. \A i \in DOMAIN new : IsPlaceholder(new[i]) => new[i] = kept[i] /\ i \notin old
      BY <2>3, <2>4
    <3>2. QED
      BY <1>1, <2>3, <2>4, <3>1 DEF Placed, Apart
  <2>9. QED
    BY <2>1, <2>5, <2>6, <2>7, <2>8 DEF Placed
<1>4. QED
  BY <1>2, <1>3

\* The placeholder an address with no row gets, with whatever is written on it.
LEMMA FirstRowKeeps ==
  ASSUME NEW email \in Typed, NEW row \in Rows, Placed(rows), rowsFor(email) = {},
         row.key = placeholder(email), row.email = email, Inserts(rows, row)
  PROVE  Placed(rows')
<1>1. \A i \in DOMAIN rows : lower(rows[i].email) # lower(email)
  BY DEF rowsFor
<1>2. placeholder(email).kind = "admin" /\ placeholder(email).of = lower(email)
  BY DEF placeholder
<1>3. \A i \in DOMAIN rows : rows[i].key # row.key
  <2>. SUFFICES ASSUME NEW i \in DOMAIN rows, rows[i].key = row.key PROVE FALSE
    OBVIOUS
  <2>1. rows[i].key = placeholder(rows[i].email)
    BY <1>2 DEF Placed, PlaceholdersKeyed, IsPlaceholder
  <2>2. placeholder(rows[i].email).of = lower(rows[i].email)
    BY DEF placeholder
  <2>3. QED
    BY <1>1, <1>2, <2>1, <2>2
<1>4. Fits(row, rows)
  BY <1>1, <1>3 DEF Fits
<1>5. QED
  BY <1>4, InsertedFits

\* Columns written onto the rows of an address, or onto its first.
LEMMA ColumnsKeep ==
  ASSUME NEW email \in Typed, NEW invite \in 0..MaxInvites, Placed(rows),
         setByEmailOrPlaceholder(email, invite)
  PROVE  Placed(rows')
<1>. DEFINE Put(row) == withColumns(row, invite)
<1>1. \A row \in Rows : Put(row) \in Rows /\ Put(row).key = row.key /\ Put(row).email = row.email
  BY DEF Rows, TierNames, withColumns
<1>2. ASSUME rowsFor(email) = {} PROVE Placed(rows')
  <2>. DEFINE row == Put(NewRow(placeholder(email), email))
  <2>1. Inserts(rows, row)
    BY <1>2 DEF setByEmailOrPlaceholder
  <2>. HIDE DEF Put
  <2>2. row \in Rows /\ row.key = placeholder(email) /\ row.email = email
    BY <1>1, NewRowTyped, TypedKeys
  <2>. HIDE DEF row
  <2>3. QED
    BY <1>2, <2>1, <2>2, FirstRowKeeps
<1>3. ASSUME rowsFor(email) # {} PROVE Placed(rows')
  <2>. DEFINE new == [i \in DOMAIN rows |-> IF i \in rowsFor(email) THEN Put(rows[i]) ELSE rows[i]]
  <2>1. rows' = new
    BY <1>3, Zenon DEF setByEmailOrPlaceholder
  <2>2. \A i \in DOMAIN rows : rows[i] \in Rows
    BY DEF Placed, RowsAreTyped
  <2>. HIDE DEF Put
  <2>3. \A i \in DOMAIN rows :
          new[i] \in Rows /\ new[i].key = rows[i].key /\ new[i].email = rows[i].email
    BY <1>1, <2>2
  <2>4. DOMAIN new = DOMAIN rows /\ new \in [DOMAIN rows -> Rows]
    BY <2>3
  <2>. HIDE DEF new
  <2>5. QED
    BY <2>1, <2>3, <2>4, ColumnsAreFree
<1>4. QED
  BY <1>2, <1>3

LEMMA CustomerInitKeeps == CustomerInit => Mapped
<1>. SUFFICES ASSUME CustomerInit PROVE Mapped
  OBVIOUS
<1>1. DOMAIN rows = {} /\ rows = [i \in DOMAIN rows |-> rows[i]]
  BY DEF CustomerInit
<1>2. CustomerTypeOK
  BY <1>1, CustomerAssumption DEF CustomerInit, CustomerTypeOK
<1>3. Placed(rows)
  BY <1>1 DEF Placed, RowsAreTyped, PlaceholdersKeyed, OneRowAKey, Apart
<1>4. QED
  BY <1>2, <1>3 DEF Mapped

\* One step per operation on the map.
LEMMA CustomerNextKeeps == Mapped /\ [CustomerNext]_customerVars => Mapped'
<1>. SUFFICES ASSUME Mapped, [CustomerNext]_customerVars PROVE Mapped'
  OBVIOUS
<1>. USE DEF Mapped
<1>1. ASSUME NEW email \in Typed, Issues(email)
      PROVE  /\ issuedCodes \in 0..MaxInvites /\ issuedCodes < MaxInvites
             /\ issuedCodes' \in 0..MaxInvites /\ overrides' = overrides
  BY <1>1, CustomerAssumption DEF Issues, CustomerTypeOK
<1>2. ASSUME NEW email \in Typed, NEW c \in Payers, upsertCustomer(c, email)
      PROVE  Mapped'
  <2>1. Placed(rows')
    BY <1>1, <1>2, WithoutKeeps, CustomerFits DEF upsertCustomer
  <2>2. QED
    BY <1>1, <1>2, <2>1 DEF upsertCustomer, CustomerTypeOK, Placed, RowsAreTyped
<1>3. ASSUME NEW email \in Typed, upsertPendingByEmail(email)
      PROVE  Mapped'
  <2>1. issuedCodes + 1 \in 0..MaxInvites
    BY <1>1, <1>3, CustomerAssumption DEF upsertPendingByEmail
  <2>2. Placed(rows')
    BY <1>3, <2>1, ColumnsKeep DEF upsertPendingByEmail
  <2>3. QED
    BY <1>1, <1>3, <2>2 DEF upsertPendingByEmail, CustomerTypeOK, Placed, RowsAreTyped
<1>4. ASSUME NEW email \in Typed, setTier(email)
      PROVE  Mapped'
  <2>1. NoInvite \in 0..MaxInvites
    BY CustomerAssumption DEF NoInvite
  <2>2. Placed(rows')
    BY <1>4, <2>1, ColumnsKeep DEF setTier
  <2>3. QED
    BY <1>4, <2>2 DEF setTier, CustomerTypeOK, Placed, RowsAreTyped
<1>5. ASSUME NEW email \in Typed,
             NEW flags \in [subscribed : BOOLEAN, state : {"none", "past_due"}],
             setFlags(email, flags)
      PROVE  Mapped'
  <2>. DEFINE new == [i \in DOMAIN rows |->
                        IF i \in rowsFor(email)
                        THEN [rows[i] EXCEPT !.subscribed = flags.subscribed, !.state = flags.state]
                        ELSE rows[i]]
  <2>1. \A i \in DOMAIN rows : rows[i] \in Rows
    BY DEF Placed, RowsAreTyped
  <2>2. \A i \in DOMAIN rows :
          new[i] \in Rows /\ new[i].key = rows[i].key /\ new[i].email = rows[i].email
    BY <2>1 DEF Rows
  <2>7. DOMAIN new = DOMAIN rows /\ new = [i \in DOMAIN rows |-> new[i]]
    BY Zenon
  <2>4. rows' = new /\ overrides' = overrides /\ issuedCodes' = issuedCodes
    BY <1>5, Zenon DEF setFlags
  <2>. HIDE DEF new
  <2>3. DOMAIN new = DOMAIN rows /\ new \in [DOMAIN rows -> Rows]
    BY <2>2, <2>7
  <2>5. Placed(rows')
    BY <2>2, <2>3, <2>4, ColumnsAreFree
  <2>6. QED
    BY <2>4, <2>5 DEF CustomerTypeOK, Placed, RowsAreTyped
<1>6. ASSUME NEW email \in Typed, NEW value \in {"none", "vip"}, setOverride(email, value)
      PROVE  Mapped'
  <2>1. lower(email) \in Mailboxes
    BY DEF Typed, lower
  <2>2. QED
    BY <1>6, <2>1 DEF setOverride, CustomerTypeOK
<1>7. CASE UNCHANGED customerVars
  BY <1>7 DEF customerVars, CustomerTypeOK
<1>8. QED
  BY <1>2, <1>3, <1>4, <1>5, <1>6, <1>7 DEF CustomerNext

\* What NoStalePlaceholder says of one address.
AnswersFor(email) ==
  /\ Cardinality({i \in rowsFor(email) : rows[i].key.kind = "admin"}) <= 1
  /\ customerIds(email) # {} => \A i \in rowsFor(email) : rows[i].key.kind = "cus"

\* One placeholder at most, and none beside a customer, follow from how rows are keyed.
LEMMA MappedHasNoStale == Mapped => NoStalePlaceholder
<1>1. NoStalePlaceholder <=> \A email \in Typed : AnswersFor(email)
  BY DEF NoStalePlaceholder, AnswersFor
<1>. SUFFICES ASSUME Mapped, NEW email \in Typed PROVE AnswersFor(email)
  BY <1>1
<1>. DEFINE ones == {i \in rowsFor(email) : rows[i].key.kind = "admin"}
<1>2. ASSUME NEW i \in ones, NEW j \in ones
      PROVE  i = j
  <2>1. i \in DOMAIN rows /\ j \in DOMAIN rows /\ IsPlaceholder(rows[i]) /\ IsPlaceholder(rows[j])
    BY DEF rowsFor, IsPlaceholder
  <2>2. lower(rows[i].email) = lower(email) /\ lower(rows[j].email) = lower(email)
    BY DEF rowsFor
  <2>3. rows[i].key = placeholder(rows[i].email) /\ rows[j].key = placeholder(rows[j].email)
    BY <2>1 DEF Mapped, Placed, PlaceholdersKeyed
  <2>4. rows[i].key = rows[j].key
    BY <2>2, <2>3 DEF placeholder
  <2>5. QED
    BY <2>1, <2>4 DEF Mapped, Placed, OneRowAKey
<1>3. Cardinality(ones) <= 1
  <2>1. CASE ones = {}
    BY <2>1, FS_EmptySet
  <2>2. CASE ones # {}
    <3>1. PICK i \in ones : ones = {i}
      BY <1>2, <2>2, Zenon
    <3>2. Cardinality({i}) = 1
      BY FS_Singleton, Zenon
    <3>3. Cardinality(ones) = 1
      BY <3>1, <3>2, Zenon
    <3>4. QED
      BY <3>3
  <2>3. QED
    BY <2>1, <2>2
<1>4. ASSUME customerIds(email) # {}, NEW i \in rowsFor(email)
      PROVE  rows[i].key.kind = "cus"
  <2>1. PICK j \in rowsFor(email) : rows[j].key.kind = "cus"
    BY <1>4 DEF customerIds
  <2>2. i \in DOMAIN rows /\ j \in DOMAIN rows /\ lower(rows[i].email) = lower(rows[j].email)
    BY DEF rowsFor
  <2>3. ~IsPlaceholder(rows[i])
    BY <2>1, <2>2 DEF Mapped, Placed, Apart, IsPlaceholder
  <2>4. rows[i].key \in Keys
    BY <2>2 DEF Mapped, Placed, RowsAreTyped, Rows
  <2>5. QED
    BY <2>3, <2>4 DEF IsPlaceholder, Keys
<1>5. QED
  BY <1>3, <1>4 DEF AnswersFor

\* However often an address checks out, is invited by hand or is typed differently, for
\* any number of addresses, customers and rows, no placeholder stands beside a customer.
THEOREM CustomersAnswer == CustomerSpec => [](CustomerTypeOK /\ NoStalePlaceholder)
<1>1. Mapped => CustomerTypeOK /\ NoStalePlaceholder
  BY MappedHasNoStale DEF Mapped
<1>2. QED
  BY <1>1, CustomerInitKeeps, CustomerNextKeeps, PTL DEF CustomerSpec

---------------------------------------------------------------------------
\* The parts side by side, as they are checked.

LEMMA PartsStart ==
  BridgeInit => /\ Init /\ AlarmInit /\ BillingInit /\ AdminInit /\ CustomerInit
                /\ PageInit /\ SessionInit
  BY DEF BridgeInit

\* A step of one part leaves the variables of the others alone.
LEMMA PartsMove ==
  [BridgeNext]_allVars =>
    /\ [Next]_vars /\ [AlarmNext]_alarmVars /\ [BillingNext]_billingVars
    /\ [AdminNext]_adminVars /\ [CustomerNext]_customerVars
    /\ [PageNext]_pageVars /\ [SessionNext]_sessionVars
<1>1. UNCHANGED allVars =>
        UNCHANGED <<vars, alarmVars, billingVars, adminVars, customerVars, pageVars, sessionVars>>
  BY DEF allVars, bridgeVars, portalVars
<1>2. BridgeNext =>
        /\ [Next]_vars /\ [AlarmNext]_alarmVars /\ [BillingNext]_billingVars
        /\ [AdminNext]_adminVars /\ [CustomerNext]_customerVars
        /\ [PageNext]_pageVars /\ [SessionNext]_sessionVars
  BY DEF BridgeNext, bridgeVars, portalVars
<1>3. QED
  BY <1>1, <1>2

\* What the composition promises: a list nobody is missing from and records that are
\* their holder's, one mail for a set of problems that stands, a billing answer that is
\* true, a ban that holds, libraries told as they are shared, customers that answer for
\* their addresses, and a portal that shows what the bridge has and forgets whoever
\* signs out, for every value of the parts' constants.
THEOREM BridgeHolds ==
  BridgeSpec => [](/\ RosterIsTrue /\ HeldRecordsAreThePersons /\ OneMailPerStanding
                  /\ BillingIsTrue /\ BanHolds /\ LibrariesAreTold /\ NoStalePlaceholder
                  /\ PageIsHonest /\ SignedOutIsGone)
<1>. DEFINE Inv == /\ TypeOK /\ Alarmed /\ Billed /\ BanInv /\ Mapped /\ PageInv
                   /\ SessionTypeOK /\ KeptOwn
<1>1. BridgeInit => Inv
  BY PartsStart, TypeInit, AlarmInitKeeps, BillingInitKeeps, AdminInitKeeps, CustomerInitKeeps,
     PageInitKeeps, InitKeeps
<1>2. Inv /\ [BridgeNext]_allVars => Inv'
  BY PartsMove, TypeNext, AlarmNextKeeps, BillingNextKeeps, AdminNextKeeps, CustomerNextKeeps,
     PageNextKeeps, StepKeeps
<1>3. Inv => LibrariesAreTold /\ OneMailPerStanding
  BY PageTellsAccess, ListTellsAsPage DEF Alarmed, AlarmTypeOK, LibrariesAreTold
<1>4. Inv => /\ RosterIsTrue /\ BillingIsTrue /\ BanHolds /\ NoStalePlaceholder
             /\ PageIsHonest /\ SignedOutIsGone
  BY TypedRosterIsTrue, BilledIsTrue, BanInvHolds, MappedHasNoStale, PageInvIsHonest, KeptIsGone
<1>5. HeldRecordsAreThePersons
  BY HeldRecords DEF HeldRecordsAreThePersons
<1>6. QED
  BY <1>1, <1>2, <1>3, <1>4, <1>5, PTL DEF BridgeSpec
=============================================================================

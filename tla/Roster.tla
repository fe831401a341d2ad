------------------------------- MODULE Roster -------------------------------
(***************************************************************************)
(* The members list: assembleMembers over one snapshot of Wizarr and the   *)
(* store, each person an entry with all their records and all their        *)
(* payers. MemberLinks makes the snapshots.                                *)
(***************************************************************************)
EXTENDS MemberLinks, Naturals, FiniteSets

CONSTANTS Rank,         \* [Addresses -> Nat]: an order, for both lists and for sorting
          UsernameOf,   \* [Records -> names and NoName]; the name of a local account
          NoName

\* The order has a first among any of the addresses.
ASSUME RosterAssumption ==
  \A some \in SUBSET Addresses :
    some # {} => \E a \in some : \A b \in some : Rank[a] <= Rank[b]

first(addresses) == CHOOSE a \in addresses : \A b \in addresses : Rank[a] <= Rank[b]

\* The addresses the list is built from: Wizarr's, then the customers'.
seeds(s, customers) ==
  [wizarr |-> {EmailOf[r] : r \in s.users} \ {NoAddress}, paying |-> customers]

firstSeed(from, wizarr) == first(IF from \intersect wizarr # {} THEN from \intersect wizarr ELSE from)

\* One identity for each primary address: that of the first seed that has it.
identities(s, customers) ==
  LET wizarr == seeds(s, customers).wizarr
      all    == wizarr \union customers
      key(a) == personAt(s, a).primaryAddress
  IN {personAt(s, firstSeed({b \in all : key(b) = key(a)}, wizarr)) : a \in all}

\* Accounts without an address that no person claims, one entry for each username:
\* one that has no name either is left out.
localAccounts(s, found) ==
  LET claimed   == UNION {everyRecord(s, i) : i \in found}
      unclaimed == {r \in s.users : EmailOf[r] = NoAddress /\ UsernameOf[r] # NoName} \ claimed
  IN {[primaryAddress |-> NoAddress, addresses |-> {}, via |-> "none",
       records |-> {q \in unclaimed : UsernameOf[q] = UsernameOf[r]}] : r \in unclaimed}

assembleMembers(s, customers) ==
  LET found == identities(s, customers) IN found \union localAccounts(s, found)

\* The records an entry lists.
listedRecords(s, entry) == everyRecord(s, entry)

\* The one address an entry is shown under: the primary one when a record is
\* there, else that of its first record, else the primary one all the same.
shownAs(s, entry) ==
  LET held == {EmailOf[r] : r \in everyRecord(s, entry)} \ {NoAddress} IN
  IF entry.primaryAddress \in held \/ held = {} THEN entry.primaryAddress ELSE first(held)

\* The billing account shown: a confirmed payer before a stated link's payer
\* before the member's own address; then by address.
primaryBilling(s, customers, subscribed, entry) ==
  LET accounts == customers \intersect entry.addresses
      rank(a)  == (IF a \in subscribed THEN 4 ELSE 0)
                    + (IF s.links[a] # NoAddress THEN 2 ELSE 0)
                    + (IF a = entry.primaryAddress THEN 1 ELSE 0)
      best     == {a \in accounts : \A b \in accounts : rank(b) <= rank(a)}
  IN IF accounts = {} THEN NoAddress ELSE first(best)

\* A tag on any address of a person is theirs, the strongest where there are several.
strength == [none |-> 0, hvu |-> 1, vip |-> 2, banned |-> 3]
strongestAcross(tags, addresses) ==
  LET theirs == {tags[a] : a \in addresses} \union {"none"}
  IN CHOOSE t \in theirs : \A u \in theirs : strength[u] <= strength[t]

\* Mutant: by the address the entry is known by alone.
finishMemberShown(entry, tags) == strongestAcross(tags, {entry.primaryAddress} \ {NoAddress})

\* What the entry shows as its tag, and what the handlers go by for an address.
finishMember(entry, tags) == strongestAcross(tags, entry.addresses)
standingOf(s, tags, email) == strongestAcross(tags, personAt(s, email).addresses)

\* The list, from the one snapshot the page and the handlers would both read.
customerRows == {a \in Addresses : invites[a] # NoCode}
roster == assembleMembers(identitySnapshot, customerRows)

\* A member by address: the entry shown under it, or the customer who has it, who
\* may be standing as another entry's payer; else nobody.
getMember(s, customers, email) ==
  LET listed == {e \in assembleMembers(s, customers) : shownAs(s, e) = email} IN
  IF listed # {} THEN {e.addresses : e \in listed}
  ELSE IF email \in customers THEN {personAt(s, email).addresses} ELSE {}

---------------------------------------------------------------------------
\* Properties.

\* Nobody is missing: every record Wizarr lists with an address or a name is in an
\* entry, and every paying address is in one and answers when it is asked for
\* (assembleMembers, getMember).
EveryoneIsListed ==
  /\ \A r \in users : EmailOf[r] # NoAddress \/ UsernameOf[r] # NoName =>
       \E entry \in roster : r \in listedRecords(identitySnapshot, entry)
  /\ \A a \in customerRows :
       /\ \E entry \in roster : a \in entry.addresses
       /\ getMember(identitySnapshot, customerRows, a) # {}

\* The links agree: what a redemption says of an address is what was stated of
\* it, and no address is both a payer and paid for.
linksAgree ==
  LET joined == linksOf(identitySnapshot) IN
  \A a \in Addresses :
    /\ joined[a] # NoAddress => joined[joined[a]] = NoAddress
    /\ LET redeemer == addressOf(redeemerOf(identitySnapshot, invites[a])) IN
       links[a] # NoAddress /\ redeemer \notin {NoAddress, a} => redeemer = links[a]

\* While they agree the list is of the very people the handlers act on: whichever
\* address of an entry a webhook comes under, it is that entry's person, the tag
\* that governs it is the one shown, and the billing is one of that person's ("a projection of the same identities").
ListedAsHandled ==
  linksAgree =>
    \A entry \in roster :
      /\ \A a \in entry.addresses : personAt(identitySnapshot, a).addresses = entry.addresses
      /\ primaryBilling(identitySnapshot, customerRows, {}, entry)
           \in entry.addresses \union {NoAddress}
      /\ \A a \in entry.addresses, b \in Addresses :
           LET tags == [c \in Addresses |-> IF c = b THEN "banned" ELSE "vip"]
           IN finishMember(entry, tags) = standingOf(identitySnapshot, tags, a)

\* What the members list promises, together.
RosterIsTrue == EveryoneIsListed /\ ListedAsHandled
=============================================================================

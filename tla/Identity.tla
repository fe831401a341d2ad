------------------------------ MODULE Identity ------------------------------
(***************************************************************************)
(* Who a member is: identityFor over one snapshot of Wizarr and the store. *)
(* Links and invites are functions of the lowercased address, with         *)
(* NoAddress and NoCode where the code's maps have no entry.               *)
(***************************************************************************)
CONSTANTS Addresses,    \* lowercased, trimmed email addresses
          Records,      \* Wizarr user records, by id
          EmailOf,      \* [Records -> Addresses \union {NoAddress}]
          Codes,        \* invite codes
          NoAddress, NoCode, NoRecord

ASSUME IdentityAssumption ==
  /\ EmailOf \in [Records -> Addresses \union {NoAddress}]
  /\ NoAddress \notin Addresses
  /\ NoCode \notin Codes
  /\ NoRecord \notin Records

Links == [Addresses -> Addresses \union {NoAddress}]

\* A snapshot: the users Wizarr lists, the record each invitation's used_by
\* names, the admin's links, and the invite on each payer's customer row.
Snapshots == [users   : SUBSET Records,
              usedBy  : [Codes -> Records \union {NoRecord}],
              links   : Links,
              invites : [Addresses -> Codes \union {NoCode}]]

recordsAt(s, address) == {r \in s.users : EmailOf[r] = address}

\* The record an invitation's used_by names, by id or by username; nobody's when it is
\* unredeemed, or when its redeemer is no longer listed.
redeemerRecord(s, code) == IF s.usedBy[code] \in s.users THEN s.usedBy[code] ELSE NoRecord

redeemerOf(s, code) == IF code # NoCode THEN redeemerRecord(s, code) ELSE NoRecord

addressOf(r) == IF r = NoRecord THEN NoAddress ELSE EmailOf[r]

redeemerRecords(s, code) ==
  LET redeemer == redeemerOf(s, code) IN
  IF redeemer = NoRecord THEN {}
  ELSE IF EmailOf[redeemer] = NoAddress THEN {redeemer}
  ELSE recordsAt(s, EmailOf[redeemer])

\* The link a redemption under another address implies.
impliedLinks(s) ==
  [payer \in Addresses |->
     LET plex == addressOf(redeemerOf(s, s.invites[payer])) IN
     IF plex # payer THEN plex ELSE NoAddress]

\* Mutant: what a redemption implies outranks what the admin stated.
linksOfImpliedFirst(s) ==
  [payer \in Addresses |->
     IF impliedLinks(s)[payer] # NoAddress THEN impliedLinks(s)[payer] ELSE s.links[payer]]

\* A stated link outranks the one a redemption implies for the same payer.
linksOf(s) ==
  [payer \in Addresses |->
     IF s.links[payer] # NoAddress THEN s.links[payer] ELSE impliedLinks(s)[payer]]

owner(links, a) == IF links[a] # NoAddress THEN links[a] ELSE a

\* One step along the links in each direction.
linkedTo(links, seeds) ==
  LET owners == {owner(links, a) : a \in seeds}
  IN seeds \union owners \union {payer \in Addresses : links[payer] \in owners}

\* Without an address only the invite can answer.
identityFor(s, email, code) ==
  LET redeemer == addressOf(redeemerOf(s, code))
      links    == linksOf(s)
      seed     == IF email # NoAddress THEN email ELSE redeemer
      byEmail  == IF email # NoAddress THEN recordsAt(s, email) ELSE {}
      linked   == IF email # NoAddress THEN s.links[email] ELSE NoAddress
      byLink   == IF linked # NoAddress THEN recordsAt(s, linked) ELSE {}
      byInvite == redeemerRecords(s, code)
      found    == IF byEmail # {} THEN byEmail ELSE IF byLink # {} THEN byLink ELSE byInvite
      via      == IF byEmail # {} THEN "email"
                  ELSE IF byLink # {} THEN "link"
                  ELSE IF byInvite # {} THEN "invite" ELSE "none"
  IN [primaryAddress |-> IF seed # NoAddress THEN owner(links, seed) ELSE NoAddress,
      addresses |-> linkedTo(links, {email, redeemer} \ {NoAddress}),
      records |-> found,
      via |-> via]

\* The person at an address, with the invite on that address's row followed.
personAt(s, email) == identityFor(s, email, s.invites[email])

\* Every record of the person, not only those the first evidence found.
everyRecord(s, identity) ==
  identity.records \union {r \in s.users : EmailOf[r] \in identity.addresses}
=============================================================================

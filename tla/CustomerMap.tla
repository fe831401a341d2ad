---------------------------- MODULE CustomerMap -----------------------------
(***************************************************************************)
(* The bridge's customer_map and the per-address overrides beside it. A    *)
(* row is a checkout's Stripe customer, or a placeholder for an address    *)
(* Stripe has not heard of; which row answers for an address is decided    *)
(* when it is read. Addresses reach the store as they were typed.          *)
(***************************************************************************)
EXTENDS Naturals, FiniteSets

CONSTANTS Payers,       \* Stripe customers
          Mailboxes,    \* addresses, lowercased
          Spellings,    \* how an address may be typed
          MaxInvites,   \* invites issued
          MaxRowids     \* rows inserted above one another

ASSUME CustomerAssumption == MaxInvites \in Nat /\ MaxRowids \in Nat

Rowids == 1..MaxRowids

Typed == [box : Mailboxes, as : Spellings]
lower(email) == email.box

\* The keys of the table: a customer's id, or admin:<address>.
Keys == [kind : {"cus"}, of : Payers] \union [kind : {"admin"}, of : Mailboxes]
cus(c) == [kind |-> "cus", of |-> c]
placeholder(email) == [kind |-> "admin", of |-> lower(email)]

NoInvite == 0
TierNames == {"none", "gold", "silver"}

VARIABLES
  rows,       \* customer_map by rowid: key, email, invite, tier, subscribed, state
  overrides,  \* member_tags and its like: a value for each address
  issuedCodes \* invites so far

customerVars == <<rows, overrides, issuedCodes>>

Rows == [key : Keys, email : Typed, invite : 0..MaxInvites, tier : TierNames,
         subscribed : BOOLEAN, state : {"none", "past_due"}]

CustomerTypeOK ==
  /\ DOMAIN rows \subseteq Rowids /\ rows \in [DOMAIN rows -> Rows]
  /\ overrides \in [Mailboxes -> {"none", "vip", "hvu", "banned"}]
  /\ issuedCodes \in 0..MaxInvites

CustomerInit ==
  /\ rows = [i \in {} |-> NoInvite]
  /\ overrides = [m \in Mailboxes |-> "none"]
  /\ issuedCodes = 0

rowsFor(email) == {i \in DOMAIN rows : lower(rows[i].email) = lower(email)}
without(key) == [i \in {j \in DOMAIN rows : rows[j].key # key} |-> rows[i]]
NewRow(key, email) ==
  [key |-> key, email |-> email, invite |-> NoInvite, tier |-> "none",
   subscribed |-> FALSE, state |-> "none"]

\* A row inserted beside those kept: SQLite numbers it one above the highest of them.
Inserts(kept, row) ==
  \E id \in Rowids :
    /\ \A i \in DOMAIN kept : i < id
    /\ id - 1 \in DOMAIN kept \union {0}
    /\ rows' = [i \in DOMAIN kept \union {id} |-> IF i = id THEN row ELSE kept[i]]

\* The columns written by hand: the tier, and the invite unless it is left as it was.
withColumns(row, invite) ==
  [row EXCEPT !.tier = "silver", !.invite = IF invite = NoInvite THEN row.invite ELSE invite]

\* Write columns onto every row for the address, or onto a new placeholder.
setByEmailOrPlaceholder(email, invite) ==
  IF rowsFor(email) = {}
  THEN Inserts(rows, withColumns(NewRow(placeholder(email), email), invite))
  ELSE rows' = [i \in DOMAIN rows |-> IF i \in rowsFor(email) THEN withColumns(rows[i], invite) ELSE rows[i]]

\* What a checkout writes over the row of its customer, whatever that row's
\* address was, or inserts.
Checked(c, email, row) ==
  [row EXCEPT !.key = cus(c), !.email = email, !.invite = issuedCodes + 1, !.tier = "gold",
              !.subscribed = TRUE]

WriteCustomer(c, email, kept) ==
  LET old == {i \in DOMAIN kept : kept[i].key = cus(c)} IN
  IF old = {} THEN Inserts(kept, Checked(c, email, NewRow(cus(c), email)))
  ELSE rows' = [i \in DOMAIN kept |-> IF i \in old THEN Checked(c, email, kept[i]) ELSE kept[i]]

Issues(email) ==
  /\ issuedCodes < MaxInvites
  /\ issuedCodes' = issuedCodes + 1
  /\ UNCHANGED overrides

\* Mutant: the placeholder stays.
upsertPendingBeside(c, email) == Issues(email) /\ WriteCustomer(c, email, rows)

\* An invite for a customer: the placeholder of the address goes.
upsertCustomer(c, email) == Issues(email) /\ WriteCustomer(c, email, without(placeholder(email)))

\* An invite for an address alone: every row of it points there.
upsertPendingByEmail(email) ==
  /\ Issues(email)
  /\ setByEmailOrPlaceholder(email, issuedCodes + 1)

\* Columns written for an address that may have no row yet.
setTier(email) ==
  /\ setByEmailOrPlaceholder(email, NoInvite)
  /\ UNCHANGED <<overrides, issuedCodes>>

\* Flags written on the rows there are.
setFlags(email, flags) ==
  /\ rowsFor(email) # {}
  /\ rows' = [i \in DOMAIN rows |->
                IF i \in rowsFor(email)
                THEN [rows[i] EXCEPT !.subscribed = flags.subscribed, !.state = flags.state]
                ELSE rows[i]]
  /\ UNCHANGED <<overrides, issuedCodes>>

\* addressKeyed: the key is lowercased, so one value however it is typed.
setOverride(email, value) ==
  /\ overrides' = [overrides EXCEPT ![lower(email)] = value]
  /\ UNCHANGED <<rows, issuedCodes>>

CustomerNext ==
  \/ \E email \in Typed :
       \/ \E c \in Payers : upsertCustomer(c, email)
       \/ upsertPendingByEmail(email)
       \/ setTier(email)
       \/ \E flags \in [subscribed : BOOLEAN, state : {"none", "past_due"}] : setFlags(email, flags)
       \/ \E value \in {"none", "vip"} : setOverride(email, value)

CustomerSpec == CustomerInit /\ [][CustomerNext]_customerVars

---------------------------------------------------------------------------
\* The reads.

\* CUSTOMER_ORDER: a real customer before a placeholder, then the newest row.
answering(indices) ==
  CHOOSE i \in indices : \A j \in indices :
    LET real(k) == IF rows[k].key.kind = "cus" THEN 1 ELSE 0
    IN real(j) < real(i) \/ (real(j) = real(i) /\ j <= i)

customerRow(email) == rows[answering(rowsFor(email))]

customerIds(email) == {rows[i].key.of : i \in {j \in rowsFor(email) : rows[j].key.kind = "cus"}}

---------------------------------------------------------------------------
\* Properties.

\* However often an address checks out, is invited by hand or is typed
\* differently, it never has a placeholder beside a customer, so whoever looks
\* for its customers finds them in the row that answers (upsertPending's delete).
NoStalePlaceholder ==
  \A email \in Typed :
    /\ Cardinality({i \in rowsFor(email) : rows[i].key.kind = "admin"}) <= 1
    /\ customerIds(email) # {} => \A i \in rowsFor(email) : rows[i].key.kind = "cus"
=============================================================================

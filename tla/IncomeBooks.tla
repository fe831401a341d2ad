----------------------------- MODULE IncomeBooks -----------------------------
(***************************************************************************)
(* The income page. Nobody keeps a ledger: the page folds the members'     *)
(* action log, which the bridge writes for people to read, into paying     *)
(* states and movements, and rebuilds every past month from them; the      *)
(* month in hand is the members list's own. The history kept beside it is  *)
(* what each member was paying when each month ended.                      *)
(***************************************************************************)
EXTENDS Integers, SequencesExt

CONSTANTS Subscribers,  \* members, one address each
          Price,        \* [tiers -> dollars a month]
          MaxRows,      \* bound: rows of the log
          MaxMonth      \* bound: months

ASSUME IncomeAssumption ==
  /\ \A t \in DOMAIN Price : Price[t] \in Nat
  /\ MaxRows \in Nat /\ MaxMonth \in Nat

NoTier == "none"
PaidTiers == DOMAIN Price

VARIABLES
  member,     \* the members list's row of each: subscribed, tier, banned, since
  window,     \* each member's server records: none, open or past their expiry
  subscriptions,    \* Stripe: each member's live subscriptions
  written,    \* the member log, in the order of its ids
  month,      \* the month in hand, from 1
  paidAt,     \* history: what each member was paying when a month ended
  preceding,  \* members who were paying before the log began
  untold      \* history: members the log has not told everything of

incomeVars == <<member, window, subscriptions, written, month, paidAt, preceding, untold>>

Actions == {"Signed up", "Access restored", "Tier reset", "Invite issued", "Canceled",
            "Banned", "Payment received", "Payment failed"}

IncomeTypeOK ==
  /\ member \in [Subscribers -> [subscribed : BOOLEAN, tier : PaidTiers \union {NoTier},
                                 banned : BOOLEAN, since : 0..MaxMonth]]
  /\ window \in [Subscribers -> {"none", "open", "lapsed"}]
  /\ subscriptions \in [Subscribers -> 0..2]
  /\ written \in Seq([who : Subscribers, month : 1..MaxMonth, action : Actions,
                      named : PaidTiers \union {NoTier}])
  /\ month \in 1..MaxMonth
  /\ paidAt \in [1..(month - 1) -> [Subscribers -> Nat]]
  /\ preceding \subseteq Subscribers /\ untold \subseteq Subscribers

IncomeInit ==
  /\ preceding \in SUBSET Subscribers
  /\ \E tier \in PaidTiers :
       member = [m \in Subscribers |->
         [subscribed |-> m \in preceding, banned |-> FALSE, since |-> 0,
          tier |-> IF m \in preceding THEN tier ELSE NoTier]]
  /\ window = [m \in Subscribers |-> IF m \in preceding THEN "open" ELSE "none"]
  /\ subscriptions = [m \in Subscribers |-> IF m \in preceding THEN 1 ELSE 0]
  /\ written = <<>> /\ month = 1
  /\ paidAt = <<>> /\ untold = {}

(***************************************************************************)
(* The page, from the members list and the log.                            *)
(***************************************************************************)
priceOf(tier) == IF tier \in PaidTiers THEN Price[tier] ELSE 0

\* Paying today: subscribed, not banned, no record past its expiry.
isPaying(m) == member[m].subscribed /\ ~member[m].banned /\ window[m] # "lapsed"

\* The headline, by member; one with no tier on record cannot be priced.
currentIncome(m) == IF isPaying(m) THEN priceOf(member[m].tier) ELSE 0

EmptyState == [paying |-> FALSE, tier |-> NoTier, inferred |-> FALSE]
Listed(kind, tier, delta) == [kind |-> kind, tier |-> tier, delta |-> delta]
Unlisted(state) == [state |-> state, events |-> <<>>]
tierChange(state, from, to) ==
  LET delta == Price[to] - Price[from] IN
  [state |-> state,
   events |-> <<Listed(IF delta > 0 THEN "upgrade" ELSE "downgrade", to, delta)>>]

\* Somebody not known to be paying begins to.
signsUp(tier) ==
  [state |-> [paying |-> TRUE, tier |-> tier, inferred |-> FALSE],
   events |-> <<Listed("signup", tier, priceOf(tier))>>]

\* The row's tier, where it names one, and whether that is another than the one known.
tierAfter(state, row) == IF row.named = NoTier THEN state.tier ELSE row.named
moves(state, row) == state.tier # NoTier /\ row.named # NoTier /\ row.named # state.tier

\* Mutant: a repeated signup is a signup again.
joinsAnew(state, row) == signsUp(tierAfter(state, row))

\* A signup or a restore: of a member known to be paying it moves the tier, or nothing.
joins(state, row) ==
  LET counted == [paying |-> TRUE, tier |-> tierAfter(state, row), inferred |-> FALSE] IN
  IF ~state.paying \/ state.inferred THEN signsUp(counted.tier)
  ELSE IF moves(state, row) THEN tierChange(counted, state.tier, row.named)
  ELSE [state |-> counted,
        events |-> IF row.action = "Access restored"
                   THEN <<Listed("signup", counted.tier, 0)>> ELSE <<>>]

\* What one row of the log means for the member's income, given where they stood.
stepMember(state, row) ==
  CASE row.action \in {"Signed up", "Access restored"} -> joins(state, row)
    [] row.action \in {"Tier reset", "Invite issued"} ->
         LET moved == [state EXCEPT !.tier = tierAfter(state, row)] IN
         IF state.paying /\ moves(state, row) THEN tierChange(moved, state.tier, row.named)
         ELSE Unlisted(moved)
    [] row.action \in {"Canceled", "Banned"} ->
         IF ~state.paying THEN Unlisted(state)
         ELSE [state |-> [paying |-> FALSE, tier |-> state.tier, inferred |-> FALSE],
               events |-> <<Listed("cancel", state.tier, -priceOf(state.tier))>>]
    [] row.action = "Payment failed" ->
         [state |-> state, events |-> <<Listed("payment_failed", state.tier, 0)>>]
    [] row.action = "Payment received" ->
         Unlisted(IF state.paying THEN state ELSE [state EXCEPT !.paying = TRUE, !.inferred = TRUE])

\* The member's rows as income events, each with the month it happened in.
toIncomeEvents(m) ==
  LET take(walked, row) ==
        LET step == stepMember(walked.state, row) IN
        [state |-> step.state,
         out |-> walked.out \o [i \in DOMAIN step.events |->
                                  [month |-> row.month, event |-> step.events[i]]]]
      own == SelectSeq(written, LAMBDA row : row.who = m) IN
  FoldLeft(take, [state |-> EmptyState, out |-> <<>>], own).out

\* Where the member stood when a month ended, walking the listed events alone.
statesBefore(m, k) ==
  LET walk(state, listed) ==
        LET event == listed.event IN
        CASE event.kind = "signup" ->
               [known |-> TRUE, paying |-> TRUE,
                tier |-> IF event.tier = NoTier THEN state.tier ELSE event.tier]
          [] event.kind \in {"upgrade", "downgrade"} ->
               [known |-> TRUE, paying |-> TRUE, tier |-> event.tier]
          [] event.kind = "cancel" -> [state EXCEPT !.known = TRUE, !.paying = FALSE]
          [] OTHER -> [state EXCEPT !.known = TRUE]
      before == SelectSeq(toIncomeEvents(m), LAMBDA listed : listed.month <= k) IN
  FoldLeft(walk, [known |-> FALSE, paying |-> FALSE, tier |-> NoTier], before)

\* Paying today with no signup on record: counted from the invite, at today's tier.
unlogged(m) ==
  /\ isPaying(m) /\ member[m].tier \in PaidTiers
  /\ \A i \in DOMAIN toIncomeEvents(m) : toIncomeEvents(m)[i].event.kind # "signup"

\* The member's part of a past month's income.
monthlySeries(m, k) ==
  LET state == statesBefore(m, k) IN
  IF state.paying
  THEN priceOf(IF state.tier = NoTier THEN member[m].tier ELSE state.tier)
  ELSE IF unlogged(m) /\ ~state.known /\ member[m].since <= k
       THEN priceOf(member[m].tier) ELSE 0

\* What the member moved in a month, as the movements chart adds it up.
sumWhere(m, k) ==
  FoldLeft(LAMBDA sum, listed : IF listed.month = k THEN sum + listed.event.delta ELSE sum,
           0, toIncomeEvents(m))

(***************************************************************************)
(* The bridge, which writes the log, and the world.                        *)
(***************************************************************************)
recordEvent(m, action, named) ==
  /\ Len(written) < MaxRows
  /\ written' = Append(written, [who |-> m, month |-> month, action |-> action, named |-> named])

\* A change the log does not tell, or of a member it never saw begin.
Tells(m, told) == untold' = IF told /\ m \notin preceding THEN untold ELSE untold \union {m}

\* A checkout of somebody not banned: on a customer of its own when one is live already.
SignsUp(m, tier) ==
  /\ ~member[m].banned /\ subscriptions[m] < 2
  /\ subscriptions' = [subscriptions EXCEPT ![m] = @ + 1]
  /\ member' = [member EXCEPT ![m] = [@ EXCEPT !.subscribed = TRUE, !.tier = tier, !.since = month]]
  /\ recordEvent(m, "Signed up", tier)
  /\ Tells(m, TRUE)
  /\ UNCHANGED <<window, month, paidAt, preceding>>

\* A renewal: of somebody banned it is only noted; records there are extended, and
\* access is restored where there are none.
Renews(m) ==
  /\ subscriptions[m] > 0
  /\ \/ /\ member[m].banned
        /\ recordEvent(m, "Payment received", NoTier)
        /\ Tells(m, FALSE)
        /\ UNCHANGED <<member, window>>
     \/ /\ ~member[m].banned /\ window[m] # "none"
        /\ window' = [window EXCEPT ![m] = "open"]
        /\ member' = [member EXCEPT ![m].subscribed = TRUE]
        /\ recordEvent(m, "Payment received", NoTier)
        /\ untold' = untold
     \/ /\ ~member[m].banned /\ window[m] = "none"
        /\ member' = [member EXCEPT ![m] = [@ EXCEPT !.subscribed = TRUE, !.since = month]]
        /\ recordEvent(m, "Access restored", member[m].tier)
        /\ Tells(m, TRUE)
        /\ UNCHANGED window
  /\ UNCHANGED <<subscriptions, month, paidAt, preceding>>

\* A charge that fails while another subscription is live is retired and not noted.
PaymentFails(m) ==
  /\ subscriptions[m] = 1
  /\ recordEvent(m, "Payment failed", NoTier)
  /\ Tells(m, TRUE)
  /\ UNCHANGED <<member, window, subscriptions, month, paidAt, preceding>>

\* A subscription ends: the last one stops the member's paying, another does not.
SubscriptionEnds(m) ==
  /\ subscriptions[m] > 0
  /\ subscriptions' = [subscriptions EXCEPT ![m] = @ - 1]
  /\ member' = [member EXCEPT ![m].subscribed = subscriptions[m] > 1]
  /\ window' = [window EXCEPT ![m] = IF subscriptions[m] > 1 THEN @ ELSE "none"]
  /\ recordEvent(m, "Canceled", NoTier)
  /\ Tells(m, subscriptions[m] = 1)
  /\ UNCHANGED <<month, paidAt, preceding>>

\* The admin: a tier set outright, or a new invite, which starts the grace clock too.
ResetsTier(m, tier) ==
  /\ member[m].tier # NoTier
  /\ \/ /\ recordEvent(m, "Tier reset", tier)
        /\ member' = [member EXCEPT ![m].tier = tier]
     \/ /\ ~member[m].banned
        /\ recordEvent(m, "Invite issued", tier)
        /\ member' = [member EXCEPT ![m] = [@ EXCEPT !.tier = tier, !.since = month]]
  /\ Tells(m, TRUE)
  /\ UNCHANGED <<window, subscriptions, month, paidAt, preceding>>

Bans(m) ==
  /\ ~member[m].banned
  /\ member' = [member EXCEPT ![m].banned = TRUE]
  /\ window' = [window EXCEPT ![m] = "none"]
  /\ recordEvent(m, "Banned", NoTier)
  /\ Tells(m, TRUE)
  /\ UNCHANGED <<subscriptions, month, paidAt, preceding>>

\* A cleared tag is noted as a tag changed, which the page does not read.
LiftsBan(m) ==
  /\ member[m].banned
  /\ member' = [member EXCEPT ![m].banned = FALSE]
  /\ Tells(m, FALSE)
  /\ UNCHANGED <<window, subscriptions, written, month, paidAt, preceding>>

\* An invite is redeemed; a window runs out unpaid, and Wizarr removes its record.
Windows(m) ==
  /\ \/ window[m] = "none" /\ member[m].subscribed /\ ~member[m].banned
        /\ window' = [window EXCEPT ![m] = "open"] /\ untold' = untold
     \/ window[m] = "open" /\ window' = [window EXCEPT ![m] = "lapsed"] /\ Tells(m, FALSE)
     \/ window[m] = "lapsed" /\ window' = [window EXCEPT ![m] = "none"] /\ untold' = untold
  /\ UNCHANGED <<member, subscriptions, written, month, paidAt, preceding>>

MonthEnds ==
  /\ month < MaxMonth
  /\ month' = month + 1
  /\ paidAt' = Append(paidAt, [m \in Subscribers |-> currentIncome(m)])
  /\ UNCHANGED <<member, window, subscriptions, written, preceding, untold>>

IncomeNext ==
  \/ \E m \in Subscribers :
       \/ \E tier \in PaidTiers : SignsUp(m, tier) \/ ResetsTier(m, tier)
       \/ Renews(m) \/ PaymentFails(m) \/ SubscriptionEnds(m)
       \/ Bans(m) \/ LiftsBan(m) \/ Windows(m)
  \/ MonthEnds

IncomeSpec == IncomeInit /\ [][IncomeNext]_incomeVars

(***************************************************************************)
(* Properties                                                              *)
(***************************************************************************)
\* The books balance: for a member whose story the log tells, every past month counts
\* exactly what they were paying when it ended, however they signed up, came back,
\* moved between tiers and left meanwhile, and the movements charted for a month
\* account for the difference to the month before (monthlySeries against the headline
\* as it then stood).
BooksBalance ==
  \A m \in Subscribers \ untold, k \in DOMAIN paidAt :
    /\ monthlySeries(m, k) = paidAt[k][m]
    /\ k > 1 => sumWhere(m, k) = paidAt[k][m] - paidAt[k - 1][m]

\* A member the log never saw sign up, nor leave, counts in every month from the date
\* they were invited (monthlySeries). The page drops them from the month their card
\* first fails: the row lists an event, and its state says they are not paying.
EarlyMembersCount ==
  \A m \in Subscribers, k \in DOMAIN paidAt :
    /\ unlogged(m) /\ member[m].since <= k
    /\ \A i \in DOMAIN written :
         written[i].who = m => written[i].action \notin {"Canceled", "Banned"}
    => monthlySeries(m, k) = priceOf(member[m].tier)
=============================================================================

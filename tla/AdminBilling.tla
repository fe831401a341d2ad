---------------------------- MODULE AdminBilling ----------------------------
(***************************************************************************)
(* flagSubscriptions: every live subscription of a person set to end with  *)
(* the period already paid for, one call after another, on behalf of a ban *)
(* or of a cancellation; checkouts go on meanwhile. A failed call is       *)
(* counted and the next is made.                                           *)
(***************************************************************************)
EXTENDS Naturals, FiniteSets

CONSTANTS Emails,    \* the person's addresses
          Customers,    \* Stripe customers
          EmailAt,    \* [Customers -> Emails]: the email Stripe has on each
          Plans,        \* subscriptions, those there from the start and later ones
          PayerOf,      \* [Plans -> Customers]
          Early,        \* the plans there from the start
          MaxBillingFailures

ASSUME BillingAssumption ==
  /\ EmailAt \in [Customers -> Emails]
  /\ PayerOf \in [Plans -> Customers]
  /\ Early \subseteq Plans /\ MaxBillingFailures \in Nat

Asks == {"ban", "cancel"}
Answers == {"none", "failed", "partial", "scheduled", "already_scheduled", "absent",
            "canceled", "error", "unknown"}

VARIABLES
  stored,     \* customers the bridge has a row for
  status,     \* each subscription: unborn, active, past_due or canceled
  flagged,    \* subscriptions with cancel_at_period_end
  ask,        \* what is being asked for
  toFind,     \* addresses whose customers are still to be found
  toList,     \* customers whose subscriptions are still to be listed
  toFlag,     \* subscriptions of the customer in hand still to be flagged
  tally,      \* what the calls so far made of it
  answer,     \* what the admin was told
  touched     \* history: subscriptions that began or ended since the asking

billingVars == <<stored, status, flagged, ask, toFind, toList, toFlag, tally, answer, touched>>

EmptyTally == [found |-> {}, flagged |-> {}, already |-> {}, failures |-> 0]

Statuses == {"unborn", "active", "past_due", "canceled"}

BillingTypeOK ==
  /\ stored \subseteq Customers
  /\ status \in [Plans -> Statuses]
  /\ flagged \subseteq Plans /\ touched \subseteq Plans
  /\ ask \in Asks \union {"none"}
  /\ toFind \subseteq Emails /\ toList \subseteq Customers /\ toFlag \subseteq Plans
  /\ tally \in [found : SUBSET Customers, flagged : SUBSET Plans, already : SUBSET Plans,
                failures : 0..MaxBillingFailures]
  /\ answer \in Answers

BillingInit ==
  /\ stored = {PayerOf[p] : p \in Early}
  /\ status = [p \in Plans |-> IF p \in Early THEN "active" ELSE "unborn"]
  /\ flagged = {} /\ touched = {}
  /\ ask = "none"
  /\ toFind = {} /\ toList = {} /\ toFlag = {}
  /\ tally = EmptyTally
  /\ answer = "none"

worldVars == <<stored, status, flagged, touched>>
doing == toFind # {} \/ toList # {} \/ toFlag # {}

\* Stripe lists a customer's subscriptions that have not ended.
subscriptionsFor(c) ==
  {p \in Plans : PayerOf[p] = c /\ status[p] \notin {"unborn", "canceled"}}

\* customerIdsForEmail of the store, and of Stripe when the store has nobody.
mappedIds(a) == {c \in stored : EmailAt[c] = a}
customerIdsForEmail(a) == {c \in Customers : EmailAt[c] = a}

Ask(what) ==
  /\ ask = "none" /\ answer = "none"
  /\ ask' = what
  /\ toFind' = Emails
  /\ touched' = {}
  /\ UNCHANGED <<stored, status, flagged, toList, toFlag, tally, answer>>

Failed == tally' = [tally EXCEPT !.failures = @ + 1]
MayFail == tally.failures < MaxBillingFailures

\* The customers of one address; an address Stripe cannot be asked about is a failure.
FindCustomers(a) ==
  /\ a \in toFind
  /\ toFind' = toFind \ {a}
  /\ LET ids == IF mappedIds(a) # {} THEN mappedIds(a) ELSE customerIdsForEmail(a) IN
     \/ toList' = toList \union ids /\ tally' = [tally EXCEPT !.found = @ \union ids]
     \/ mappedIds(a) = {} /\ MayFail /\ Failed /\ UNCHANGED toList
  /\ UNCHANGED <<worldVars, ask, toFlag, answer>>

\* The subscriptions of one customer, split into those flagged already and the rest.
ListSubscriptions(c) ==
  /\ toFind = {} /\ toFlag = {} /\ c \in toList
  /\ toList' = toList \ {c}
  /\ LET listed == subscriptionsFor(c) IN
     \/ /\ toFlag' = listed \ flagged
        /\ tally' = [tally EXCEPT !.already = @ \union (listed \intersect flagged)]
     \/ MayFail /\ Failed /\ UNCHANGED toFlag
  /\ UNCHANGED <<worldVars, ask, toFind, answer>>

\* Mutant: a failure is logged and not counted.
FlagUncounted(p) ==
  /\ p \in toFlag
  /\ toFlag' = toFlag \ {p}
  /\ \/ flagged' = flagged \union {p} /\ tally' = [tally EXCEPT !.flagged = @ \union {p}]
     \/ UNCHANGED <<flagged, tally>>
  /\ UNCHANGED <<stored, status, touched, ask, toFind, toList, answer>>

\* cancelAtPeriodEnd of one subscription: done, or failed with or without effect. One
\* that has ended since it was listed cannot be updated.
FlagSubscription(p) ==
  /\ p \in toFlag
  /\ toFlag' = toFlag \ {p}
  /\ \/ /\ status[p] # "canceled"
        /\ flagged' = flagged \union {p}
        /\ tally' = [tally EXCEPT !.flagged = @ \union {p}]
     \/ /\ MayFail /\ Failed
        /\ \E done \in SUBSET ({p} \ {o \in Plans : status[o] = "canceled"}) :
             flagged' = flagged \union done
  /\ UNCHANGED <<stored, status, touched, ask, toFind, toList, answer>>

\* What the admin is told. A ban tells what became of the billing; a cancellation
\* is an error on any failure, and when there was nothing to cancel.
banBillingOutcome ==
  IF tally.failures > 0
  THEN IF tally.flagged \union tally.already # {} THEN "partial" ELSE "failed"
  ELSE IF tally.flagged # {} THEN "scheduled"
  ELSE IF tally.already # {} THEN "already_scheduled" ELSE "absent"

cancelOutcome ==
  IF tally.failures > 0 THEN "error"
  ELSE IF tally.found = {} \/ tally.flagged \union tally.already = {} THEN "unknown"
  ELSE "canceled"

Answer ==
  /\ ask # "none" /\ ~doing
  /\ answer' = IF ask = "ban" THEN banBillingOutcome ELSE cancelOutcome
  /\ ask' = "none"
  /\ UNCHANGED <<worldVars, toFind, toList, toFlag, tally>>

\* The admin looks at it and asks again: what was flagged stays flagged.
Again ==
  /\ answer # "none"
  /\ answer' = "none" /\ tally' = EmptyTally
  /\ UNCHANGED <<worldVars, ask, toFind, toList, toFlag>>

\* A checkout under any of the person's customers; its webhook makes the row.
Checkout(p) ==
  /\ status[p] = "unborn"
  /\ status' = [status EXCEPT ![p] = "active"]
  /\ stored' = stored \union {PayerOf[p]}
  /\ touched' = touched \union {p}
  /\ UNCHANGED <<flagged, ask, toFind, toList, toFlag, tally, answer>>

\* Stripe moves a subscription: a charge fails or succeeds, or it ends.
StripeMoves(p) ==
  /\ status[p] \in {"active", "past_due"}
  /\ \E to \in {"active", "past_due", "canceled"} \ {status[p]} :
       /\ status' = [status EXCEPT ![p] = to]
       /\ touched' = IF to = "canceled" THEN touched \union {p} ELSE touched
  /\ UNCHANGED <<stored, flagged, ask, toFind, toList, toFlag, tally, answer>>

BillingNext ==
  \/ \E what \in Asks : Ask(what)
  \/ \E a \in Emails : FindCustomers(a)
  \/ \E c \in Customers : ListSubscriptions(c)
  \/ \E p \in Plans : FlagSubscription(p) \/ Checkout(p) \/ StripeMoves(p)
  \/ Answer \/ Again

BillingSpec == BillingInit /\ [][BillingNext]_billingVars

---------------------------------------------------------------------------
\* Properties.

\* An answer without a failure is true of Stripe: of the customers found, every
\* subscription that was there all along is set to end, in dunning or not, so a
\* ban answered "absent" leaves nobody being charged (flagSubscriptions).
BillingIsTrue ==
  answer \in {"scheduled", "already_scheduled", "absent", "canceled", "unknown"} =>
    \A c \in tally.found : subscriptionsFor(c) \subseteq flagged \union touched
=============================================================================

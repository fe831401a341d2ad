---------------------------- MODULE MemberAccess ----------------------------
(***************************************************************************)
(* One person's access over the life of their payments: several Stripe     *)
(* customers at one billing address, the five webhook handlers taken one   *)
(* event at a time, the retirement of duplicates, and the reconcile loop   *)
(* beside them. Stripe delivers what it has had no 200 for in any order.   *)
(*                                                                         *)
(* InviteDelivery tells how a link is issued once; here a link is minted   *)
(* with its row, then mailed. A handler's step is the code between two     *)
(* awaits. Time is in the expiries alone: a paid window does not run out   *)
(* while the subscription lives and its invoices are handled.              *)
(***************************************************************************)
EXTENDS Naturals, Sequences, FiniteSets

CONSTANTS Customers,     \* the person's Stripe customers
          Servers,       \* Plex servers, one Wizarr record on each
          Covered,       \* the servers of the tier paid for
          Before,        \* servers they may hold a record on before any checkout
          EmailMatches,  \* whether they watch under their billing address
          Reconciles,    \* whether the reconcile loop runs
          MaxInvoices,   \* renewal invoices per customer
          MaxBacklog,    \* events Stripe can owe at once
          MaxTags,       \* times the admin tags them
          MaxFaults,     \* handlers that fail on an outage or a crash
          None

ASSUME AccessAssumption ==
  /\ Covered \subseteq Servers
  /\ Before \subseteq Servers
  /\ EmailMatches \in BOOLEAN /\ Reconciles \in BOOLEAN
  /\ MaxInvoices \in Nat /\ MaxBacklog \in Nat /\ MaxTags \in Nat /\ MaxFaults \in Nat
  /\ None \notin Customers

\* The operations links are issued for; invoice 0 is the signup's own.
Checkouts == {<<c, 0>> : c \in Customers}
Recoveries == {<<c, n>> : c \in Customers, n \in 1..MaxInvoices}
Operations == Checkouts \union Recoveries

Event(type, c, n) == [type |-> type, cust |-> c, n |-> n]
Events == [type : {"checkout", "paid", "failed", "past_due", "active", "deleted"},
           cust : Customers, n : 0..MaxInvoices]

VARIABLES
  sub,         \* Stripe: each customer's subscription
  invoices,    \* Stripe: renewal invoices each customer has paid
  owed,        \* events Stripe has had no 200 for
  rows,        \* customer_map's customers, oldest row first
  code,        \* invite_code of each row, as the operation it was minted for
  subscribed,  \* rows whose subscribed flag is on
  dunning,     \* rows whose payment_state is past_due
  link,        \* each operation's link
  rec,         \* the person's Wizarr record on each server
  tag,         \* the admin's tag on the person
  job,         \* the running webhook handler
  loop,        \* the reconcile loop
  faults, tags,
  grant        \* history: tagged VIP while no handler and no sweep was running

stripeVars == <<sub, invoices>>
storeVars == <<rows, code, subscribed, dunning>>
wizarrVars == <<link, rec>>
adminVars == <<tag, tags, grant>>
vars == <<stripeVars, owed, storeVars, wizarrVars, adminVars, job, loop, faults>>

Held == {s \in Servers : rec[s] # "none"}
Unlimited == {s \in Servers : rec[s] = "unlimited"}

\* isLiveStatus, and isDunningStatus: what a subscription's status means.
Live == {c \in Customers : sub[c] = "live"}
Retried == {c \in Customers : sub[c] = "dunning"}

\* What the admin's tag changes.
isBanned == tag = "banned"
holdsStandingGrant == tag = "vip"
isTimeBoxed == ~isBanned /\ ~holdsStandingGrant

Rows == {rows[i] : i \in 1..Len(rows)}
Used == {o \in Operations : link[o] = "used"}

\* The row that answers for the address: the newest customer's.
newestRow == rows[Len(rows)]

Idle == [stage |-> "idle"]
JobStages == {"sibling", "snapshot", "issue", "mail", "retireList", "retire", "reset", "work"}

\* held, used: the records and redeemed links of the snapshot, and valid those
\* of its record ids that still exist.
Jobs == [stage : JobStages, event : Events, vip : BOOLEAN, paying : Customers \union {None},
         held : SUBSET Servers, valid : SUBSET Servers, used : SUBSET Operations,
         retire : SUBSET Customers, disable : SUBSET Servers, stamp : SUBSET Servers]
Loops == [stage : {"statuses", "sweep", "reading", "stamping"},
          status : [Customers -> {"none", "live", "dunning", "canceled"}],
          timeBoxed : BOOLEAN, code : Operations \union {None},
          valid : SUBSET Servers, stamp : SUBSET Servers]

TypeOK ==
  /\ sub \in [Customers -> {"none", "live", "dunning", "canceled"}]
  /\ invoices \in [Customers -> 0..MaxInvoices]
  /\ owed \subseteq Events
  /\ rows \in Seq(Customers) /\ Len(rows) = Cardinality(Rows)
  /\ code \in [Customers -> Operations \union {None}]
  /\ subscribed \subseteq Customers
  /\ dunning \subseteq Customers
  /\ link \in [Operations -> {"none", "minted", "sent", "used", "dead"}]
  /\ rec \in [Servers -> {"none", "grace", "unlimited", "window"}]
  /\ tag \in {"none", "vip", "banned"}
  /\ job \in Jobs \union {Idle}
  /\ loop \in Loops \union {Idle}
  /\ faults \in 0..MaxFaults
  /\ tags \in 0..MaxTags
  /\ grant \in BOOLEAN

Init ==
  /\ sub = [c \in Customers |-> "none"]
  /\ invoices = [c \in Customers |-> 0]
  /\ owed = {}
  /\ rows = <<>>
  /\ code = [c \in Customers |-> None]
  /\ subscribed = {}
  /\ dunning = {}
  /\ link = [o \in Operations |-> "none"]
  /\ \E old \in {{}, Before} : rec = [s \in Servers |-> IF s \in old THEN "grace" ELSE "none"]
  /\ tag = "none"
  /\ job = Idle
  /\ loop = Idle
  /\ faults = 0
  /\ tags = 0
  /\ grant = FALSE

---------------------------------------------------------------------------
\* Stripe.

Emit(new) ==
  /\ new \intersect owed = {}
  /\ Cardinality(owed \union new) <= MaxBacklog
  /\ owed' = owed \union new

Becomes(c, status) == sub' = [sub EXCEPT ![c] = status]

Subscribe(c) ==
  /\ sub[c] = "none"
  /\ Becomes(c, "live")
  /\ Emit({Event("checkout", c, 0), Event("paid", c, 0)})
  /\ UNCHANGED <<invoices, storeVars, wizarrVars, adminVars, job, loop, faults>>

NextInvoice(c) ==
  /\ invoices[c] < MaxInvoices
  /\ invoices' = [invoices EXCEPT ![c] = @ + 1]

Renew(c) ==
  /\ sub[c] = "live"
  /\ NextInvoice(c)
  /\ Emit({Event("paid", c, invoices'[c])})
  /\ UNCHANGED <<sub, storeVars, wizarrVars, adminVars, job, loop, faults>>

\* A declined charge; the one event stands for each of Stripe's retries.
ChargeFails(c) ==
  /\ sub[c] = "live"
  /\ Becomes(c, "dunning")
  /\ Emit({Event("failed", c, 0), Event("past_due", c, 0)})
  /\ UNCHANGED <<invoices, storeVars, wizarrVars, adminVars, job, loop, faults>>

Recover(c) ==
  /\ sub[c] = "dunning"
  /\ NextInvoice(c)
  /\ Becomes(c, "live")
  /\ Emit({Event("paid", c, invoices'[c]), Event("active", c, 0)})
  /\ UNCHANGED <<storeVars, wizarrVars, adminVars, job, loop, faults>>

\* The member cancels, or Stripe's retries run out.
Cancel(c) ==
  /\ sub[c] \in {"live", "dunning"}
  /\ Becomes(c, "canceled")
  /\ Emit({Event("deleted", c, 0)})
  /\ UNCHANGED <<invoices, storeVars, wizarrVars, adminVars, job, loop, faults>>

---------------------------------------------------------------------------
\* Wizarr and the admin.

\* Record ids that no longer exist, as a run that read them meets them.
Losing(run, gone) == IF run.stage \in {"sweep", "statuses", "idle"} THEN run
                     ELSE [run EXCEPT !.valid = @ \ gone]

\* Without a record nothing says who redeemed a link.
DropRecord(s) ==
  /\ rec' = [rec EXCEPT ![s] = "none"]
  /\ link' = [o \in Operations |->
       IF Held = {s} /\ link[o] = "used" THEN "dead" ELSE link[o]]

\* The member opens a link: the covered servers' records are made anew, with no
\* expiry, and an earlier link's redeemer is gone with the old ones.
Redeem(o) ==
  /\ link[o] = "sent"
  /\ link' = [p \in Operations |-> IF p = o THEN "used"
                                  ELSE IF link[p] = "used" THEN "dead" ELSE link[p]]
  /\ rec' = [s \in Servers |-> IF s \in Covered THEN "unlimited" ELSE rec[s]]
  /\ job' = Losing(job, Covered)
  /\ loop' = Losing(loop, Covered)
  /\ UNCHANGED <<stripeVars, owed, storeVars, adminVars, faults>>

\* A payment is owed that the record's expiry waits for: the checkout that
\* re-stamps a grace window, or the renewal that extends a paid one. One the
\* running handler has just stamped waits for nothing.
Overdue(s) ==
  /\ \E e \in owed : IF rec[s] = "grace" THEN e.type = "checkout"
                                         ELSE e.type = "paid" /\ e.n > 0
  /\ ~ (job.stage = "work" /\ s \notin job.stamp)

\* A window runs out: nobody pays for it, or the payment is yet to be handled.
Lapse(s) ==
  /\ rec[s] \in {"grace", "window"}
  /\ Live = {} \/ Overdue(s)
  /\ DropRecord(s)
  /\ job' = Losing(job, {s})
  /\ loop' = Losing(loop, {s})
  /\ UNCHANGED <<stripeVars, owed, storeVars, adminVars, faults>>

setTag(t) ==
  /\ tags < MaxTags
  /\ tag # t
  /\ tag' = t
  /\ tags' = tags + 1
  /\ grant' = (t = "vip" /\ job = Idle /\ loop.stage \notin {"reading", "stamping"})
  /\ UNCHANGED <<stripeVars, owed, storeVars, wizarrVars, job, loop, faults>>
---------------------------------------------------------------------------
\* The webhook handlers.

stage(at) == job.stage = at
Payer == job.event.cust
IsType(type) == job.event.type = type
At(next) == job' = [job EXCEPT !.stage = next]

\* The event is marked processed and answered.
Done(e) == owed' = owed \ {e} /\ job' = Idle

Starts(e, at) ==
  job' = [stage |-> at, event |-> e, vip |-> FALSE, paying |-> None,
          held |-> {}, valid |-> {}, used |-> {}, retire |-> {}, disable |-> {}, stamp |-> {}]

Takes(e, types) == job = Idle /\ e \in owed /\ e.type \in types

\* Mutant: Stripe is never asked about a person's other customers.
siblingsUnasked(c) == {}

\* customerIdsForEmail, without the customer the event is about.
siblings(c) == Rows \ {c}

\* resolveIdentity: a snapshot's records, under the address itself or through
\* the invite now stored against the customer.
resolveIdentity(snapshot) ==
  IF EmailMatches \/ code[Payer] \in snapshot.used THEN snapshot.held ELSE {}

setSubscribed(value) == subscribed' = IF value THEN Rows ELSE {}
setPaymentState(pastDue) == dunning' = IF pastDue THEN Rows ELSE {}

CheckoutStarts(e) ==
  /\ Takes(e, {"checkout"})
  /\ Starts(e, "snapshot")
  /\ UNCHANGED <<stripeVars, owed, storeVars, wizarrVars, adminVars, loop, faults>>

\* The signup's own invoice settles the dunning flag and nothing else.
PaidStarts(e) ==
  /\ Takes(e, {"paid"})
  /\ setPaymentState(FALSE)
  /\ IF e.n = 0 THEN Done(e) ELSE Starts(e, "snapshot") /\ UNCHANGED owed
  /\ UNCHANGED <<stripeVars, rows, code, subscribed, wizarrVars, adminVars, loop, faults>>

\* liveSiblingCustomer asks Stripe only when there is a sibling to ask about.
FailedStarts(e) ==
  /\ Takes(e, {"failed"})
  /\ IF siblings(e.cust) = {} THEN setPaymentState(TRUE) /\ Done(e)
                              ELSE Starts(e, "sibling") /\ UNCHANGED <<dunning, owed>>
  /\ UNCHANGED <<stripeVars, rows, code, subscribed, wizarrVars, adminVars, loop, faults>>

onSubscriptionUpdated(e) ==
  /\ Takes(e, {"past_due", "active"})
  /\ setPaymentState(e.type = "past_due")
  /\ Done(e)
  /\ UNCHANGED <<stripeVars, rows, code, subscribed, wizarrVars, adminVars, loop, faults>>

DeletedStarts(e) ==
  /\ Takes(e, {"deleted"})
  /\ IF siblings(e.cust) = {} THEN setSubscribed(FALSE) /\ Starts(e, "snapshot")
                              ELSE Starts(e, "sibling") /\ UNCHANGED subscribed
  /\ UNCHANGED <<stripeVars, owed, rows, code, dunning, wizarrVars, adminVars, loop, faults>>

\* Stripe has said which siblings still pay; p is the one that counts. A failed
\* charge beside a paying sibling is a duplicate to retire.
SiblingFound(p) ==
  /\ stage("sibling")
  /\ p \in siblings(Payer) \intersect Live
  /\ IF IsType("failed") THEN UNCHANGED dunning ELSE setPaymentState(FALSE)
  /\ job' = [job EXCEPT !.paying = p,
                        !.stage = IF IsType("failed") THEN "retireList" ELSE "snapshot"]
  /\ UNCHANGED <<stripeVars, owed, rows, code, subscribed, wizarrVars, adminVars, loop, faults>>

NoSiblingPays ==
  /\ stage("sibling")
  /\ siblings(Payer) \intersect Live = {}
  /\ IF IsType("failed")
     THEN setPaymentState(TRUE) /\ Done(job.event) /\ UNCHANGED subscribed
     ELSE setSubscribed(FALSE) /\ At("snapshot") /\ UNCHANGED <<dunning, owed>>
  /\ UNCHANGED <<stripeVars, rows, code, wizarrVars, adminVars, loop, faults>>

\* A banned member's checkout is recorded, alerted and answered: no invite.
blockBannedCheckout == isBanned /\ Done(job.event)

\* The snapshot is in and the tag is read. What each handler goes on to:
\* a checkout issues its link.
CheckoutJudged(seen) ==
  /\ \/ blockBannedCheckout
     \/ ~isBanned /\ job' = [seen EXCEPT !.stage = "issue"] /\ UNCHANGED owed
  /\ UNCHANGED subscribed

\* What is left to do once every decision is taken.
Work(seen, disable, stamp) ==
  [seen EXCEPT !.stage = "work", !.vip = FALSE, !.paying = None, !.held = {}, !.used = {},
               !.disable = disable, !.stamp = stamp]

\* Mutant: a payment that finds no records is only acknowledged.
PaidJudgedUnrestored(seen, found) ==
  /\ IF isBanned THEN UNCHANGED subscribed ELSE setSubscribed(TRUE)
  /\ IF isBanned \/ holdsStandingGrant \/ found = {}
     THEN Done(job.event)
     ELSE job' = Work(seen, {}, found) /\ UNCHANGED owed

\* A paid-up member without records is owed a link for this invoice: it is
\* issued and mailed as a checkout's is.
restoreAccess == [job EXCEPT !.stage = "issue"]

\* A renewal stamps the records found, and restores access when there are none.
PaidJudged(seen, found) ==
  /\ IF isBanned THEN UNCHANGED subscribed ELSE setSubscribed(TRUE)
  /\ IF isBanned \/ holdsStandingGrant
     THEN Done(job.event)
     ELSE job' = (IF found = {} THEN restoreAccess ELSE Work(seen, {}, found)) /\ UNCHANGED owed

\* Mutant: a cancellation disables a VIP's records like anyone's.
DeletedJudgedVip(seen, found) ==
  /\ IF job.paying # None
     THEN Done(job.event)
     ELSE job' = Work(seen, found, {}) /\ UNCHANGED owed
  /\ UNCHANGED subscribed

\* A cancellation disables the records, unless they are a VIP's or paid for.
DeletedJudged(seen, found) ==
  /\ IF holdsStandingGrant \/ job.paying # None
     THEN Done(job.event)
     ELSE job' = Work(seen, found, {}) /\ UNCHANGED owed
  /\ UNCHANGED subscribed

\* identitySnapshot has answered, and the person is resolved in it.
SnapshotRead ==
  LET seen  == [job EXCEPT !.held = Held, !.valid = Held, !.used = Used,
                            !.vip = holdsStandingGrant]
      found == resolveIdentity(seen)
  IN /\ stage("snapshot")
     /\ CASE IsType("checkout") -> CheckoutJudged(seen)
          [] IsType("paid")     -> PaidJudged(seen, found)
          [] IsType("deleted")  -> DeletedJudged(seen, found)
     /\ UNCHANGED <<stripeVars, rows, code, dunning, wizarrVars, adminVars, loop, faults>>

---------------------------------------------------------------------------
\* Issuing a link, and what follows it.

\* issueInvite: a link is minted once per operation, and the customer's row
\* points at it. A checkout also says the customer has paid.
Issue ==
  LET op == <<Payer, job.event.n>>
  IN /\ stage("issue")
     /\ link' = [link EXCEPT ![op] = IF @ = "none" THEN "minted" ELSE @]
     /\ code' = [code EXCEPT ![Payer] = op]
     /\ rows' = IF Payer \in Rows THEN rows ELSE Append(rows, Payer)
     /\ subscribed' = subscribed \union {Payer}
     /\ IF IsType("checkout") THEN dunning' = {} ELSE UNCHANGED dunning
     /\ At("mail")
     /\ UNCHANGED <<stripeVars, owed, rec, adminVars, loop, faults>>

\* deliverInvite: an operation's link is mailed once.
Mail ==
  LET op == <<Payer, job.event.n>>
  IN /\ stage("mail")
     /\ link' = [link EXCEPT ![op] = IF @ = "minted" THEN "sent" ELSE @]
     /\ IF IsType("paid")
        THEN Done(job.event)
        ELSE job' = [job EXCEPT !.stage = "retireList", !.paying = Payer] /\ UNCHANGED owed
     /\ UNCHANGED <<stripeVars, storeVars, rec, adminVars, loop, faults>>

\* cancelAndVoid: the dunning subscriptions are listed, then cancelled in turn.
RetireListed ==
  /\ stage("retireList")
  /\ job' = [job EXCEPT !.stage = "retire",
                        !.retire = Retried \ {job.paying}]
  /\ UNCHANGED <<stripeVars, owed, storeVars, wizarrVars, adminVars, loop, faults>>

\* cancelNow: Stripe cancels what is not cancelled yet, and fails on what is,
\* which ends the retirement and not the handler.
cancelNow(c) ==
  /\ stage("retire")
  /\ c \in job.retire
  /\ IF sub[c] = "canceled"
     THEN job' = [job EXCEPT !.retire = {}] /\ UNCHANGED <<sub, owed>>
     ELSE /\ Becomes(c, "canceled")
          /\ owed' = owed \union {Event("deleted", c, 0)}
          /\ job' = [job EXCEPT !.retire = @ \ {c}]
  /\ UNCHANGED <<invoices, storeVars, wizarrVars, adminVars, loop, faults>>

\* retireDuplicates swallows an outage.
RetireGivesUp ==
  /\ job.stage \in {"retireList", "retire"}
  /\ faults < MaxFaults
  /\ faults' = faults + 1
  /\ job' = [job EXCEPT !.stage = "retire", !.retire = {}]
  /\ UNCHANGED <<stripeVars, owed, storeVars, wizarrVars, adminVars, loop>>

\* staleRecordIds, and every record when they were not found by address.
staleRecords(found) ==
  IF EmailMatches /\ found \subseteq Covered THEN {} ELSE found

\* Then a failed charge is done with, and so is a VIP's checkout; anyone else's
\* resets the records they had.
RetireDone ==
  /\ stage("retire")
  /\ job.retire = {}
  /\ IF IsType("failed") \/ job.vip
     THEN Done(job.event)
     ELSE /\ job' = LET found == resolveIdentity(job)
                        stale == staleRecords(found)
                    IN Work(job, stale, found \ stale)
          /\ UNCHANGED owed
  /\ UNCHANGED <<stripeVars, storeVars, wizarrVars, adminVars, loop, faults>>

disableUser(s) ==
  /\ stage("work")
  /\ s \in job.disable \intersect job.valid
  /\ DropRecord(s)
  /\ job' = [job EXCEPT !.disable = @ \ {s}]
  /\ loop' = Losing(loop, {s})
  /\ UNCHANGED <<stripeVars, owed, storeVars, adminVars, faults>>

setExpiry(s) ==
  /\ stage("work")
  /\ job.disable = {}
  /\ s \in job.stamp \intersect job.valid
  /\ rec' = [rec EXCEPT ![s] = "window"]
  /\ job' = [job EXCEPT !.stamp = @ \ {s}]
  /\ UNCHANGED <<stripeVars, owed, storeVars, link, adminVars, loop, faults>>

WorkDone ==
  /\ stage("work")
  /\ job.disable = {} /\ job.stamp = {}
  /\ Done(job.event)
  /\ UNCHANGED <<stripeVars, storeVars, wizarrVars, adminVars, loop, faults>>

\* A call names a record that is gone: the handler throws, and Stripe retries.
CallOnGoneRecord ==
  /\ stage("work")
  /\ (job.disable \union job.stamp) \ job.valid # {}
  /\ job' = Idle
  /\ UNCHANGED <<stripeVars, owed, storeVars, wizarrVars, adminVars, loop, faults>>

\* An outage or a crash: the event is unmarked, and Stripe retries.
HandlerFails ==
  /\ job # Idle
  /\ faults < MaxFaults
  /\ faults' = faults + 1
  /\ job' = Idle
  /\ UNCHANGED <<stripeVars, owed, storeVars, wizarrVars, adminVars, loop>>
---------------------------------------------------------------------------
\* The reconcile loop: checkPaymentStates, then reconcilePendingExpiries.

looping(at) == loop.stage = at

Loop(at, status) == [stage |-> at, status |-> status, timeBoxed |-> FALSE, code |-> None,
                     valid |-> {}, stamp |-> {}]

\* checkPaymentStates is over, and its list with it.
Sweep == Loop("sweep", [c \in Customers |-> "none"])

\* Stripe lists its subscriptions.
StatusesRead ==
  /\ Reconciles
  /\ loop = Idle
  /\ loop' = Loop("statuses", sub)
  /\ UNCHANGED <<stripeVars, owed, storeVars, wizarrVars, adminVars, job, faults>>

\* Mutant: the sweep only ever raises the flag.
checkPaymentStatesRaises ==
  /\ looping("statuses")
  /\ IF rows # <<>> /\ newestRow \in subscribed /\ loop.status[newestRow] = "dunning"
     THEN setPaymentState(TRUE)
     ELSE UNCHANGED dunning
  /\ loop' = Sweep
  /\ UNCHANGED <<stripeVars, owed, rows, code, subscribed, wizarrVars, adminVars, job, faults>>

\* The list has arrived, and the newest row's customer decides the flag.
checkPaymentStates ==
  /\ looping("statuses")
  /\ IF rows # <<>> /\ newestRow \in subscribed /\ loop.status[newestRow] \in {"live", "dunning"}
     THEN setPaymentState(loop.status[newestRow] = "dunning")
     ELSE UNCHANGED dunning
  /\ loop' = Sweep
  /\ UNCHANGED <<stripeVars, owed, rows, code, subscribed, wizarrVars, adminVars, job, faults>>

\* The rows and the tags are read before the snapshot.
SweepStarts ==
  /\ looping("sweep")
  /\ loop' = IF rows # <<>> /\ newestRow \in subscribed
             THEN [loop EXCEPT !.stage = "reading", !.timeBoxed = isTimeBoxed,
                               !.code = code[newestRow]]
             ELSE Idle
  /\ UNCHANGED <<stripeVars, owed, storeVars, wizarrVars, adminVars, job, faults>>

\* Mutant: the sweep finds people by the row's invite alone.
SweepReadsByInvite ==
  /\ looping("reading")
  /\ loop' = [Sweep EXCEPT !.stage = "stamping", !.valid = Held,
       !.stamp = IF loop.timeBoxed /\ loop.code \in Used THEN Unlimited ELSE {}]
  /\ UNCHANGED <<stripeVars, owed, storeVars, wizarrVars, adminVars, job, faults>>

\* unstampedRecords, of a person found by address or by the row's invite.
SweepReads ==
  /\ looping("reading")
  /\ loop' = [Sweep EXCEPT !.stage = "stamping", !.valid = Held,
       !.stamp = IF loop.timeBoxed /\ (EmailMatches \/ loop.code \in Used) THEN Unlimited ELSE {}]
  /\ UNCHANGED <<stripeVars, owed, storeVars, wizarrVars, adminVars, job, faults>>

SweepStamps(s) ==
  /\ looping("stamping")
  /\ s \in loop.stamp \intersect loop.valid
  /\ rec' = [rec EXCEPT ![s] = "window"]
  /\ loop' = [loop EXCEPT !.stamp = @ \ {s}]
  /\ UNCHANGED <<stripeVars, owed, storeVars, link, adminVars, job, faults>>

\* Every record is stamped, or the next one is gone and the sweep throws.
SweepEnds ==
  /\ looping("stamping")
  /\ loop.stamp = {} \/ loop.stamp \ loop.valid # {}
  /\ loop' = Idle
  /\ UNCHANGED <<stripeVars, owed, storeVars, wizarrVars, adminVars, job, faults>>

\* Each pass is guarded: a failed list still leaves the sweep to run.
PassFails ==
  /\ loop # Idle
  /\ faults < MaxFaults
  /\ faults' = faults + 1
  /\ loop' = IF looping("statuses") THEN Sweep ELSE Idle
  /\ UNCHANGED <<stripeVars, owed, storeVars, wizarrVars, adminVars, job>>

---------------------------------------------------------------------------
Starting(e) == CheckoutStarts(e) \/ PaidStarts(e) \/ FailedStarts(e)
               \/ onSubscriptionUpdated(e) \/ DeletedStarts(e)

\* handleEvent at work, in the absence of faults.
Handling ==
  \/ \E e \in owed : Starting(e)
  \/ \E c \in Customers : SiblingFound(c) \/ cancelNow(c)
  \/ NoSiblingPays \/ SnapshotRead \/ Issue \/ Mail \/ RetireListed \/ RetireDone
  \/ \E s \in Servers : disableUser(s) \/ setExpiry(s)
  \/ WorkDone \/ CallOnGoneRecord

\* reconcileOnce at work.
Reconciling ==
  \/ StatusesRead \/ checkPaymentStates \/ SweepStarts \/ SweepReads
  \/ \E s \in Servers : SweepStamps(s)
  \/ SweepEnds

Stripe == \E c \in Customers :
            Subscribe(c) \/ Renew(c) \/ ChargeFails(c) \/ Recover(c) \/ Cancel(c)

Next ==
  \/ Handling
  \/ Reconciling
  \/ Stripe
  \/ \E o \in Operations : Redeem(o)
  \/ \E s \in Servers : Lapse(s)
  \/ \E t \in {"none", "vip", "banned"} : setTag(t)
  \/ HandlerFails \/ RetireGivesUp \/ PassFails

Spec == Init /\ [][Next]_vars

\* Stripe redelivers what it is owed for, and the loop reschedules itself.
FairSpec == Spec /\ WF_vars(Handling) /\ WF_vars(Reconciling)

---------------------------------------------------------------------------
\* The person on the portal's page. An expiry that has passed took its record with
\* it, and an invite that is out is not yet declined.

deriveStatus ==
  IF isBanned THEN "Banned"
  ELSE IF holdsStandingGrant THEN "VIP"
  ELSE IF Rows = {} THEN "Uninvited"
  ELSE IF newestRow \in dunning THEN "Payment Failed"
  ELSE IF newestRow \in subscribed THEN "Subscribed Monthly" ELSE "Invited"

\* Statuses under which holding no record is a lockout.
ACCESS_EXPECTED == {"Subscribed Monthly", "Payment Failed", "VIP"}

deriveProblems ==
  [paymentFailed |-> deriveStatus # "Banned" /\ Rows # {} /\ newestRow \in dunning,
   noAccess      |-> Held = {} /\ deriveStatus \in ACCESS_EXPECTED]

---------------------------------------------------------------------------
\* Nothing is being handled or owed, and no admin has stepped in.
Quiet == owed = {} /\ job = Idle /\ tags = 0

\* Whoever pays can watch: once every event is handled, a person with a live
\* subscription holds a record, or an invite they have not used yet. Renewals,
\* cancellations, retirements and restored access race for this.
PaidMemberHasAWayIn ==
  Quiet /\ Live # {} => Held # {} \/ \E o \in Operations : link[o] = "sent"

\* The sweeps look after whoever the store calls subscribed: once every event
\* is handled, that includes a person Stripe still charges, whichever of their
\* customers died and in whatever order the bridge heard of it. And their page
\* calls them locked out exactly when they are, so neither a dead customer's
\* cancellation nor a late failure makes a paid-up lockout read as nothing owed.
PayerReadsAsPaying ==
  Quiet /\ Live \intersect Rows # {} =>
    newestRow \in subscribed /\ (deriveProblems.noAccess <=> Held = {})

\* A VIP's access is a standing grant: while they are tagged, no handler and no
\* sweep disables or time-boxes a record without an expiry.
VipLeftAlone ==
  [][tag = "vip" /\ grant /\ grant' => \A s \in Unlimited : rec'[s] = "unlimited"]_vars

\* The dunning flag comes to agree with Stripe, however its events were lost,
\* delayed or reordered against the sweep's own reading.
DunningFlagSettles ==
  <>[](rows # <<>> /\ newestRow \in subscribed /\ sub[newestRow] \in {"live", "dunning"}
         => (newestRow \in dunning <=> sub[newestRow] = "dunning"))

\* No subscribed member without a tag keeps a record without an expiry.
UnlimitedIsBoxed ==
  <>[](rows # <<>> /\ newestRow \in subscribed /\ tag = "none" => Unlimited = {})

---------------------------------------------------------------------------
\* What the repository says of access, and the code does not keep.

\* "Records that already carry an expiry are never touched": the sweep stamps
\* only records without one.
SweepKeepsExpiries ==
  [][\A s \in Servers :
       looping("stamping") /\ loop'.stage = "stamping" /\ s \in loop.stamp \ loop'.stamp
         => rec[s] = "unlimited"]_vars
=============================================================================

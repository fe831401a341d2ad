------------------------- MODULE MemberAccess_proofs -------------------------
(***************************************************************************)
(* Proofs about MemberAccess, for any customers, servers and bounds.       *)
(***************************************************************************)
EXTENDS MemberAccess, FiniteSetTheorems, TLAPS

SubStatuses == {"none", "live", "dunning", "canceled"}

---------------------------------------------------------------------------
\* What each step leaves alone.

\* The steps that do more to the store, the links and the records than a handler
\* does on its way from one await to the next.
Marks == \E e \in owed : PaidStarts(e) \/ FailedStarts(e) \/ onSubscriptionUpdated(e)
                         \/ DeletedStarts(e)
Judges == NoSiblingPays \/ (\E p \in Customers : SiblingFound(p)) \/ SnapshotRead
Records == \E s \in Servers : disableUser(s) \/ setExpiry(s) \/ SweepStamps(s) \/ Lapse(s)

\* Who writes what.
LEMMA Writers ==
  ASSUME [Next]_vars
  PROVE  /\ Stripe \/ UNCHANGED invoices
         /\ Stripe \/ (\E c \in Customers : cancelNow(c)) \/ UNCHANGED sub
         /\ Issue \/ UNCHANGED <<rows, code>>
         /\ Marks \/ Judges \/ Issue \/ UNCHANGED subscribed
         /\ Marks \/ Judges \/ Issue \/ checkPaymentStates \/ UNCHANGED dunning
         /\ Issue \/ Mail \/ (\E o \in Operations : Redeem(o)) \/ Records \/ UNCHANGED link
         /\ (\E o \in Operations : Redeem(o)) \/ Records \/ UNCHANGED rec
         /\ (\E t \in {"none", "vip", "banned"} : setTag(t)) \/ UNCHANGED adminVars
         /\ HandlerFails \/ RetireGivesUp \/ PassFails \/ UNCHANGED faults
<1>1. CASE Stripe
  BY <1>1 DEF Stripe, Subscribe, Renew, ChargeFails, Recover, Cancel, storeVars, wizarrVars, adminVars
<1>2. CASE Reconciling
  BY <1>2 DEF Reconciling, StatusesRead, checkPaymentStates, SweepStarts, SweepReads, SweepStamps,
              SweepEnds, stripeVars, storeVars, wizarrVars, adminVars, Records
<1>3. CASE \E o \in Operations : Redeem(o)
  BY <1>3 DEF Redeem, stripeVars, storeVars, adminVars
<1>4. CASE \E s \in Servers : Lapse(s)
  BY <1>4 DEF Lapse, stripeVars, storeVars, adminVars, Records
<1>5. CASE \E t \in {"none", "vip", "banned"} : setTag(t)
  BY <1>5 DEF setTag, stripeVars, storeVars, wizarrVars
<1>6. CASE HandlerFails \/ RetireGivesUp \/ PassFails
  BY <1>6 DEF HandlerFails, RetireGivesUp, PassFails, stripeVars, storeVars, wizarrVars, adminVars
<1>7. CASE UNCHANGED vars
  BY <1>7 DEF vars, stripeVars, storeVars, wizarrVars, adminVars
<1>8. CASE Handling
  <2>1. CASE \E e \in owed : CheckoutStarts(e)
    BY <2>1 DEF CheckoutStarts, stripeVars, storeVars, wizarrVars, adminVars
  <2>2. CASE Marks
    BY <2>2 DEF Marks, PaidStarts, FailedStarts, onSubscriptionUpdated, DeletedStarts, stripeVars,
                storeVars, wizarrVars, adminVars
  <2>3. CASE Judges
    <3>1. CASE SnapshotRead
      BY <2>3, <3>1 DEF SnapshotRead, stripeVars, storeVars, wizarrVars, adminVars
    <3>2. CASE NoSiblingPays
      BY <2>3, <3>2 DEF NoSiblingPays, stripeVars, storeVars, wizarrVars, adminVars
    <3>3. CASE \E p \in Customers : SiblingFound(p)
      BY <2>3, <3>3 DEF SiblingFound, stripeVars, storeVars, wizarrVars, adminVars
    <3>4. QED
      BY <2>3, <3>1, <3>2, <3>3 DEF Judges
  <2>4. CASE \E c \in Customers : cancelNow(c)
    BY <2>4 DEF cancelNow, storeVars, wizarrVars, adminVars
  <2>5. CASE Issue \/ Mail
    BY <2>5 DEF Issue, Mail, stripeVars, storeVars, adminVars
  <2>6. CASE RetireListed \/ RetireDone \/ WorkDone \/ CallOnGoneRecord
    BY <2>6 DEF RetireListed, RetireDone, WorkDone, CallOnGoneRecord, stripeVars, storeVars,
                wizarrVars, adminVars
  <2>7. CASE \E s \in Servers : disableUser(s) \/ setExpiry(s)
    BY <2>7 DEF disableUser, setExpiry, stripeVars, storeVars, adminVars, Records
  <2>8. QED
    BY <1>8, <2>1, <2>2, <2>3, <2>4, <2>5, <2>6, <2>7 DEF Handling, Starting, Marks, Judges
<1>9. QED
  BY <1>1, <1>2, <1>3, <1>4, <1>5, <1>6, <1>7, <1>8 DEF Next

---------------------------------------------------------------------------
\* Types.

StripeOK == sub \in [Customers -> SubStatuses] /\ invoices \in [Customers -> 0..MaxInvoices]
RowsOK == rows \in Seq(Customers) /\ IsFiniteSet(Rows) /\ Len(rows) = Cardinality(Rows)
StoreOK ==
  /\ code \in [Customers -> Operations \union {None}]
  /\ subscribed \subseteq Customers /\ dunning \subseteq Customers
WizarrOK ==
  /\ link \in [Operations -> {"none", "minted", "sent", "used", "dead"}]
  /\ rec \in [Servers -> {"none", "grace", "unlimited", "window"}]
CountsOK ==
  /\ tag \in {"none", "vip", "banned"} /\ grant \in BOOLEAN
  /\ tags \in 0..MaxTags /\ faults \in 0..MaxFaults

\* The types of event each of a handler's stages is for.
TypesAt(at) ==
  CASE at = "sibling" -> {"failed", "deleted"}
    [] at \in {"snapshot", "work"} -> {"checkout", "paid", "deleted"}
    [] at \in {"issue", "mail"} -> {"checkout", "paid"}
    [] at \in {"retireList", "retire"} -> {"checkout", "failed"}

\* The running handler's event is still owed, and of a type its stage is for.
JobOK == job = Idle \/ (job \in Jobs /\ job.event \in owed /\ job.event.type \in TypesAt(job.stage))

Typed ==
  /\ StripeOK /\ owed \subseteq Events /\ RowsOK /\ StoreOK /\ WizarrOK /\ CountsOK
  /\ JobOK /\ loop \in Loops \union {Idle}

\* An event of Stripe's for a customer is an event.
LEMMA EventTyped ==
  ASSUME NEW type \in {"checkout", "paid", "failed", "past_due", "active", "deleted"},
         NEW c \in Customers, NEW n \in 0..MaxInvoices
  PROVE  Event(type, c, n) \in Events /\ Event(type, c, n).type = type
         /\ Event(type, c, n).cust = c /\ Event(type, c, n).n = n
BY DEF Event, Events

\* Each event names a customer and an operation of theirs.
LEMMA EventNames ==
  ASSUME NEW e \in Events
  PROVE  /\ e.cust \in Customers /\ e.n \in 0..MaxInvoices
         /\ e.type \in {"checkout", "paid", "failed", "past_due", "active", "deleted"}
         /\ <<e.cust, e.n>> \in Operations
<1>1. e.cust \in Customers /\ e.n \in 0..MaxInvoices
      /\ e.type \in {"checkout", "paid", "failed", "past_due", "active", "deleted"}
  BY DEF Events
<1>2. e.n = 0 \/ e.n \in 1..MaxInvoices
  BY <1>1, AccessAssumption
<1>3. CASE e.n = 0
  BY <1>1, <1>3 DEF Operations, Checkouts
<1>4. CASE e.n \in 1..MaxInvoices
  BY <1>1, <1>4 DEF Operations, Recoveries
<1>5. QED
  BY <1>1, <1>2, <1>3, <1>4

\* What the steps of Stripe do to what it keeps and to what it owes.
LEMMA StripeTyped ==
  ASSUME Typed, [Next]_vars, Stripe
  PROVE  StripeOK' /\ owed' \subseteq Events /\ owed \subseteq owed'
<1>0. /\ sub \in [Customers -> SubStatuses] /\ invoices \in [Customers -> 0..MaxInvoices]
      /\ owed \subseteq Events /\ MaxInvoices \in Nat
  BY AccessAssumption DEF Typed, StripeOK
<1> PICK c \in Customers : Subscribe(c) \/ Renew(c) \/ ChargeFails(c) \/ Recover(c) \/ Cancel(c)
  BY DEF Stripe
<1>1. 0 \in 0..MaxInvoices
  BY <1>0
<1>2. NextInvoice(c) => invoices' \in [Customers -> 0..MaxInvoices] /\ invoices'[c] \in 0..MaxInvoices
  BY <1>0 DEF NextInvoice
<1>3. CASE Subscribe(c)
  BY <1>0, <1>1, <1>3, EventTyped DEF Subscribe, Becomes, Emit, StripeOK, SubStatuses
<1>4. CASE Renew(c)
  BY <1>0, <1>2, <1>4, EventTyped DEF Renew, Emit, StripeOK
<1>5. CASE ChargeFails(c)
  BY <1>0, <1>1, <1>5, EventTyped DEF ChargeFails, Becomes, Emit, StripeOK, SubStatuses
<1>6. CASE Recover(c)
  <2>1. invoices' \in [Customers -> 0..MaxInvoices] /\ sub' \in [Customers -> SubStatuses]
    BY <1>0, <1>2, <1>6 DEF Recover, Becomes, SubStatuses
  <2>2. Event("paid", c, invoices'[c]) \in Events /\ Event("active", c, 0) \in Events
    BY <1>1, <1>2, <1>6, EventTyped DEF Recover
  <2>3. owed' = owed \union {Event("paid", c, invoices'[c]), Event("active", c, 0)}
    BY <1>6 DEF Recover, Emit
  <2>4. QED
    BY <1>0, <2>1, <2>2, <2>3 DEF StripeOK
<1>7. CASE Cancel(c)
  BY <1>0, <1>1, <1>7, EventTyped DEF Cancel, Becomes, Emit, StripeOK, SubStatuses
<1>8. QED
  BY <1>3, <1>4, <1>5, <1>6, <1>7

\* A running handler's stage is one of its own.
LEMMA Running ==
  ASSUME JobOK, job.stage # "idle"
  PROVE  /\ job \in Jobs /\ job.event \in owed /\ job.event.type \in TypesAt(job.stage)
         /\ job.stage \in JobStages
BY DEF JobOK, Idle, Jobs

\* An idle handler has no other stage.
LEMMA NotRunning == ASSUME JobOK, job = Idle PROVE job.stage = "idle"
  BY DEF Idle

\* The steps that start a handler.
LEMMA StartTyped ==
  ASSUME Typed, NEW e \in owed, Starting(e)
  PROVE  JobOK' /\ owed' \subseteq owed
<1>1. e \in Events
  BY DEF Typed
<1>2. ASSUME NEW at \in {"sibling", "snapshot"}, Starts(e, at), owed' = owed, e.type \in TypesAt(at)
      PROVE  JobOK'
  <2>1. job' \in Jobs /\ job'.event = e /\ job'.stage = at
    BY <1>1, <1>2 DEF Starts, Jobs, JobStages
  <2>2. QED
    BY <1>2, <2>1 DEF JobOK
<1>3. ASSUME Done(e) PROVE JobOK' /\ owed' \subseteq owed
  BY <1>3 DEF Done, JobOK
<1>4. CASE CheckoutStarts(e)
  BY <1>2, <1>4 DEF CheckoutStarts, Takes, TypesAt
<1>5. CASE PaidStarts(e)
  BY <1>2, <1>3, <1>5 DEF PaidStarts, Takes, TypesAt
<1>6. CASE FailedStarts(e)
  BY <1>2, <1>3, <1>6 DEF FailedStarts, Takes, TypesAt
<1>7. CASE onSubscriptionUpdated(e)
  BY <1>3, <1>7 DEF onSubscriptionUpdated
<1>8. CASE DeletedStarts(e)
  BY <1>2, <1>8 DEF DeletedStarts, Takes, TypesAt
<1>9. QED
  BY <1>4, <1>5, <1>6, <1>7, <1>8 DEF Starting

\* A handler that goes on is still well typed when its record is and its event fits.
LEMMA GoesOn ==
  ASSUME JobOK, job.stage # "idle", job' \in Jobs, job'.event = job.event,
         job.event \in owed', job.event.type \in TypesAt(job'.stage)
  PROVE  JobOK'
BY DEF JobOK

\* Records and snapshots are of the right sorts.
LEMMA Snapshots ==
  ASSUME Typed
  PROVE  /\ Held \in SUBSET Servers /\ Unlimited \in SUBSET Servers /\ Used \in SUBSET Operations
         /\ Retried \in SUBSET Customers
         /\ \A snapshot \in Jobs : resolveIdentity(snapshot) \in SUBSET Servers
<1>1. \A snapshot \in Jobs : snapshot.held \in SUBSET Servers
  BY DEF Jobs
<1>2. QED
  BY <1>1 DEF Held, Unlimited, Used, Retried, resolveIdentity

\* The steps from one await to the next that decide where a handler goes.
LEMMA JudgeTyped ==
  ASSUME Typed, Judges
  PROVE  JobOK' /\ owed' \subseteq owed
<1>0. JobOK /\ Held \in SUBSET Servers /\ Used \in SUBSET Operations
  BY Snapshots DEF Typed
<1>1. ASSUME Done(job.event) PROVE JobOK' /\ owed' \subseteq owed
  BY <1>1 DEF Done, JobOK
<1>2. CASE \E p \in Customers : SiblingFound(p)
  <2> PICK p \in Customers : SiblingFound(p)
    BY <1>2
  <2>1. job \in Jobs /\ job.stage = "sibling" /\ owed' = owed /\ job.event \in owed
        /\ job.event.type \in {"failed", "deleted"}
    BY <1>0, Running DEF SiblingFound, stage, TypesAt
  <2>2. job' = [job EXCEPT !.paying = p,
                           !.stage = IF IsType("failed") THEN "retireList" ELSE "snapshot"]
    BY DEF SiblingFound
  <2>3. job' \in Jobs /\ job'.event = job.event
        /\ job'.stage = IF IsType("failed") THEN "retireList" ELSE "snapshot"
    BY <2>1, <2>2 DEF Jobs, JobStages
  <2>4. job.event.type \in TypesAt(job'.stage)
    BY <2>1, <2>3 DEF TypesAt, IsType
  <2>5. QED
    BY <1>0, <2>1, <2>3, <2>4, GoesOn
<1>3. CASE NoSiblingPays
  <2>1. job \in Jobs /\ job.stage = "sibling" /\ job.event \in owed
        /\ job.event.type \in {"failed", "deleted"}
    BY <1>0, <1>3, Running DEF NoSiblingPays, stage, TypesAt
  <2>2. CASE IsType("failed")
    BY <1>1, <1>3, <2>2 DEF NoSiblingPays
  <2>3. CASE ~IsType("failed")
    <3>1. job' = [job EXCEPT !.stage = "snapshot"] /\ owed' = owed
      BY <1>3, <2>3 DEF NoSiblingPays, At
    <3>2. job' \in Jobs /\ job'.event = job.event /\ job'.stage = "snapshot"
      BY <2>1, <3>1 DEF Jobs, JobStages
    <3>3. QED
      BY <1>0, <2>1, <2>3, <3>1, <3>2, GoesOn DEF TypesAt, IsType
  <2>4. QED
    BY <2>2, <2>3
<1>4. CASE SnapshotRead
  <2> DEFINE seen  == [job EXCEPT !.held = Held, !.valid = Held, !.used = Used,
                                  !.vip = holdsStandingGrant]
             found == resolveIdentity(seen)
  <2>1. job \in Jobs /\ job.stage = "snapshot" /\ job.event \in owed
        /\ job.event.type \in {"checkout", "paid", "deleted"}
    BY <1>0, <1>4, Running DEF SnapshotRead, stage, TypesAt
  <2>2. seen \in Jobs /\ seen.event = job.event
    BY <1>0, <2>1 DEF Jobs, holdsStandingGrant
  <2>3. found \in SUBSET Servers
    BY <2>2, Snapshots
  <2>4. \/ IsType("checkout") /\ CheckoutJudged(seen)
        \/ IsType("paid") /\ PaidJudged(seen, found)
        \/ IsType("deleted") /\ DeletedJudged(seen, found)
    BY <1>4, <2>1 DEF SnapshotRead, IsType
  <2> HIDE DEF seen, found
  <2>5. ASSUME NEW disable \in SUBSET Servers, NEW stamp \in SUBSET Servers
        PROVE  /\ Work(seen, disable, stamp) \in Jobs
               /\ Work(seen, disable, stamp).event = job.event
               /\ Work(seen, disable, stamp).stage = "work"
    BY <2>2 DEF Work, Jobs, JobStages
  <2>6. ASSUME job' \in Jobs, job'.event = job.event, job'.stage \in {"issue", "work"}, owed' = owed,
               job'.stage = "issue" => job.event.type # "deleted"
        PROVE  JobOK' /\ owed' \subseteq owed
    BY <1>0, <2>1, <2>6, GoesOn DEF TypesAt
  <2>7. CASE IsType("checkout") /\ CheckoutJudged(seen)
    <3>1. CASE Done(job.event)
      BY <1>1, <3>1
    <3>2. CASE job' = [seen EXCEPT !.stage = "issue"] /\ owed' = owed
      <4>1. job' \in Jobs /\ job'.event = job.event /\ job'.stage = "issue"
        BY <2>2, <3>2 DEF Jobs, JobStages
      <4>2. QED
        BY <2>6, <2>7, <3>2, <4>1 DEF IsType
    <3>3. QED
      BY <2>7, <3>1, <3>2 DEF CheckoutJudged, blockBannedCheckout
  <2>8. CASE IsType("paid") /\ PaidJudged(seen, found)
    <3>1. CASE Done(job.event)
      BY <1>1, <3>1
    <3>2. CASE job' = restoreAccess /\ owed' = owed
      <4>1. job' \in Jobs /\ job'.event = job.event /\ job'.stage = "issue"
        BY <2>1, <3>2 DEF Jobs, JobStages, restoreAccess
      <4>2. QED
        BY <2>6, <2>8, <3>2, <4>1 DEF IsType
    <3>3. CASE job' = Work(seen, {}, found) /\ owed' = owed
      BY <2>3, <2>5, <2>6, <3>3
    <3>4. QED
      BY <2>8, <3>1, <3>2, <3>3 DEF PaidJudged
  <2>9. CASE IsType("deleted") /\ DeletedJudged(seen, found)
    <3>1. CASE Done(job.event)
      BY <1>1, <3>1
    <3>2. CASE job' = Work(seen, found, {}) /\ owed' = owed
      BY <2>3, <2>5, <2>6, <3>2
    <3>3. QED
      BY <2>9, <3>1, <3>2 DEF DeletedJudged
  <2>10. QED
    BY <2>4, <2>7, <2>8, <2>9
<1>5. QED
  BY <1>2, <1>3, <1>4 DEF Judges

\* The steps that issue a link, retire duplicates and do the work decided on.
LEMMA WorkTyped ==
  ASSUME Typed,
         \/ Issue \/ Mail \/ RetireListed \/ RetireDone \/ RetireGivesUp
         \/ (\E c \in Customers : cancelNow(c))
         \/ (\E s \in Servers : disableUser(s) \/ setExpiry(s))
         \/ WorkDone \/ CallOnGoneRecord \/ HandlerFails
  PROVE  JobOK' /\ owed' \subseteq Events
<1>0. JobOK /\ owed \subseteq Events
  BY DEF Typed
<1>1. ASSUME Done(job.event) PROVE JobOK' /\ owed' \subseteq Events
  BY <1>0, <1>1 DEF Done, JobOK
<1>2. CASE Issue
  <2>1. job \in Jobs /\ job.event \in owed /\ job.event.type \in {"checkout", "paid"}
        /\ job.stage = "issue"
    BY <1>0, <1>2, Running DEF Issue, stage, TypesAt
  <2>2. job' = [job EXCEPT !.stage = "mail"] /\ owed' = owed
    BY <1>2 DEF Issue, At
  <2>3. job' \in Jobs /\ job'.event = job.event /\ job'.stage = "mail"
    BY <2>1, <2>2 DEF Jobs, JobStages
  <2>4. QED
    BY <1>0, <2>1, <2>2, <2>3, GoesOn DEF TypesAt
<1>3. CASE Mail
  <2>1. job \in Jobs /\ job.event \in owed /\ job.event.type \in {"checkout", "paid"}
        /\ job.stage = "mail" /\ Payer \in Customers
    BY <1>0, <1>3, Running, EventNames DEF Mail, stage, TypesAt, Payer
  <2>2. CASE IsType("paid")
    BY <1>1, <1>3, <2>2 DEF Mail
  <2>3. CASE ~IsType("paid")
    <3>1. job' = [job EXCEPT !.stage = "retireList", !.paying = Payer] /\ owed' = owed
      BY <1>3, <2>3 DEF Mail
    <3>2. job' \in Jobs /\ job'.event = job.event /\ job'.stage = "retireList"
      BY <2>1, <3>1 DEF Jobs, JobStages
    <3>3. QED
      BY <1>0, <2>1, <2>3, <3>1, <3>2, GoesOn DEF TypesAt, IsType
  <2>4. QED
    BY <2>2, <2>3
<1>4. CASE RetireListed \/ RetireGivesUp
  <2>1. job \in Jobs /\ job.event \in owed /\ job.event.type \in {"checkout", "failed"}
        /\ job.stage \in {"retireList", "retire"}
    BY <1>0, <1>4, Running DEF RetireListed, RetireGivesUp, stage, TypesAt
  <2>2. Retried \ {job.paying} \in SUBSET Customers /\ {} \in SUBSET Customers
    BY DEF Retried
  <2> DEFINE new(left) == [job EXCEPT !.stage = "retire", !.retire = left]
  <2>3. ASSUME NEW left \in SUBSET Customers
        PROVE  new(left) \in Jobs /\ new(left).event = job.event /\ new(left).stage = "retire"
    BY <2>1, <2>3 DEF Jobs, JobStages
  <2>4. owed' = owed /\ job' \in Jobs /\ job'.event = job.event /\ job'.stage = "retire"
    <3>1. CASE RetireListed
      <4>1. job' = new(Retried \ {job.paying}) /\ owed' = owed
        BY <3>1 DEF RetireListed
      <4> HIDE DEF new
      <4>2. QED
        BY <2>2, <2>3, <4>1
    <3>2. CASE RetireGivesUp
      <4>1. job' = new({}) /\ owed' = owed
        BY <3>2 DEF RetireGivesUp
      <4> HIDE DEF new
      <4>2. QED
        BY <2>2, <2>3, <4>1
    <3>3. QED
      BY <1>4, <3>1, <3>2
  <2>5. QED
    BY <1>0, <2>1, <2>4, GoesOn DEF TypesAt
<1>5. CASE \E c \in Customers : cancelNow(c)
  <2> PICK c \in Customers : cancelNow(c)
    BY <1>5
  <2>1. job \in Jobs /\ job.event \in owed /\ job.event.type \in {"checkout", "failed"}
        /\ job.stage = "retire"
    BY <1>0, Running DEF cancelNow, stage, TypesAt
  <2>2. \E left \in SUBSET Customers : job' = [job EXCEPT !.retire = left]
    <3>1. job.retire \in SUBSET Customers
      BY <2>1 DEF Jobs
    <3>2. {} \in SUBSET Customers /\ job.retire \ {c} \in SUBSET Customers
      BY <3>1
    <3>3. job' = [job EXCEPT !.retire = {}] \/ job' = [job EXCEPT !.retire = job.retire \ {c}]
      BY <2>1 DEF cancelNow
    <3>4. QED
      BY <3>2, <3>3
  <2>3. job' \in Jobs /\ job'.event = job.event /\ job'.stage = "retire"
    BY <2>1, <2>2 DEF Jobs, JobStages
  <2>4. Event("deleted", c, 0) \in Events
    BY EventTyped, AccessAssumption
  <2>5. owed \subseteq owed' /\ owed' \subseteq Events
    BY <1>0, <2>4 DEF cancelNow
  <2>6. QED
    BY <1>0, <2>1, <2>3, <2>5, GoesOn DEF TypesAt
<1>6. CASE RetireDone
  <2>1. job \in Jobs /\ job.event \in owed /\ job.event.type \in {"checkout", "failed"}
        /\ job.stage = "retire"
    BY <1>0, <1>6, Running DEF RetireDone, stage, TypesAt
  <2>2. CASE IsType("failed") \/ job.vip
    BY <1>1, <1>6, <2>2 DEF RetireDone
  <2>3. CASE ~(IsType("failed") \/ job.vip)
    <3> DEFINE found == resolveIdentity(job)
               left == staleRecords(found)
    <3>1. found \in SUBSET Servers /\ left \in SUBSET Servers
      BY <2>1, Snapshots DEF staleRecords
    <3>2. job' = Work(job, left, found \ left) /\ owed' = owed
      BY <1>6, <2>3 DEF RetireDone
    <3> HIDE DEF found, left
    <3>3. job' \in Jobs /\ job'.event = job.event /\ job'.stage = "work"
      BY <2>1, <3>1, <3>2 DEF Work, Jobs, JobStages
    <3>4. QED
      BY <1>0, <2>1, <2>3, <3>2, <3>3, GoesOn DEF TypesAt, IsType
  <2>4. QED
    BY <2>2, <2>3
<1>7. CASE \E s \in Servers : disableUser(s) \/ setExpiry(s)
  <2>1. job \in Jobs /\ job.event \in owed /\ job.event.type \in {"checkout", "paid", "deleted"}
        /\ job.stage = "work" /\ owed' = owed
    BY <1>0, <1>7, Running DEF disableUser, setExpiry, stage, TypesAt
  <2>2. \E s \in Servers : \/ job' = [job EXCEPT !.disable = job.disable \ {s}]
                           \/ job' = [job EXCEPT !.stamp = job.stamp \ {s}]
    BY <1>7, <2>1 DEF disableUser, setExpiry
  <2>3. job.disable \in SUBSET Servers /\ job.stamp \in SUBSET Servers
    BY <2>1 DEF Jobs
  <2>4. job' \in Jobs /\ job'.event = job.event /\ job'.stage = "work"
    <3>1. PICK s \in Servers : \/ job' = [job EXCEPT !.disable = job.disable \ {s}]
                               \/ job' = [job EXCEPT !.stamp = job.stamp \ {s}]
      BY <2>2
    <3>2. job.disable \ {s} \in SUBSET Servers /\ job.stamp \ {s} \in SUBSET Servers
      BY <2>3
    <3>3. QED
      BY <2>1, <3>1, <3>2 DEF Jobs, JobStages
  <2>5. QED
    BY <1>0, <2>1, <2>4, GoesOn DEF TypesAt
<1>8. CASE WorkDone
  BY <1>1, <1>8 DEF WorkDone
<1>9. CASE CallOnGoneRecord \/ HandlerFails
  BY <1>0, <1>9 DEF CallOnGoneRecord, HandlerFails, JobOK
<1>10. QED
  BY <1>2, <1>3, <1>4, <1>5, <1>6, <1>7, <1>8, <1>9

\* A record lost under a run changes what the run may still write to, and
\* nothing else of it.
LEMMA LosingTyped ==
  ASSUME NEW gone
  PROVE  /\ \A j \in Jobs : /\ Losing(j, gone) \in Jobs
                            /\ Losing(j, gone).event = j.event /\ Losing(j, gone).stage = j.stage
                            /\ Losing(j, gone).vip = j.vip
         /\ \A l \in Loops : /\ Losing(l, gone) \in Loops
                             /\ Losing(l, gone).stage = l.stage
                             /\ Losing(l, gone).timeBoxed = l.timeBoxed
                             /\ Losing(l, gone).stamp = l.stamp
         /\ Losing(Idle, gone) = Idle
<1>1. ASSUME NEW j \in Jobs
      PROVE  /\ Losing(j, gone) \in Jobs
             /\ Losing(j, gone).event = j.event /\ Losing(j, gone).stage = j.stage
             /\ Losing(j, gone).vip = j.vip
  BY DEF Losing, Jobs
<1>2. ASSUME NEW l \in Loops
      PROVE  /\ Losing(l, gone) \in Loops
             /\ Losing(l, gone).stage = l.stage
             /\ Losing(l, gone).timeBoxed = l.timeBoxed
             /\ Losing(l, gone).stamp = l.stamp
  BY DEF Losing, Loops
<1>3. Losing(Idle, gone) = Idle
  BY DEF Losing, Idle
<1>4. QED
  BY <1>1, <1>2, <1>3

\* What the members do to the runs under way.
LEMMA LossTyped ==
  ASSUME Typed, (\E o \in Operations : Redeem(o)) \/ (\E s \in Servers : Lapse(s))
  PROVE  JobOK' /\ owed' = owed
<1>1. owed' = owed /\ \E gone : job' = Losing(job, gone)
  BY DEF Redeem, Lapse
<1>2. PICK gone : job' = Losing(job, gone)
  BY <1>1
<1>3. CASE job = Idle
  BY <1>1, <1>2, <1>3, LosingTyped DEF JobOK
<1>4. CASE job \in Jobs /\ job.event \in owed /\ job.event.type \in TypesAt(job.stage)
  BY <1>1, <1>2, <1>4, LosingTyped DEF JobOK
<1>5. QED
  BY <1>1, <1>3, <1>4 DEF Typed, JobOK

\* The reconcile loop's record, in each of its steps.
LEMMA LoopTyped ==
  ASSUME Typed, [Next]_vars
  PROVE  loop' \in Loops \union {Idle}
<1>0. /\ loop \in Loops \union {Idle} /\ sub \in [Customers -> SubStatuses]
      /\ code \in [Customers -> Operations \union {None}]
      /\ rows \in Seq(Customers)
      /\ Held \in SUBSET Servers /\ Unlimited \in SUBSET Servers
  BY Snapshots DEF Typed, StripeOK, StoreOK, RowsOK
<1>1. ASSUME NEW at \in {"statuses", "sweep"}, NEW status \in [Customers -> SubStatuses]
      PROVE  Loop(at, status) \in Loops
  BY DEF Loop, Loops, SubStatuses
<1>2. Sweep \in Loops
  BY <1>1 DEF Sweep, SubStatuses
<1>3. CASE StatusesRead
  BY <1>0, <1>1, <1>3 DEF StatusesRead
<1>4. CASE checkPaymentStates
  BY <1>2, <1>4 DEF checkPaymentStates
<1>5. CASE SweepStarts
  <2>1. loop \in Loops
    BY <1>0, <1>5 DEF SweepStarts, looping, Idle
  <2>2. rows # <<>> => code[newestRow] \in Operations \union {None}
    BY <1>0 DEF newestRow
  <2>3. isTimeBoxed \in BOOLEAN
    BY DEF isTimeBoxed
  <2>4. CASE rows # <<>> /\ newestRow \in subscribed
    <3>1. loop' = [loop EXCEPT !.stage = "reading", !.timeBoxed = isTimeBoxed,
                               !.code = code[newestRow]]
      BY <1>5, <2>4 DEF SweepStarts
    <3>2. QED
      BY <2>1, <2>2, <2>3, <2>4, <3>1 DEF Loops
  <2>5. CASE ~(rows # <<>> /\ newestRow \in subscribed)
    BY <1>5, <2>5 DEF SweepStarts
  <2>6. QED
    BY <2>4, <2>5
<1>6. CASE SweepReads
  <2> DEFINE stamp == IF loop.timeBoxed /\ (EmailMatches \/ loop.code \in Used) THEN Unlimited ELSE {}
  <2>1. loop' = [Sweep EXCEPT !.stage = "stamping", !.valid = Held, !.stamp = stamp]
    BY <1>6 DEF SweepReads
  <2>2. stamp \in SUBSET Servers
    BY <1>0
  <2> HIDE DEF stamp
  <2>3. QED
    BY <1>0, <1>2, <2>1, <2>2 DEF Loops
<1>7. CASE \E s \in Servers : SweepStamps(s)
  <2>1. loop \in Loops
    BY <1>0, <1>7 DEF SweepStamps, looping, Idle
  <2>2. PICK s \in Servers : loop' = [loop EXCEPT !.stamp = loop.stamp \ {s}]
    BY <1>7, <2>1 DEF SweepStamps
  <2>3. loop.stamp \ {s} \in SUBSET Servers
    BY <2>1 DEF Loops
  <2>4. QED
    BY <2>1, <2>2, <2>3 DEF Loops
<1>8. CASE SweepEnds \/ PassFails
  BY <1>2, <1>8 DEF SweepEnds, PassFails
<1>9. CASE (\E o \in Operations : Redeem(o)) \/ (\E s \in Servers : Lapse(s))
           \/ \E s \in Servers : disableUser(s)
  <2>1. \E gone : loop' = Losing(loop, gone)
    BY <1>9 DEF Redeem, Lapse, disableUser
  <2>2. QED
    BY <1>0, <2>1, LosingTyped
<1>10. CASE Stripe \/ UNCHANGED vars
  BY <1>0, <1>10 DEF Stripe, Subscribe, Renew, ChargeFails, Recover, Cancel, vars
<1>11. CASE (\E t \in {"none", "vip", "banned"} : setTag(t)) \/ HandlerFails \/ RetireGivesUp
  BY <1>0, <1>11 DEF setTag, HandlerFails, RetireGivesUp
<1>12. CASE Handling /\ ~\E s \in Servers : disableUser(s)
  <2>1. CASE \E e \in owed : Starting(e)
    BY <1>0, <2>1 DEF Starting, CheckoutStarts, PaidStarts, FailedStarts, onSubscriptionUpdated, DeletedStarts
  <2>2. CASE SnapshotRead
    BY <1>0, <2>2 DEF SnapshotRead
  <2>3. CASE NoSiblingPays
    BY <1>0, <2>3 DEF NoSiblingPays
  <2>4. CASE \E c \in Customers : SiblingFound(c) \/ cancelNow(c)
    BY <1>0, <2>4 DEF SiblingFound, cancelNow
  <2>5. CASE Issue \/ Mail \/ RetireListed \/ RetireDone \/ WorkDone \/ CallOnGoneRecord
    BY <1>0, <2>5 DEF Issue, Mail, RetireListed, RetireDone, WorkDone, CallOnGoneRecord
  <2>6. CASE \E s \in Servers : setExpiry(s)
    BY <1>0, <2>6 DEF setExpiry
  <2>7. QED
    BY <1>12, <2>1, <2>2, <2>3, <2>4, <2>5, <2>6 DEF Handling
<1>13. QED
  BY <1>3, <1>4, <1>5, <1>6, <1>7, <1>8, <1>9, <1>10, <1>11, <1>12 DEF Next, Reconciling

\* The customer the running handler's event names.
LEMMA PayerTyped ==
  ASSUME Typed, job.stage # "idle"
  PROVE  Payer \in Customers /\ <<Payer, job.event.n>> \in Operations /\ job.event \in owed
<1>1. job.event \in owed /\ job.event \in Events
  BY Running DEF Typed
<1>2. QED
  BY <1>1, EventNames DEF Payer

\* A row is added for a customer that has none.
LEMMA RowsTyped ==
  ASSUME Typed, [Next]_vars
  PROVE  RowsOK'
<1>0. rows \in Seq(Customers) /\ IsFiniteSet(Rows) /\ Len(rows) = Cardinality(Rows)
  BY DEF Typed, RowsOK
<1>1. CASE UNCHANGED rows
  <2>1. Rows' = Rows
    BY <1>1 DEF Rows
  <2>2. QED
    BY <1>0, <1>1, <2>1 DEF RowsOK
<1>2. CASE Issue /\ Payer \notin Rows
  <2>1. rows' = Append(rows, Payer) /\ Payer \in Customers
    BY <1>2, PayerTyped DEF Issue, stage
  <2>2. /\ rows' \in Seq(Customers) /\ Len(rows') = Len(rows) + 1 /\ Len(rows) \in Nat
        /\ rows'[Len(rows) + 1] = Payer
        /\ \A i \in 1..Len(rows) : rows'[i] = rows[i]
    BY <1>0, <2>1
  <2>3. Rows' = Rows \union {Payer}
    BY <2>2 DEF Rows
  <2>4. IsFiniteSet(Rows') /\ Cardinality(Rows') = Cardinality(Rows) + 1
    BY <1>0, <1>2, <2>3, FS_AddElement
  <2>5. QED
    BY <1>0, <2>2, <2>4 DEF RowsOK
<1>3. CASE Issue /\ Payer \in Rows
  BY <1>1, <1>3 DEF Issue
<1>4. QED
  BY <1>1, <1>2, <1>3, Writers

\* The store's rows and flags.
LEMMA StoreTyped ==
  ASSUME Typed, [Next]_vars
  PROVE  StoreOK'
<1>0. /\ code \in [Customers -> Operations \union {None}]
      /\ subscribed \subseteq Customers /\ dunning \subseteq Customers /\ Rows \subseteq Customers
  <2>1. Rows \subseteq Customers
    <3>1. rows \in Seq(Customers)
      BY DEF Typed, RowsOK
    <3>2. QED
      BY <3>1 DEF Rows
  <2>2. QED
    BY <2>1 DEF Typed, StoreOK
<1>1. code' \in [Customers -> Operations \union {None}]
  <2>1. CASE Issue
    <3>1. code' = [code EXCEPT ![Payer] = <<Payer, job.event.n>>] /\ <<Payer, job.event.n>> \in Operations
      BY <2>1, PayerTyped DEF Issue, stage
    <3>2. QED
      BY <1>0, <3>1
  <2>2. QED
    BY <1>0, <2>1, Writers
<1>2. CASE Issue
  <2>1. Payer \in Customers /\ subscribed' = subscribed \union {Payer}
        /\ (dunning' = {} \/ dunning' = dunning)
    BY <1>2, PayerTyped DEF Issue, stage
  <2>2. QED
    BY <1>0, <1>1, <2>1 DEF StoreOK
<1>3. CASE checkPaymentStates
  BY <1>0, <1>1, <1>3 DEF checkPaymentStates, setPaymentState, StoreOK
<1>4. CASE Marks
  BY <1>0, <1>1, <1>4
     DEF Marks, PaidStarts, FailedStarts, onSubscriptionUpdated, DeletedStarts, setPaymentState,
         setSubscribed, StoreOK
<1>5. CASE Judges
  <2>1. CASE SnapshotRead
    <3>1. JobOK /\ dunning' = dunning /\ job.stage = "snapshot"
      BY <2>1 DEF SnapshotRead, Typed, stage
    <3>2. job.event.type \in {"checkout", "paid", "deleted"}
      BY <3>1, Running DEF TypesAt
    <3>3. subscribed' = subscribed \/ subscribed' = Rows
      BY <2>1, <3>2
         DEF SnapshotRead, IsType, CheckoutJudged, PaidJudged, DeletedJudged, setSubscribed
    <3>4. QED
      BY <1>0, <1>1, <3>1, <3>3 DEF StoreOK
  <2>2. CASE NoSiblingPays
    BY <1>0, <1>1, <2>2 DEF NoSiblingPays, setPaymentState, setSubscribed, StoreOK
  <2>3. CASE \E p \in Customers : SiblingFound(p)
    BY <1>0, <1>1, <2>3 DEF SiblingFound, setPaymentState, StoreOK
  <2>4. QED
    BY <1>5, <2>1, <2>2, <2>3 DEF Judges
<1>6. CASE UNCHANGED <<subscribed, dunning>>
  BY <1>0, <1>1, <1>6 DEF StoreOK
<1>7. QED
  BY <1>2, <1>3, <1>4, <1>5, <1>6, Writers DEF checkPaymentStates

\* The links and the records.
LEMMA WizarrTyped ==
  ASSUME Typed, [Next]_vars
  PROVE  WizarrOK'
<1>0. /\ link \in [Operations -> {"none", "minted", "sent", "used", "dead"}]
      /\ rec \in [Servers -> {"none", "grace", "unlimited", "window"}]
  BY DEF Typed, WizarrOK
<1>1. CASE Issue \/ Mail
  BY <1>0, <1>1, Writers DEF Issue, Mail, WizarrOK
<1>2. CASE \E o \in Operations : Redeem(o)
  BY <1>0, <1>2 DEF Redeem, WizarrOK
<1>3. CASE Records
  BY <1>0, <1>3 DEF Records, disableUser, setExpiry, SweepStamps, Lapse, DropRecord, WizarrOK
<1>4. CASE UNCHANGED wizarrVars
  BY <1>0, <1>4 DEF wizarrVars, WizarrOK
<1>5. QED
  BY <1>1, <1>2, <1>3, <1>4, Writers DEF wizarrVars

\* The admin's tags and the faults.
LEMMA CountsTyped ==
  ASSUME Typed, [Next]_vars
  PROVE  CountsOK'
<1>0. CountsOK /\ MaxTags \in Nat /\ MaxFaults \in Nat
  BY AccessAssumption DEF Typed
<1>1. tag' \in {"none", "vip", "banned"} /\ grant' \in BOOLEAN /\ tags' \in 0..MaxTags
  <2>1. CASE \E t \in {"none", "vip", "banned"} : setTag(t)
    BY <1>0, <2>1 DEF setTag, CountsOK
  <2>2. CASE UNCHANGED adminVars
    BY <1>0, <2>2 DEF adminVars, CountsOK
  <2>3. QED
    BY <2>1, <2>2, Writers
<1>2. faults' \in 0..MaxFaults
  <2>1. CASE HandlerFails \/ RetireGivesUp \/ PassFails
    BY <1>0, <2>1 DEF HandlerFails, RetireGivesUp, PassFails, CountsOK
  <2>2. CASE UNCHANGED faults
    BY <1>0, <2>2 DEF CountsOK
  <2>3. QED
    BY <2>1, <2>2, Writers
<1>3. QED
  BY <1>1, <1>2 DEF CountsOK

\* The running handler, and what Stripe is still owed an answer for.
LEMMA HandlerTyped ==
  ASSUME Typed, [Next]_vars
  PROVE  JobOK' /\ owed' \subseteq Events
<1>0. JobOK /\ owed \subseteq Events
  BY DEF Typed
<1>1. CASE \E e \in owed : Starting(e)
  BY <1>0, <1>1, StartTyped
<1>2. CASE Judges
  BY <1>0, <1>2, JudgeTyped
<1>3. CASE \/ Issue \/ Mail \/ RetireListed \/ RetireDone \/ RetireGivesUp
           \/ (\E c \in Customers : cancelNow(c))
           \/ (\E s \in Servers : disableUser(s) \/ setExpiry(s))
           \/ WorkDone \/ CallOnGoneRecord \/ HandlerFails
  BY <1>3, WorkTyped
<1>4. CASE (\E o \in Operations : Redeem(o)) \/ (\E s \in Servers : Lapse(s))
  BY <1>0, <1>4, LossTyped
<1>5. CASE Stripe
  <2>1. job' = job
    BY <1>5 DEF Stripe, Subscribe, Renew, ChargeFails, Recover, Cancel
  <2>2. owed' \subseteq Events /\ owed \subseteq owed'
    BY <1>5, StripeTyped
  <2>3. QED
    BY <1>0, <2>1, <2>2 DEF JobOK
<1>6. CASE UNCHANGED <<job, owed>>
  BY <1>0, <1>6 DEF JobOK
<1>7. Reconciling \/ PassFails \/ (\E t \in {"none", "vip", "banned"} : setTag(t)) \/ UNCHANGED vars
        => UNCHANGED <<job, owed>>
  BY DEF Reconciling, StatusesRead, checkPaymentStates, SweepStarts, SweepReads, SweepStamps,
         SweepEnds, PassFails, setTag, vars
<1>8. QED
  BY <1>1, <1>2, <1>3, <1>4, <1>5, <1>6, <1>7 DEF Next, Handling, Judges

\* They hold together in every reachable state.
LEMMA TypedAlways == Spec => []Typed
<1>1. Init => Typed
  <2> SUFFICES ASSUME Init PROVE Typed
    OBVIOUS
  <2>1. StripeOK /\ owed \subseteq Events
    BY AccessAssumption DEF Init, StripeOK, SubStatuses
  <2>5. StoreOK /\ CountsOK
    <3>1. StoreOK
      BY DEF Init, StoreOK
    <3>2. MaxTags \in Nat /\ MaxFaults \in Nat
      BY AccessAssumption
    <3>3. tag = "none" /\ grant \in BOOLEAN /\ tags = 0 /\ faults = 0
      BY Zenon DEF Init
    <3>4. CountsOK
      BY <3>2, <3>3 DEF CountsOK
    <3>5. QED
      BY <3>1, <3>4
  <2>2. RowsOK
    <3>1. rows \in Seq(Customers) /\ Rows = {} /\ Len(rows) = 0
      BY DEF Init, Rows
    <3>2. QED
      BY <3>1, FS_EmptySet DEF RowsOK
  <2>3. WizarrOK
    BY DEF Init, WizarrOK
  <2>4. JobOK /\ loop \in Loops \union {Idle}
    BY DEF Init, JobOK
  <2>6. QED
    BY <2>1, <2>2, <2>3, <2>4, <2>5 DEF Typed
<1>2. Typed /\ [Next]_vars => Typed'
  <2> SUFFICES ASSUME Typed, [Next]_vars PROVE Typed'
    OBVIOUS
  <2>1. StripeOK'
    <3>1. CASE Stripe
      BY <3>1, StripeTyped
    <3>2. CASE ~Stripe
      <4>1. UNCHANGED invoices /\ ((\E c \in Customers : cancelNow(c)) \/ UNCHANGED sub)
        BY <3>2, Writers
      <4>2. QED
        BY <4>1 DEF cancelNow, Becomes, Typed, StripeOK, SubStatuses
    <3>3. QED
      BY <3>1, <3>2
  <2>2. QED
    BY <2>1, RowsTyped, StoreTyped, WizarrTyped, CountsTyped, HandlerTyped, LoopTyped DEF Typed
<1>3. QED
  BY <1>1, <1>2, PTL DEF Spec

\* Every variable keeps its type, and no customer has two rows.
THEOREM TypeCorrect == Spec => []TypeOK
<1>1. Typed => TypeOK
  BY DEF Typed, TypeOK, StripeOK, RowsOK, StoreOK, WizarrOK, CountsOK, JobOK, SubStatuses
<1>2. QED
  BY <1>1, TypedAlways, PTL

---------------------------------------------------------------------------
\* What the history of the customers, the grants and the payments keeps true.

\* Customers Stripe has an event for, or the store a row, have subscribed; and
\* one whose deletion is owed is gone for good.
Known ==
  /\ \A e \in owed : sub[e.cust] # "none" /\ (e.type = "deleted" => sub[e.cust] = "canceled")
  /\ \A c \in Rows : sub[c] # "none"

\* A grant given while nothing was running has found every run since to be a VIP's.
JobSpares ==
  /\ job.stage # "work"
  /\ job.stage \in {"issue", "mail"} => job.event.type = "checkout"
  /\ job.stage \in {"issue", "mail", "retireList", "retire"} /\ job.event.type = "checkout" => job.vip
LoopSpares ==
  /\ loop.stage = "reading" => ~loop.timeBoxed
  /\ loop.stage = "stamping" => loop.stamp = {}
Granted == grant => tag = "vip" /\ JobSpares /\ LoopSpares

Renewals == {e \in owed : e.type = "paid" /\ e.n > 0}
NewestSubscribed == rows # <<>> => newestRow \in subscribed
Paying ==
  tags = 0 =>
    /\ tag = "none"
    /\ job # Idle /\ job.event \in Renewals /\ job.stage # "snapshot" => NewestSubscribed
    /\ Live \intersect Rows # {} => newestRow \in subscribed \/ Renewals # {}

Gone(c) == sub[c] = "canceled"

\* A subscription that is over never starts again, and none goes unsubscribed.
LEMMA Terminal ==
  ASSUME Typed, [Next]_vars, NEW c \in Customers
  PROVE  (sub[c] # "none" => sub'[c] # "none") /\ (Gone(c) => sub'[c] = "canceled")
<1>0. sub \in [Customers -> SubStatuses]
  BY DEF Typed, StripeOK
<1>1. CASE Stripe
  BY <1>0, <1>1
     DEF Stripe, Subscribe, Renew, ChargeFails, Recover, Cancel, Becomes, Gone
<1>2. CASE \E d \in Customers : cancelNow(d)
  BY <1>0, <1>2 DEF cancelNow, Becomes, Gone
<1>3. CASE UNCHANGED sub
  BY <1>3 DEF Gone
<1>4. QED
  BY <1>1, <1>2, <1>3, Writers

\* An event that Stripe comes to owe is about a customer who has subscribed.
LEMMA NewEvents ==
  ASSUME Typed, [Next]_vars, NEW e \in owed', e \notin owed
  PROVE  sub'[e.cust] # "none" /\ (e.type = "deleted" => sub'[e.cust] = "canceled")
<1>0. sub \in [Customers -> SubStatuses] /\ owed \subseteq Events /\ JobOK
  BY DEF Typed, StripeOK
<1>1. CASE Stripe
  <2> PICK c \in Customers : Subscribe(c) \/ Renew(c) \/ ChargeFails(c) \/ Recover(c) \/ Cancel(c)
    BY <1>1 DEF Stripe
  <2>1. CASE Subscribe(c)
    BY <1>0, <2>1 DEF Subscribe, Becomes, Emit, Event
  <2>2. CASE Renew(c)
    BY <1>0, <2>2 DEF Renew, Emit, Event
  <2>3. CASE ChargeFails(c)
    BY <1>0, <2>3 DEF ChargeFails, Becomes, Emit, Event
  <2>4. CASE Recover(c)
    BY <1>0, <2>4 DEF Recover, Becomes, Emit, Event
  <2>5. CASE Cancel(c)
    BY <1>0, <2>5 DEF Cancel, Becomes, Emit, Event
  <2>6. QED
    BY <2>1, <2>2, <2>3, <2>4, <2>5
<1>2. CASE \E c \in Customers : cancelNow(c)
  BY <1>0, <1>2 DEF cancelNow, Becomes, Event
<1>3. CASE owed' \subseteq owed
  BY <1>3
<1>4. \/ Stripe \/ (\E c \in Customers : cancelNow(c)) \/ owed' \subseteq owed
  <2>1. CASE \E d \in owed : Starting(d)
    BY <2>1, StartTyped
  <2>2. CASE Judges
    BY <2>2, JudgeTyped
  <2>3. CASE \/ Issue \/ Mail \/ RetireListed \/ RetireDone \/ WorkDone \/ CallOnGoneRecord
    BY <2>3 DEF Issue, Mail, RetireListed, RetireDone, WorkDone, CallOnGoneRecord, Done
  <2>4. CASE \E s \in Servers : disableUser(s) \/ setExpiry(s) \/ Lapse(s)
    BY <2>4 DEF disableUser, setExpiry, Lapse
  <2>5. CASE \/ Reconciling \/ PassFails \/ (\E t \in {"none", "vip", "banned"} : setTag(t))
             \/ (\E o \in Operations : Redeem(o)) \/ HandlerFails \/ RetireGivesUp \/ UNCHANGED vars
    BY <2>5 DEF Reconciling, StatusesRead, checkPaymentStates, SweepStarts, SweepReads, SweepStamps,
                SweepEnds, PassFails, setTag, Redeem, HandlerFails, RetireGivesUp, vars
  <2>6. QED
    BY <2>1, <2>2, <2>3, <2>4, <2>5 DEF Next, Handling, Judges
<1>5. QED
  BY <1>1, <1>2, <1>3, <1>4

\* A row that appears is the running handler's customer's.
LEMMA NewRows ==
  ASSUME Typed, [Next]_vars
  PROVE  \/ UNCHANGED rows /\ Rows' = Rows
         \/ Issue /\ Payer \notin Rows /\ Rows' = Rows \union {Payer} /\ newestRow' = Payer /\ rows' # <<>>
<1>1. CASE UNCHANGED rows
  BY <1>1 DEF Rows
<1>2. CASE Issue /\ Payer \notin Rows
  <2>0. rows \in Seq(Customers)
    BY DEF Typed, RowsOK
  <2>1. rows' = Append(rows, Payer) /\ Payer \in Customers
    BY <1>2, PayerTyped DEF Issue, stage
  <2>2. /\ Len(rows') = Len(rows) + 1 /\ Len(rows) \in Nat
        /\ rows'[Len(rows) + 1] = Payer
        /\ \A i \in 1..Len(rows) : rows'[i] = rows[i]
    BY <2>0, <2>1
  <2>3. Rows' = Rows \union {Payer} /\ newestRow' = Payer /\ rows' # <<>>
    BY <2>0, <2>2 DEF Rows, newestRow
  <2>4. QED
    BY <1>2, <2>3
<1>3. CASE Issue /\ Payer \in Rows
  BY <1>1, <1>3 DEF Issue
<1>4. QED
  BY <1>1, <1>2, <1>3, Writers

\* Every step keeps the rows and the events owed to customers who subscribed.
LEMMA KnownKeeps ==
  ASSUME Typed, Typed', Known, [Next]_vars
  PROVE  Known'
<1>1. ASSUME NEW e \in owed'
      PROVE  sub'[e.cust] # "none" /\ (e.type = "deleted" => sub'[e.cust] = "canceled")
  <2>1. CASE e \in owed
    <3>1. e.cust \in Customers /\ sub[e.cust] # "none" /\ (e.type = "deleted" => Gone(e.cust))
      BY <2>1, EventNames DEF Typed, Known, Gone
    <3>2. QED
      BY <3>1, Terminal
  <2>2. QED
    BY <2>1, NewEvents
<1>2. ASSUME NEW c \in Rows' PROVE sub'[c] # "none"
  <2>1. CASE c \in Rows
    <3>1. c \in Customers
      <4>1. rows \in Seq(Customers)
        BY DEF Typed, RowsOK
      <4>2. QED
        BY <2>1, <4>1 DEF Rows
    <3>2. QED
      BY <2>1, <3>1, Terminal DEF Known
  <2>2. CASE c \notin Rows
    <3>1. Issue /\ c = Payer
      BY <1>2, <2>2, NewRows
    <3>2. job.event \in owed /\ Payer \in Customers
      BY <3>1, PayerTyped DEF Issue, stage
    <3>3. sub[Payer] # "none"
      BY <3>2 DEF Known, Payer
    <3>4. QED
      BY <3>1, <3>2, <3>3, Terminal
  <2>3. QED
    BY <2>1, <2>2
<1>3. QED
  BY <1>1, <1>2 DEF Known

\* Nothing that starts while a VIP is tagged comes to write to their records.
LEMMA JobSparesKeeps ==
  ASSUME Typed, tag = "vip", JobSpares, [Next]_vars
  PROVE  JobSpares'
<1>0. JobOK
  BY DEF Typed
<1>1. ASSUME job' = Idle PROVE JobSpares'
  BY <1>1 DEF JobSpares, Idle
<1>2. ASSUME NEW e, Done(e) PROVE JobSpares'
  BY <1>1, <1>2 DEF Done
<1>3. CASE UNCHANGED job
  BY <1>3 DEF JobSpares
<1>4. ASSUME NEW e, NEW at \in {"sibling", "snapshot"}, Starts(e, at) PROVE JobSpares'
  BY <1>4 DEF Starts, JobSpares
<1>5. CASE \E e \in owed : Starting(e)
  BY <1>2, <1>4, <1>5
     DEF Starting, CheckoutStarts, PaidStarts, FailedStarts, onSubscriptionUpdated, DeletedStarts
<1>6. CASE \E p \in Customers : SiblingFound(p)
  <2>1. job \in Jobs /\ job.event.type \in {"failed", "deleted"}
    BY <1>0, <1>6, Running DEF SiblingFound, stage, TypesAt
  <2>2. job'.stage \in {"retireList", "snapshot"} /\ job'.event = job.event
    BY <1>6, <2>1 DEF SiblingFound, Jobs
  <2>3. QED
    BY <2>1, <2>2 DEF JobSpares
<1>7. CASE NoSiblingPays
  <2>1. job \in Jobs
    BY <1>0, <1>7, Running DEF NoSiblingPays, stage
  <2>2. CASE At("snapshot")
    <3>1. job'.stage = "snapshot"
      BY <2>1, <2>2 DEF At, Jobs
    <3>2. QED
      BY <3>1 DEF JobSpares
  <2>3. QED
    BY <1>2, <1>7, <2>2 DEF NoSiblingPays
<1>8. CASE SnapshotRead
  <2>1. job \in Jobs /\ job.event.type \in {"checkout", "paid", "deleted"}
    BY <1>0, <1>8, Running DEF SnapshotRead, stage, TypesAt
  <2>2. CASE IsType("checkout")
    <3> DEFINE seen == [job EXCEPT !.held = Held, !.valid = Held, !.used = Used,
                                   !.vip = holdsStandingGrant]
    <3>1. CheckoutJudged(seen)
      BY <1>8, <2>2 DEF SnapshotRead, IsType
    <3>2. CASE job' = [seen EXCEPT !.stage = "issue"]
      <4>1. job'.event = job.event /\ job'.stage = "issue" /\ job'.vip = holdsStandingGrant
        BY <2>1, <3>2 DEF Jobs
      <4>2. holdsStandingGrant
        BY DEF holdsStandingGrant
      <4>3. QED
        BY <2>2, <4>1, <4>2 DEF JobSpares, IsType
    <3>3. CASE Done(job.event)
      BY <1>2, <3>3
    <3>4. QED
      BY <3>1, <3>2, <3>3 DEF CheckoutJudged, blockBannedCheckout
  <2>3. CASE ~IsType("checkout")
    <3>1. holdsStandingGrant
      BY DEF holdsStandingGrant
    <3>2. Done(job.event)
      BY <1>8, <2>1, <2>3, <3>1 DEF SnapshotRead, IsType, PaidJudged, DeletedJudged
    <3>3. QED
      BY <1>2, <3>2
  <2>4. QED
    BY <2>2, <2>3
<1>9. CASE Issue
  <2>1. job \in Jobs /\ job.stage = "issue"
    BY <1>0, <1>9, Running DEF Issue, stage
  <2>2. job'.stage = "mail" /\ job'.event = job.event /\ job'.vip = job.vip
    BY <1>9, <2>1 DEF Issue, At, Jobs
  <2>3. QED
    BY <2>1, <2>2 DEF JobSpares
<1>10. CASE Mail
  <2>1. job \in Jobs /\ job.stage = "mail"
    BY <1>0, <1>10, Running DEF Mail, stage
  <2>2. CASE job' = [job EXCEPT !.stage = "retireList", !.paying = Payer]
    <3>1. job'.stage = "retireList" /\ job'.event = job.event /\ job'.vip = job.vip
      BY <2>1, <2>2 DEF Jobs
    <3>2. QED
      BY <2>1, <3>1 DEF JobSpares
  <2>3. QED
    BY <1>2, <1>10, <2>2 DEF Mail
<1>11. CASE RetireListed \/ RetireGivesUp \/ \E c \in Customers : cancelNow(c)
  <2>1. job \in Jobs /\ job.stage \in {"retireList", "retire"}
    BY <1>0, <1>11, Running DEF RetireListed, RetireGivesUp, cancelNow, stage
  <2>2. job'.stage = "retire" /\ job'.event = job.event /\ job'.vip = job.vip
    <3>1. CASE RetireListed
      BY <2>1, <3>1 DEF RetireListed, Jobs
    <3>2. CASE RetireGivesUp
      BY <2>1, <3>2 DEF RetireGivesUp, Jobs
    <3>3. CASE \E c \in Customers : cancelNow(c)
      BY <2>1, <3>3 DEF cancelNow, stage, Jobs
    <3>4. QED
      BY <1>11, <3>1, <3>2, <3>3
  <2>3. QED
    BY <2>1, <2>2 DEF JobSpares
<1>12. CASE RetireDone
  <2>1. job.stage = "retire" /\ job.event.type \in {"checkout", "failed"}
    BY <1>0, <1>12, Running DEF RetireDone, stage, TypesAt
  <2>2. IsType("failed") \/ job.vip
    BY <2>1 DEF JobSpares, IsType
  <2>3. QED
    BY <1>2, <1>12, <2>2 DEF RetireDone
<1>13. ~(WorkDone \/ CallOnGoneRecord \/ \E s \in Servers : disableUser(s) \/ setExpiry(s))
  BY DEF WorkDone, CallOnGoneRecord, disableUser, setExpiry, stage, JobSpares
<1>14. CASE HandlerFails
  BY <1>1, <1>14 DEF HandlerFails
<1>15. CASE (\E o \in Operations : Redeem(o)) \/ (\E s \in Servers : Lapse(s))
  <2>1. \E gone : job' = Losing(job, gone)
    BY <1>15 DEF Redeem, Lapse
  <2> PICK gone : job' = Losing(job, gone)
    BY <2>1
  <2>2. CASE job = Idle
    BY <1>1, <2>2, LosingTyped
  <2>3. CASE job \in Jobs
    <3>1. job'.event = job.event /\ job'.stage = job.stage /\ job'.vip = job.vip
      BY <2>3, LosingTyped
    <3>2. QED
      BY <3>1 DEF JobSpares
  <2>4. QED
    BY <1>0, <2>2, <2>3 DEF JobOK
<1>16. Reconciling \/ PassFails \/ Stripe \/ (\E t \in {"none", "vip", "banned"} : setTag(t))
         \/ UNCHANGED vars => UNCHANGED job
  BY DEF Reconciling, StatusesRead, checkPaymentStates, SweepStarts, SweepReads, SweepStamps,
         SweepEnds, PassFails, Stripe, Subscribe, Renew, ChargeFails, Recover, Cancel, setTag, vars
<1>17. QED
  BY <1>3, <1>5, <1>6, <1>7, <1>8, <1>9, <1>10, <1>11, <1>12, <1>13, <1>14, <1>15, <1>16
     DEF Next, Handling

\* The sweep reads the tag before the records, and stamps nothing for a VIP.
LEMMA LoopSparesKeeps ==
  ASSUME Typed, tag = "vip", LoopSpares, [Next]_vars
  PROVE  LoopSpares'
<1>0. loop \in Loops \union {Idle}
  BY DEF Typed
<1>1. ASSUME NEW run, run.stage \in {"statuses", "sweep", "idle"}, loop' = run PROVE LoopSpares'
  BY <1>1 DEF LoopSpares
<1>2. Sweep \in Loops /\ Sweep.stage = "sweep" /\ Sweep.stamp = {} /\ Idle.stage = "idle"
  BY DEF Sweep, Loop, Loops, Idle
<1>3. CASE UNCHANGED loop
  BY <1>3 DEF LoopSpares
<1>4. CASE StatusesRead
  BY <1>1, <1>4 DEF StatusesRead, Loop
<1>5. CASE checkPaymentStates \/ SweepEnds \/ PassFails
  BY <1>1, <1>2, <1>5 DEF checkPaymentStates, SweepEnds, PassFails
<1>6. CASE SweepStarts
  <2>1. loop \in Loops
    BY <1>0, <1>6 DEF SweepStarts, looping, Idle
  <2>2. ~isTimeBoxed
    BY DEF isTimeBoxed, holdsStandingGrant
  <2>3. CASE loop' = [loop EXCEPT !.stage = "reading", !.timeBoxed = isTimeBoxed,
                                  !.code = code[newestRow]]
    <3>1. loop'.stage = "reading" /\ loop'.timeBoxed = isTimeBoxed
      BY <2>1, <2>3 DEF Loops
    <3>2. QED
      BY <2>2, <3>1 DEF LoopSpares
  <2>4. QED
    BY <1>1, <1>2, <1>6, <2>3 DEF SweepStarts
<1>7. CASE SweepReads
  <2>1. ~loop.timeBoxed
    BY <1>7 DEF SweepReads, looping, LoopSpares
  <2>2. loop' = [Sweep EXCEPT !.stage = "stamping", !.valid = Held, !.stamp = {}]
    BY <1>7, <2>1 DEF SweepReads
  <2>3. loop'.stage = "stamping" /\ loop'.stamp = {}
    BY <1>2, <2>2 DEF Loops
  <2>4. QED
    BY <2>3 DEF LoopSpares
<1>8. ~\E s \in Servers : SweepStamps(s)
  BY DEF SweepStamps, looping, LoopSpares
<1>9. CASE (\E o \in Operations : Redeem(o)) \/ (\E s \in Servers : Lapse(s) \/ disableUser(s))
  <2>1. \E gone : loop' = Losing(loop, gone)
    BY <1>9 DEF Redeem, Lapse, disableUser
  <2> PICK gone : loop' = Losing(loop, gone)
    BY <2>1
  <2>2. CASE loop = Idle
    BY <1>1, <1>2, <2>2, LosingTyped
  <2>3. CASE loop \in Loops
    <3>1. loop'.stage = loop.stage /\ loop'.timeBoxed = loop.timeBoxed /\ loop'.stamp = loop.stamp
      BY <2>3, LosingTyped
    <3>2. QED
      BY <3>1 DEF LoopSpares
  <2>4. QED
    BY <1>0, <2>2, <2>3
<1>10. Stripe \/ (\E t \in {"none", "vip", "banned"} : setTag(t)) \/ HandlerFails \/ RetireGivesUp
         \/ UNCHANGED vars => UNCHANGED loop
  BY DEF Stripe, Subscribe, Renew, ChargeFails, Recover, Cancel, setTag, HandlerFails,
         RetireGivesUp, vars
<1>11. CASE Handling /\ ~\E s \in Servers : disableUser(s)
  <2>1. CASE \E e \in owed : Starting(e)
    BY <1>3, <2>1 DEF Starting, CheckoutStarts, PaidStarts, FailedStarts, onSubscriptionUpdated, DeletedStarts
  <2>2. CASE SnapshotRead
    BY <1>3, <2>2 DEF SnapshotRead
  <2>3. CASE NoSiblingPays
    BY <1>3, <2>3 DEF NoSiblingPays
  <2>4. CASE \E c \in Customers : SiblingFound(c) \/ cancelNow(c)
    BY <1>3, <2>4 DEF SiblingFound, cancelNow
  <2>5. CASE Issue \/ Mail \/ RetireListed \/ RetireDone \/ WorkDone \/ CallOnGoneRecord
    BY <1>3, <2>5 DEF Issue, Mail, RetireListed, RetireDone, WorkDone, CallOnGoneRecord
  <2>6. CASE \E s \in Servers : setExpiry(s)
    BY <1>3, <2>6 DEF setExpiry
  <2>7. QED
    BY <1>11, <2>1, <2>2, <2>3, <2>4, <2>5, <2>6 DEF Handling
<1>12. QED
  BY <1>3, <1>4, <1>5, <1>6, <1>7, <1>8, <1>9, <1>10, <1>11 DEF Next, Reconciling

\* A grant is given with nothing under way, and the tag it goes with is read by
\* everything that starts after it.
LEMMA GrantedKeeps ==
  ASSUME Typed, Granted, [Next]_vars
  PROVE  Granted'
<1>1. CASE \E t \in {"none", "vip", "banned"} : setTag(t)
  <2> SUFFICES ASSUME grant' PROVE tag' = "vip" /\ JobSpares' /\ LoopSpares'
    BY DEF Granted
  <2>1. tag' = "vip" /\ job' = Idle /\ loop' = loop /\ loop.stage \notin {"reading", "stamping"}
    BY <1>1 DEF setTag
  <2>2. JobSpares' /\ LoopSpares'
    BY <2>1 DEF JobSpares, LoopSpares, Idle
  <2>3. QED
    BY <2>1, <2>2
<1>2. CASE UNCHANGED adminVars
  BY <1>2, JobSparesKeeps, LoopSparesKeeps DEF Granted, adminVars
<1>3. QED
  BY <1>1, <1>2, Writers

\* A record without an expiry changes in the hands of a run at work, and in no
\* others.
LEMMA UnlimitedStays ==
  ASSUME Typed, tag = "vip", JobSpares, LoopSpares, [Next]_vars, NEW s \in Unlimited
  PROVE  rec'[s] = "unlimited"
<1>0. /\ rec \in [Servers -> {"none", "grace", "unlimited", "window"}]
      /\ s \in Servers /\ rec[s] = "unlimited"
  BY DEF Typed, WizarrOK, Unlimited
<1>1. CASE \E o \in Operations : Redeem(o)
  BY <1>0, <1>1 DEF Redeem
<1>2. CASE \E t \in Servers : Lapse(t)
  BY <1>0, <1>2 DEF Lapse, DropRecord
<1>3. ~\E t \in Servers : disableUser(t) \/ setExpiry(t) \/ SweepStamps(t)
  BY DEF disableUser, setExpiry, SweepStamps, stage, looping, JobSpares, LoopSpares
<1>4. CASE UNCHANGED rec
  BY <1>0, <1>4
<1>5. QED
  BY <1>1, <1>2, <1>3, <1>4, Writers DEF Records

\* A VIP's access is a standing grant: while they are tagged, no handler and no
\* sweep disables or time-boxes a record without an expiry.
THEOREM VipSpared == Spec => VipLeftAlone
<1>1. Init => Granted
  BY DEF Init, Granted
<1>2. Typed /\ Granted /\ [Next]_vars => Granted'
  BY GrantedKeeps
<1>3. Typed /\ Granted /\ [Next]_vars =>
        [tag = "vip" /\ grant /\ grant' => \A s \in Unlimited : rec'[s] = "unlimited"]_vars
  BY UnlimitedStays DEF Granted
<1>4. QED
  BY <1>1, <1>2, <1>3, TypedAlways, PTL DEF Spec, VipLeftAlone

---------------------------------------------------------------------------
\* Whoever pays is called subscribed.

\* The flag is taken from everyone only when none of them has a live subscription.
LEMMA UnsubscribedWhenDead ==
  ASSUME Typed, Known, [Next]_vars
  PROVE  \/ /\ subscribed' = subscribed /\ UNCHANGED rows
            /\ SnapshotRead /\ IsType("paid") => isBanned
         \/ Issue /\ subscribed' = subscribed \union {Payer}
         \/ SnapshotRead /\ IsType("paid") /\ subscribed' = Rows /\ UNCHANGED rows
         \/ Live \intersect Rows = {} /\ UNCHANGED <<rows, sub>> /\ job'.event.type = "deleted"
<1>0. JobOK /\ owed \subseteq Events /\ \A e \in owed : e.type = "deleted" => e.cust \notin Live
  BY DEF Typed, Known, Live
<1>1. CASE Marks
  <2> PICK e \in owed : PaidStarts(e) \/ FailedStarts(e) \/ onSubscriptionUpdated(e) \/ DeletedStarts(e)
    BY <1>1 DEF Marks
  <2>1. CASE PaidStarts(e) \/ FailedStarts(e) \/ onSubscriptionUpdated(e)
    <3>1. subscribed' = subscribed /\ UNCHANGED rows
      BY <2>1 DEF PaidStarts, FailedStarts, onSubscriptionUpdated
    <3>2. job = Idle
      BY <2>1 DEF PaidStarts, FailedStarts, onSubscriptionUpdated, Takes
    <3>3. ~SnapshotRead
      BY <3>2 DEF SnapshotRead, stage, Idle
    <3>4. QED
      BY <3>1, <3>3
  <2>2. CASE DeletedStarts(e)
    <3>1. e.cust \notin Live /\ UNCHANGED <<rows, sub>> /\ ~SnapshotRead
      BY <1>0, <2>2 DEF DeletedStarts, Takes, stripeVars, SnapshotRead, stage, Idle
    <3>2. job'.event.type = "deleted"
      <4>1. e.type = "deleted" /\ (Starts(e, "snapshot") \/ Starts(e, "sibling"))
        BY <2>2 DEF DeletedStarts, Takes
      <4>2. ASSUME NEW at, Starts(e, at) PROVE job'.event = e
        BY <4>2 DEF Starts
      <4>3. QED
        BY <4>1, <4>2
    <3>3. CASE siblings(e.cust) = {}
      BY <3>1, <3>2, <3>3 DEF siblings
    <3>4. CASE siblings(e.cust) # {}
      BY <2>2, <3>1, <3>4 DEF DeletedStarts
    <3>5. QED
      BY <3>3, <3>4
  <2>3. QED
    BY <2>1, <2>2
<1>2. CASE NoSiblingPays
  <2>1. job.event \in owed /\ job.event.type \in {"failed", "deleted"} /\ UNCHANGED <<rows, sub>>
        /\ siblings(Payer) \intersect Live = {} /\ job \in Jobs /\ ~SnapshotRead
    BY <1>0, <1>2, Running DEF NoSiblingPays, stage, TypesAt, stripeVars, SnapshotRead
  <2>2. CASE IsType("failed")
    BY <1>2, <2>1, <2>2 DEF NoSiblingPays
  <2>3. CASE ~IsType("failed")
    <3>1. job'.event = job.event
      BY <1>2, <2>1, <2>3 DEF NoSiblingPays, At, Jobs
    <3>2. QED
      BY <1>0, <2>1, <2>3, <3>1 DEF IsType, Payer, siblings
  <2>4. QED
    BY <2>2, <2>3
<1>3. CASE \E p \in Customers : SiblingFound(p)
  BY <1>3 DEF SiblingFound, SnapshotRead, stage
<1>4. CASE SnapshotRead
  <2>1. job.event.type \in {"checkout", "paid", "deleted"} /\ UNCHANGED rows
    BY <1>0, <1>4, Running DEF SnapshotRead, stage, TypesAt
  <2>2. CASE IsType("paid")
    BY <1>4, <2>1, <2>2 DEF SnapshotRead, IsType, PaidJudged, setSubscribed
  <2>3. CASE ~IsType("paid")
    BY <1>4, <2>1, <2>3 DEF SnapshotRead, IsType, CheckoutJudged, DeletedJudged
  <2>4. QED
    BY <2>2, <2>3
<1>5. CASE Issue
  BY <1>5 DEF Issue
<1>6. CASE UNCHANGED subscribed /\ ~Issue
  <2>1. UNCHANGED rows
    BY <1>6, Writers
  <2>2. CASE SnapshotRead /\ IsType("paid") /\ ~isBanned
    BY <2>1, <2>2 DEF SnapshotRead, IsType, PaidJudged, setSubscribed
  <2>3. QED
    BY <1>6, <2>1, <2>2
<1>7. QED
  BY <1>1, <1>2, <1>3, <1>4, <1>5, <1>6, Writers DEF Judges

\* An event leaves Stripe's list when its handler is done with it.
LEMMA EventsGo ==
  ASSUME Typed, [Next]_vars, NEW e \in owed, e \notin owed'
  PROVE  \/ e.type # "paid" \/ e.n = 0
         \/ job # Idle /\ e = job.event /\ (job.stage # "snapshot" \/ SnapshotRead)
<1>0. JobOK /\ e \in Events /\ MaxInvoices \in Nat
  BY AccessAssumption DEF Typed
<1>1. CASE \E d \in owed : Starting(d)
  <2> PICK d \in owed : Starting(d)
    BY <1>1
  <2>1. owed' = owed \/ (owed' = owed \ {d} /\ (d.type # "paid" \/ d.n = 0))
    BY DEF Starting, CheckoutStarts, PaidStarts, FailedStarts, onSubscriptionUpdated, DeletedStarts,
           Done, Takes
  <2>2. QED
    BY <2>1
<1>2. ASSUME job.stage # "idle", job.stage # "snapshot" \/ SnapshotRead, Done(job.event)
      PROVE  job # Idle /\ e = job.event /\ (job.stage # "snapshot" \/ SnapshotRead)
  BY <1>2 DEF Done, Idle
<1>3. CASE NoSiblingPays
  <2>1. job.stage = "sibling" /\ (Done(job.event) \/ owed' = owed)
    BY <1>3 DEF NoSiblingPays, stage
  <2>2. QED
    BY <1>2, <2>1
<1>4. CASE SnapshotRead
  <2>1. job.stage = "snapshot" /\ job.event.type \in {"checkout", "paid", "deleted"}
    BY <1>0, <1>4, Running DEF SnapshotRead, stage, TypesAt
  <2>2. Done(job.event) \/ owed' = owed
    BY <1>4, <2>1
       DEF SnapshotRead, IsType, CheckoutJudged, blockBannedCheckout, PaidJudged, DeletedJudged
  <2>3. QED
    BY <1>2, <1>4, <2>1, <2>2
<1>5. CASE Mail \/ RetireDone \/ WorkDone
  <2>1. job.stage \in {"mail", "retire", "work"} /\ (Done(job.event) \/ owed' = owed)
    BY <1>5 DEF Mail, RetireDone, WorkDone, stage
  <2>2. QED
    BY <1>2, <2>1
<1>6. CASE Stripe
  BY <1>6, StripeTyped
<1>7. CASE \E c \in Customers : SiblingFound(c) \/ cancelNow(c)
  BY <1>7 DEF SiblingFound, cancelNow
<1>8. CASE Issue \/ RetireListed \/ CallOnGoneRecord
  BY <1>8 DEF Issue, RetireListed, CallOnGoneRecord
<1>9. CASE \E s \in Servers : disableUser(s) \/ setExpiry(s) \/ Lapse(s)
  BY <1>9 DEF disableUser, setExpiry, Lapse
<1>10. CASE \/ Reconciling \/ PassFails \/ (\E t \in {"none", "vip", "banned"} : setTag(t))
            \/ (\E o \in Operations : Redeem(o)) \/ HandlerFails \/ RetireGivesUp \/ UNCHANGED vars
  BY <1>10 DEF Reconciling, StatusesRead, checkPaymentStates, SweepStarts, SweepReads, SweepStamps,
               SweepEnds, PassFails, setTag, Redeem, HandlerFails, RetireGivesUp, vars
<1>11. QED
  BY <1>1, <1>3, <1>4, <1>5, <1>6, <1>7, <1>8, <1>9, <1>10 DEF Next, Handling

\* A renewal's handler has judged its snapshot, or is past it and was already.
LEMMA RenewalsMove ==
  ASSUME Typed, [Next]_vars, job' # Idle, job'.event.type = "paid", job'.stage # "snapshot"
  PROVE  \/ SnapshotRead /\ IsType("paid")
         \/ job # Idle /\ job'.event = job.event /\ job.stage # "snapshot"
<1>0. JobOK
  BY DEF Typed
<1>1. CASE \E e \in owed : Starting(e)
  <2> PICK e \in owed : Starting(e)
    BY <1>1
  <2>1. \/ Starts(e, "snapshot") \/ Done(e)
        \/ Starts(e, "sibling") /\ e.type \in {"failed", "deleted"}
    BY DEF Starting, CheckoutStarts, PaidStarts, FailedStarts, onSubscriptionUpdated, DeletedStarts,
           Takes
  <2>2. QED
    BY <2>1 DEF Starts, Done
<1>2. CASE \E p \in Customers : SiblingFound(p)
  <2>1. job \in Jobs /\ job.event.type \in {"failed", "deleted"}
    BY <1>0, <1>2, Running DEF SiblingFound, stage, TypesAt
  <2>2. job'.event = job.event
    BY <1>2, <2>1 DEF SiblingFound, Jobs
  <2>3. QED
    BY <2>1, <2>2
<1>3. CASE NoSiblingPays
  <2>1. job \in Jobs /\ job.event.type \in {"failed", "deleted"}
    BY <1>0, <1>3, Running DEF NoSiblingPays, stage, TypesAt
  <2>2. CASE At("snapshot")
    BY <2>1, <2>2 DEF At, Jobs
  <2>3. CASE Done(job.event)
    BY <2>3 DEF Done
  <2>4. QED
    BY <1>3, <2>2, <2>3 DEF NoSiblingPays
<1>4. CASE SnapshotRead
  <2>1. job \in Jobs /\ job.event.type \in {"checkout", "paid", "deleted"}
    BY <1>0, <1>4, Running DEF SnapshotRead, stage, TypesAt
  <2> DEFINE seen  == [job EXCEPT !.held = Held, !.valid = Held, !.used = Used,
                                  !.vip = holdsStandingGrant]
             found == resolveIdentity(seen)
  <2>2. seen.event = job.event /\ seen \in Jobs
    BY <2>1, Snapshots DEF Jobs, holdsStandingGrant
  <2>3. \/ IsType("checkout") /\ CheckoutJudged(seen)
        \/ IsType("paid")
        \/ IsType("deleted") /\ DeletedJudged(seen, found)
    BY <1>4, <2>1 DEF SnapshotRead, IsType
  <2> HIDE DEF seen, found
  <2>4. CASE IsType("checkout") /\ CheckoutJudged(seen)
    <3>1. CASE job' = [seen EXCEPT !.stage = "issue"]
      BY <2>2, <2>4, <3>1 DEF IsType, Jobs
    <3>2. CASE Done(job.event)
      BY <3>2 DEF Done
    <3>3. QED
      BY <2>4, <3>1, <3>2 DEF CheckoutJudged, blockBannedCheckout
  <2>5. CASE IsType("deleted") /\ DeletedJudged(seen, found)
    <3>1. CASE job' = Work(seen, found, {})
      BY <2>2, <2>5, <3>1 DEF IsType, Work, Jobs
    <3>2. CASE Done(job.event)
      BY <3>2 DEF Done
    <3>3. QED
      BY <2>5, <3>1, <3>2 DEF DeletedJudged
  <2>6. QED
    BY <1>4, <2>3, <2>4, <2>5
<1>5. CASE CallOnGoneRecord \/ HandlerFails \/ WorkDone
  BY <1>5 DEF CallOnGoneRecord, HandlerFails, WorkDone, Done
<1>6. CASE \/ Issue \/ Mail \/ RetireListed \/ RetireDone \/ RetireGivesUp
           \/ (\E c \in Customers : cancelNow(c))
           \/ (\E s \in Servers : disableUser(s) \/ setExpiry(s))
  <2>1. job.stage \in {"issue", "mail", "retireList", "retire", "work"}
    <3>1. CASE Issue \/ Mail \/ RetireListed \/ RetireDone \/ RetireGivesUp
      BY <3>1 DEF Issue, Mail, RetireListed, RetireDone, RetireGivesUp, stage
    <3>2. CASE (\E c \in Customers : cancelNow(c)) \/ (\E s \in Servers : disableUser(s) \/ setExpiry(s))
      BY <3>2 DEF cancelNow, disableUser, setExpiry, stage
    <3>3. QED
      BY <1>6, <3>1, <3>2
  <2>2. job \in Jobs /\ job # Idle /\ job.stage # "snapshot"
    BY <1>0, <2>1, Running DEF Idle
  <2>3. CASE Issue \/ Mail
    BY <2>2, <2>3 DEF Issue, Mail, At, Done, Jobs
  <2>4. CASE RetireListed \/ RetireGivesUp
    <3>1. CASE RetireListed
      BY <2>2, <3>1 DEF RetireListed, Jobs
    <3>2. CASE RetireGivesUp
      BY <2>2, <3>2 DEF RetireGivesUp, Jobs
    <3>3. QED
      BY <2>4, <3>1, <3>2
  <2>5. CASE RetireDone
    BY <2>2, <2>5 DEF RetireDone, Work, Done, Jobs
  <2>6. CASE \E c \in Customers : cancelNow(c)
    BY <2>2, <2>6 DEF cancelNow, Jobs
  <2>7. CASE \E s \in Servers : disableUser(s) \/ setExpiry(s)
    BY <2>2, <2>7 DEF disableUser, setExpiry, Jobs
  <2>8. QED
    BY <1>6, <2>3, <2>4, <2>5, <2>6, <2>7
<1>7. CASE (\E o \in Operations : Redeem(o)) \/ (\E s \in Servers : Lapse(s))
  <2>1. \E gone : job' = Losing(job, gone)
    BY <1>7 DEF Redeem, Lapse
  <2> PICK gone : job' = Losing(job, gone)
    BY <2>1
  <2>2. job \in Jobs
    BY <1>0, LosingTyped DEF JobOK
  <2>3. job'.event = job.event /\ job'.stage = job.stage
    BY <2>2, LosingTyped
  <2>4. job # Idle
    BY <2>2 DEF Jobs, JobStages, Idle
  <2>5. QED
    BY <2>3, <2>4
<1>8. Reconciling \/ PassFails \/ Stripe \/ (\E t \in {"none", "vip", "banned"} : setTag(t))
         \/ UNCHANGED vars => UNCHANGED job
  BY DEF Reconciling, StatusesRead, checkPaymentStates, SweepStarts, SweepReads, SweepStamps,
         SweepEnds, PassFails, Stripe, Subscribe, Renew, ChargeFails, Recover, Cancel, setTag, vars
<1>9. QED
  BY <1>1, <1>2, <1>3, <1>4, <1>5, <1>6, <1>7, <1>8 DEF Next, Handling

\* A customer with a row comes back to life by paying an invoice Stripe then owes
\* an event for.
LEMMA NewlyLive ==
  ASSUME Typed, Known, [Next]_vars, NEW c \in Rows, c \in Live', c \notin Live
  PROVE  Renewals' # {}
<1>0. /\ sub \in [Customers -> SubStatuses] /\ invoices \in [Customers -> 0..MaxInvoices]
      /\ MaxInvoices \in Nat /\ c \in Customers /\ sub'[c] = "live" /\ sub[c] # "live" /\ sub[c] # "none"
  BY AccessAssumption DEF Typed, StripeOK, Live, Known
<1>1. CASE Stripe
  <2> PICK d \in Customers : Subscribe(d) \/ Renew(d) \/ ChargeFails(d) \/ Recover(d) \/ Cancel(d)
    BY <1>1 DEF Stripe
  <2>1. Recover(d)
    BY <1>0 DEF Subscribe, Renew, ChargeFails, Cancel, Becomes
  <2>2. invoices'[d] = invoices[d] + 1 /\ Event("paid", d, invoices'[d]) \in owed'
    BY <1>0, <2>1 DEF Recover, NextInvoice, Emit
  <2>3. invoices'[d] > 0 /\ invoices'[d] \in 0..MaxInvoices
    BY <1>0, <2>1, <2>2 DEF Recover, NextInvoice
  <2>4. 0 < Event("paid", d, invoices'[d]).n /\ Event("paid", d, invoices'[d]).type = "paid"
    BY <2>3, EventTyped
  <2>5. QED
    BY <2>2, <2>4 DEF Renewals
<1>2. CASE \E d \in Customers : cancelNow(d)
  BY <1>0, <1>2 DEF cancelNow, Becomes
<1>3. CASE UNCHANGED sub
  BY <1>0, <1>3
<1>4. QED
  BY <1>1, <1>2, <1>3, Writers

\* Every step keeps whoever pays subscribed, or owed the event that makes it so.
LEMMA PayingKeeps ==
  ASSUME Typed, Typed', Known, Paying, [Next]_vars
  PROVE  Paying'
<1> SUFFICES ASSUME tags' = 0
             PROVE  /\ tag' = "none"
                    /\ job' # Idle /\ job'.event \in Renewals' /\ job'.stage # "snapshot"
                         => NewestSubscribed'
                    /\ Live' \intersect Rows' # {} => newestRow' \in subscribed' \/ Renewals' # {}
  BY DEF Paying
<1>0. tags = 0 /\ tag' = tag /\ tag = "none"
  <2>1. tags \in Nat
    BY AccessAssumption DEF Typed, CountsOK
  <2>2. UNCHANGED adminVars
    BY <2>1, Writers DEF setTag
  <2>3. QED
    BY <2>2 DEF adminVars, Paying
<1>1. /\ job # Idle /\ job.event \in Renewals /\ job.stage # "snapshot" => NewestSubscribed
      /\ Live \intersect Rows # {} => newestRow \in subscribed \/ Renewals # {}
  BY <1>0 DEF Paying
<1>2. rows \in Seq(Customers) /\ (rows # <<>> => newestRow \in Rows) /\ (rows = <<>> => Rows = {})
  <2>1. rows \in Seq(Customers)
    BY DEF Typed, RowsOK
  <2>2. QED
    BY <2>1 DEF newestRow, Rows
<1>3. CASE SnapshotRead /\ IsType("paid") /\ subscribed' = Rows /\ UNCHANGED rows
  <2>1. newestRow' = newestRow /\ Rows' = Rows
    BY <1>3 DEF newestRow, Rows
  <2>2. QED
    BY <1>0, <1>2, <1>3, <2>1 DEF NewestSubscribed
<1>4. CASE Issue /\ subscribed' = subscribed \union {Payer}
  <2>1. UNCHANGED <<sub, owed>> /\ Live' = Live /\ Renewals' = Renewals
    BY <1>4 DEF Issue, stripeVars, Live, Renewals
  <2>2. CASE UNCHANGED rows /\ Rows' = Rows
    <3>1. newestRow' = newestRow
      BY <2>2 DEF newestRow
    <3>2. job'.event.type = "paid" /\ job' # Idle /\ job'.stage # "snapshot"
            => job # Idle /\ job.stage # "snapshot" /\ job'.event = job.event
      BY <1>4, RenewalsMove DEF Issue, SnapshotRead, stage
    <3>3. QED
      BY <1>0, <1>1, <1>4, <2>1, <2>2, <3>1, <3>2 DEF NewestSubscribed, Renewals
  <2>3. CASE newestRow' = Payer
    BY <1>0, <1>4, <2>3 DEF NewestSubscribed
  <2>4. QED
    BY <2>2, <2>3, NewRows
<1>5. CASE Live \intersect Rows = {} /\ UNCHANGED <<rows, sub>> /\ job'.event.type = "deleted"
  <2>1. Live' = Live /\ Rows' = Rows
    BY <1>5 DEF Live, Rows
  <2>2. job'.event \notin Renewals'
    BY <1>5 DEF Renewals
  <2>3. QED
    BY <1>0, <1>5, <2>1, <2>2
<1>6. CASE subscribed' = subscribed /\ UNCHANGED rows /\ (SnapshotRead /\ IsType("paid") => isBanned)
  <2>1. newestRow' = newestRow /\ Rows' = Rows /\ (NewestSubscribed' <=> NewestSubscribed)
    BY <1>6 DEF newestRow, Rows, NewestSubscribed
  <2>2. ~(SnapshotRead /\ IsType("paid"))
    BY <1>0, <1>6 DEF isBanned
  <2>3. ASSUME job' # Idle, job'.event \in Renewals', job'.stage # "snapshot"
        PROVE  NewestSubscribed
    <3>1. job # Idle /\ job'.event = job.event /\ job.stage # "snapshot"
      BY <2>2, <2>3, RenewalsMove DEF Renewals
    <3>2. job.event \in owed
      BY <3>1 DEF Typed, JobOK
    <3>3. QED
      BY <1>1, <2>3, <3>1, <3>2 DEF Renewals
  <2>4. ASSUME Live' \intersect Rows # {}, Renewals' = {}
        PROVE  newestRow \in subscribed
    <3>1. Live \intersect Rows # {}
      BY <2>4, NewlyLive
    <3>2. CASE Renewals # {}
      <4>1. PICK e \in Renewals : TRUE
        BY <3>2
      <4>2. e \in owed /\ e \notin owed' /\ e.type = "paid" /\ e.n > 0 /\ e.n \in Nat
        <5>1. e \in owed /\ e \in Events /\ e.type = "paid" /\ e.n > 0
          BY DEF Renewals, Typed
        <5>2. e.n \in Nat
          <6>1. e.n \in 0..MaxInvoices /\ MaxInvoices \in Nat
            BY <5>1, EventNames, AccessAssumption
          <6>2. QED
            BY <6>1
        <5>3. QED
          BY <2>4, <5>1, <5>2 DEF Renewals
      <4>3. job # Idle /\ e = job.event /\ (job.stage # "snapshot" \/ SnapshotRead)
        BY <4>2, EventsGo
      <4>4. job.stage # "snapshot"
        BY <2>2, <4>2, <4>3 DEF IsType
      <4>5. NewestSubscribed
        BY <1>1, <4>3, <4>4
      <4>6. QED
        BY <1>2, <3>1, <4>5 DEF NewestSubscribed
    <3>3. QED
      BY <1>1, <3>1, <3>2
  <2>5. QED
    BY <1>0, <1>6, <2>1, <2>3, <2>4
<1>7. QED
  BY <1>3, <1>4, <1>5, <1>6, UnsubscribedWhenDead

\* The sweeps look after whoever the store calls subscribed: once every event is
\* handled, that includes a person Stripe still charges, whichever of their
\* customers died and in whatever order the bridge heard of it, and their page
\* calls them locked out exactly when they are.
THEOREM PayerIsSubscribed == Spec => []PayerReadsAsPaying
<1>1. Init => Known /\ Paying
  BY DEF Init, Known, Paying, Rows, Renewals
<1>2. Typed /\ Typed' /\ Known /\ [Next]_vars => Known'
  BY KnownKeeps
<1>3. Typed /\ Typed' /\ Known /\ Paying /\ [Next]_vars => Paying'
  BY PayingKeeps
<1>4. Paying => PayerReadsAsPaying
  <2> SUFFICES ASSUME Paying, Quiet, Live \intersect Rows # {}
               PROVE  newestRow \in subscribed /\ (deriveProblems.noAccess <=> Held = {})
    BY DEF PayerReadsAsPaying
  <2>1. tag = "none" /\ newestRow \in subscribed /\ Rows # {}
    BY DEF Paying, Quiet, Renewals
  <2>2. deriveStatus \in ACCESS_EXPECTED
    BY <2>1 DEF deriveStatus, ACCESS_EXPECTED, isBanned, holdsStandingGrant
  <2>3. QED
    BY <2>1, <2>2 DEF deriveProblems
<1>5. QED
  BY <1>1, <1>2, <1>3, <1>4, TypedAlways, PTL DEF Spec
=============================================================================

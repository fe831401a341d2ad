-------------------------- MODULE InviteDelivery --------------------------
(***************************************************************************)
(* From a Stripe payment event to the one invite link it buys: the webhook *)
(* controller's serial queue, handleEvent's processed check and mark, and  *)
(* the two handlers that issue an invite (a completed checkout, and a paid *)
(* invoice whose payer holds no Wizarr records), with issueInvite and      *)
(* deliverInvite.                                                          *)
(*                                                                         *)
(* A step is the code between two awaits, or between two durable writes: a *)
(* crash may fall between any two steps, and so may everything outside the *)
(* process (Stripe redelivering, a member redeeming a link, an admin       *)
(* setting a tag). Only faults are bounded, by MaxFaults: a thrown         *)
(* handler, a lost answer and a crash each spend one.                      *)
(***************************************************************************)
EXTENDS Naturals, Sequences, FiniteSets

CONSTANTS Events,       \* Stripe event ids
          Operations,   \* checkout sessions and invoices, the issuance keys
          Members,      \* the people paying
          Deliveries,   \* webhook requests that can be open at once
          Codes,        \* invite codes Wizarr can mint
          OperationOf,  \* [Events -> Operations]
          Checkouts,    \* the operations that are checkout sessions
          Nameless,     \* the checkouts whose session holds no address
          OwnerOf,      \* [Operations -> Members]
          NoEvent, NoCode,
          MaxFaults

ASSUME ShapeAssumption ==
  /\ OperationOf \in [Events -> Operations]
  /\ OwnerOf \in [Operations -> Members]
  /\ Checkouts \subseteq Operations
  /\ Nameless \subseteq Checkouts
  /\ NoEvent \notin Events
  /\ NoCode \notin Codes
  /\ MaxFaults \in Nat

VARIABLES
  owed,         \* events Stripe has had no 200 for
  line,         \* serialQueue's chain: open deliveries, the running one first
  pc,           \* where each delivery's handler stands
  held,         \* the event a delivery carries
  code,         \* the code the handler holds after getInviteIssuance or mint
  already,      \* deliveries whose issuance row said the link was emailed
  processed,    \* processed_events
  bound,        \* session_invites.invite_code
  emailed,      \* session_invites.emailed
  row,          \* the invite code on the member's customer_map row
  minted,       \* codes that exist in Wizarr
  mails,        \* mails[o]: the codes of the invite mails SMTP accepted, in order
  tag,          \* the admin tag on each member
  records,      \* members holding Wizarr records
  faults,
  \* History, read by no action: runs that ended between a code's creation and
  \* its binding, or between a mail's acceptance and its mark; events whose
  \* run decided no link is due; links mailed since the member was banned.
  mintDoubt, mailDoubt, excused, sinceBan

queueVars == <<owed, line, held>>
jobVars == <<pc, code, already>>
storeVars == <<processed, bound, emailed, row>>
worldVars == <<minted, mails, tag, records>>
historyVars == <<mintDoubt, mailDoubt, excused, sinceBan>>
vars == <<queueVars, jobVars, storeVars, worldVars, faults, historyVars>>

Stages == {"snapshot", "renewing", "scope", "minting", "binding",
           "pendingRow", "mailing", "sent", "after", "marking"}
Tags == {"none", "vip", "banned"}

TypeOK ==
  /\ owed \subseteq Events
  /\ line \in Seq(Deliveries)
  /\ pc \in [Deliveries -> Stages \union {"idle", "waiting"}]
  /\ held \in [Deliveries -> Events \union {NoEvent}]
  /\ code \in [Deliveries -> Codes \union {NoCode}]
  /\ already \subseteq Deliveries
  /\ processed \subseteq Events
  /\ bound \in [Operations -> Codes \union {NoCode}]
  /\ emailed \subseteq Operations
  /\ row \in [Members -> Codes \union {NoCode}]
  /\ minted \subseteq Codes
  /\ mails \in [Operations -> Seq(Codes)]
  /\ tag \in [Members -> Tags]
  /\ records \subseteq Members
  /\ faults \in Nat
  /\ mintDoubt \in Nat
  /\ mailDoubt \in [Operations -> Nat]
  /\ excused \subseteq Events
  /\ sinceBan \in [Members -> Nat]

Init ==
  /\ owed = Events
  /\ line = <<>>
  /\ pc = [d \in Deliveries |-> "idle"]
  /\ held = [d \in Deliveries |-> NoEvent]
  /\ code = [d \in Deliveries |-> NoCode]
  /\ already = {}
  /\ processed = {}
  /\ bound = [o \in Operations |-> NoCode]
  /\ emailed = {}
  /\ row = [m \in Members |-> NoCode]
  /\ minted = {}
  /\ mails = [o \in Operations |-> <<>>]
  /\ tag = [m \in Members |-> "none"]
  /\ records \in SUBSET Members
  /\ faults = 0
  /\ mintDoubt = 0
  /\ mailDoubt = [o \in Operations |-> 0]
  /\ excused = {}
  /\ sinceBan = [m \in Members |-> 0]

Op(d) == OperationOf[held[d]]
Payer(d) == OwnerOf[Op(d)]
IsCheckout(d) == Op(d) \in Checkouts
Active(d) == pc[d] \in Stages

Goto(d, from, to) ==
  /\ pc[d] = from
  /\ pc' = [pc EXCEPT ![d] = to]

---------------------------------------------------------------------------
\* The queue.

\* Stripe delivers, or redelivers, an event it has had no 200 for. It does not
\* wait for an open delivery of the same event.
Deliver(d, e) ==
  /\ e \in owed
  /\ Goto(d, "idle", "waiting")
  /\ held' = [held EXCEPT ![d] = e]
  /\ line' = Append(line, d)
  /\ UNCHANGED <<owed, code, already, storeVars, worldVars, faults, historyVars>>

\* Mutant: no queue, every delivery handled as it arrives.
MyTurnAtOnce(d) == pc[d] # "idle"

\* tail.then(job): a delivery runs once every one before it has settled.
MyTurn(d) == line # <<>> /\ Head(line) = d

\* The delivery is answered and the next in line may start.
Settle(d) ==
  /\ pc' = [pc EXCEPT ![d] = "idle"]
  /\ held' = [held EXCEPT ![d] = NoEvent]
  /\ code' = [code EXCEPT ![d] = NoCode]
  /\ already' = already \ {d}
  /\ line' = Tail(line)

\* A 200, which Stripe may give up waiting for.
Answer200(e) == owed' = owed \/ owed' = owed \ {e}

\* handleEvent up to its first await: a processed event is answered at once.
StartNew(d) ==
  /\ Goto(d, "waiting", "snapshot")
  /\ MyTurn(d)
  /\ held[d] \notin processed
  /\ UNCHANGED <<queueVars, code, already, storeVars, worldVars, faults, historyVars>>

SkipProcessed(d) ==
  /\ pc[d] = "waiting"
  /\ MyTurn(d)
  /\ held[d] \in processed
  /\ Settle(d)
  /\ Answer200(held[d])
  /\ UNCHANGED <<storeVars, worldVars, faults, historyVars>>

\* markEventProcessed, after the handler has returned.
MarkProcessed(d) ==
  /\ pc[d] = "marking"
  /\ processed' = processed \union {held[d]}
  /\ Settle(d)
  /\ Answer200(held[d])
  /\ UNCHANGED <<bound, emailed, row, worldVars, faults, historyVars>>

---------------------------------------------------------------------------
\* The handlers, await by await.

\* Mutant: the tag is read for VIPs only.
ReadStandingNoBan(d) ==
  LET vip     == ~IsCheckout(d) /\ tag[Payer(d)] = "vip"
      renewal == ~IsCheckout(d) /\ Payer(d) \in records
  IN /\ Goto(d, "snapshot", IF vip THEN "marking"
                            ELSE IF renewal THEN "renewing" ELSE "scope")
     /\ excused' = IF vip THEN excused \union {held[d]} ELSE excused
     /\ UNCHANGED <<queueVars, code, already, storeVars, worldVars, faults,
                    mintDoubt, mailDoubt, sinceBan>>

\* The snapshot has arrived: the tag is read and the run branches on it. A ban
\* ends either handler, and so, before the snapshot is asked for, does a checkout
\* that names nobody. A VIP's invoice is only acknowledged, and one whose payer
\* holds records extends them; everything else is owed a link.
ReadStanding(d) ==
  LET banned  == tag[Payer(d)] = "banned" \/ Op(d) \in Nameless
      vip     == ~IsCheckout(d) /\ tag[Payer(d)] = "vip"
      renewal == ~IsCheckout(d) /\ Payer(d) \in records
      next    == IF banned \/ vip THEN "marking"
                 ELSE IF renewal THEN "renewing" ELSE "scope"
  IN /\ Goto(d, "snapshot", next)
     /\ excused' = IF banned \/ vip THEN excused \union {held[d]} ELSE excused
     /\ UNCHANGED <<queueVars, code, already, storeVars, worldVars, faults,
                    mintDoubt, mailDoubt, sinceBan>>

\* Every setExpiry has answered.
RecordsRenewed(d) ==
  /\ Goto(d, "renewing", "marking")
  /\ excused' = excused \union {held[d]}
  /\ UNCHANGED <<queueVars, code, already, storeVars, worldVars, faults,
                 mintDoubt, mailDoubt, sinceBan>>

\* issueInvite asks for the operation's invite: a recorded one is reused.
ReuseIssuance(d) ==
  /\ Goto(d, "scope", "pendingRow")
  /\ bound[Op(d)] # NoCode
  /\ code' = [code EXCEPT ![d] = bound[Op(d)]]
  /\ already' = IF Op(d) \in emailed THEN already \union {d} ELSE already
  /\ UNCHANGED <<queueVars, storeVars, worldVars, faults, historyVars>>

AskForInvite(d) ==
  /\ Goto(d, "scope", "minting")
  /\ bound[Op(d)] = NoCode
  /\ UNCHANGED <<queueVars, code, already, storeVars, worldVars, faults, historyVars>>

\* Mutant: the new invite is not recorded against its operation.
InviteCreatedUnbound(d, c) ==
  /\ c \notin minted
  /\ Goto(d, "minting", "pendingRow")
  /\ minted' = minted \union {c}
  /\ code' = [code EXCEPT ![d] = c]
  /\ UNCHANGED <<queueVars, already, storeVars, mails, tag, records, faults, historyVars>>

\* createInvite has answered with a code of its own.
InviteCreated(d, c) ==
  /\ c \notin minted
  /\ Goto(d, "minting", "binding")
  /\ minted' = minted \union {c}
  /\ code' = [code EXCEPT ![d] = c]
  /\ UNCHANGED <<queueVars, already, storeVars, mails, tag, records, faults, historyVars>>

\* recordInviteIssuance: ON CONFLICT DO NOTHING.
recordInviteIssuance(o, c) ==
  bound' = IF bound[o] = NoCode THEN [bound EXCEPT ![o] = c] ELSE bound

BindIssuance(d) ==
  /\ Goto(d, "binding", "pendingRow")
  /\ recordInviteIssuance(Op(d), code[d])
  /\ UNCHANGED <<queueVars, code, already, processed, emailed, row, worldVars,
                 faults, historyVars>>

\* upsertPending, then deliverInvite's early return for a link already out.
WritePending(d) ==
  /\ Goto(d, "pendingRow", IF d \in already THEN "after" ELSE "mailing")
  /\ row' = [row EXCEPT ![Payer(d)] = code[d]]
  /\ UNCHANGED <<queueVars, code, already, processed, bound, emailed, worldVars,
                 faults, historyVars>>

\* SMTP takes the mail, and the ban clock counts it.
SmtpAccepts(d) ==
  /\ mails' = [mails EXCEPT ![Op(d)] = Append(@, code[d])]
  /\ sinceBan' = IF tag[Payer(d)] = "banned"
                 THEN [sinceBan EXCEPT ![Payer(d)] = @ + 1] ELSE sinceBan

InviteMailed(d) ==
  /\ Goto(d, "mailing", "sent")
  /\ SmtpAccepts(d)
  /\ UNCHANGED <<queueVars, code, already, storeVars, minted, tag, records,
                 faults, mintDoubt, mailDoubt, excused>>

\* Mutant: the mark is not written.
MarkEmailedUnwritten(d) ==
  /\ Goto(d, "sent", "after")
  /\ UNCHANGED <<queueVars, code, already, storeVars, worldVars, faults, historyVars>>

\* markInviteEmailed
MarkEmailed(d) ==
  /\ Goto(d, "sent", "after")
  /\ emailed' = emailed \union {Op(d)}
  /\ UNCHANGED <<queueVars, code, already, processed, bound, row, worldVars,
                 faults, historyVars>>

\* What follows a delivered link: the alert, and for a checkout the duplicates'
\* retirement and the re-stamped records, whose failure fails the delivery.
FinishHandler(d) ==
  /\ Goto(d, "after", "marking")
  /\ UNCHANGED <<queueVars, code, already, storeVars, worldVars, faults, historyVars>>

---------------------------------------------------------------------------
\* Faults.

Fault == faults < MaxFaults /\ faults' = faults + 1

\* Runs cut off at a point where the outside world is ahead of the store.
CutOff(cut) ==
  /\ mintDoubt' = IF \E d \in cut : pc[d] = "binding" THEN mintDoubt + 1 ELSE mintDoubt
  /\ mailDoubt' = [o \in Operations |->
       IF \E d \in cut : pc[d] = "sent" /\ Op(d) = o THEN mailDoubt[o] + 1 ELSE mailDoubt[o]]

\* Mutant: a failed handler's event is marked all the same.
HandlerThrowsMarked(d) ==
  /\ Active(d)
  /\ Fault
  /\ CutOff({d})
  /\ processed' = processed \union {held[d]}
  /\ Settle(d)
  /\ UNCHANGED <<owed, bound, emailed, row, worldVars, excused, sinceBan>>

\* Mutant: a failed handler is answered with a 200.
HandlerThrowsAnswered(d) ==
  /\ Active(d)
  /\ Fault
  /\ CutOff({d})
  /\ owed' = owed \ {held[d]}
  /\ Settle(d)
  /\ UNCHANGED <<storeVars, worldVars, excused, sinceBan>>

\* The handler throws (a Wizarr, Stripe or SMTP call that did nothing, an empty
\* scope, a store write SQLite refused): a 500, and Stripe keeps the event.
HandlerThrows(d) ==
  /\ Active(d)
  /\ Fault
  /\ CutOff({d})
  /\ Settle(d)
  /\ UNCHANGED <<owed, storeVars, worldVars, excused, sinceBan>>

\* createInvite times out after Wizarr made the invitation.
CreatedAnswerLost(d, c) ==
  /\ pc[d] = "minting"
  /\ c \notin minted
  /\ Fault
  /\ minted' = minted \union {c}
  /\ mintDoubt' = mintDoubt + 1
  /\ Settle(d)
  /\ UNCHANGED <<owed, storeVars, mails, tag, records, mailDoubt, excused, sinceBan>>

\* sendInvite throws although the SMTP host took the mail.
MailedAnswerLost(d) ==
  /\ pc[d] = "mailing"
  /\ Fault
  /\ SmtpAccepts(d)
  /\ mailDoubt' = [mailDoubt EXCEPT ![Op(d)] = @ + 1]
  /\ Settle(d)
  /\ UNCHANGED <<owed, storeVars, minted, tag, records, mintDoubt, excused>>

\* The process dies: every open request is lost, every write that was made stays.
Crash ==
  /\ line # <<>>
  /\ Fault
  /\ CutOff({d \in Deliveries : Active(d)})
  /\ line' = <<>>
  /\ pc' = [d \in Deliveries |-> "idle"]
  /\ held' = [d \in Deliveries |-> NoEvent]
  /\ code' = [d \in Deliveries |-> NoCode]
  /\ already' = {}
  /\ UNCHANGED <<owed, storeVars, worldVars, excused, sinceBan>>

---------------------------------------------------------------------------
\* What happens outside the webhook.

\* The admin sets or clears a tag, in no order with the queue.
SetTag(m, t) ==
  /\ tag[m] # t
  /\ tag' = [tag EXCEPT ![m] = t]
  /\ sinceBan' = [sinceBan EXCEPT ![m] = 0]
  /\ UNCHANGED <<queueVars, jobVars, storeVars, minted, mails, records, faults,
                 mintDoubt, mailDoubt, excused>>

\* A member opens a link they were mailed.
Redeem(m) ==
  /\ m \notin records
  /\ \E o \in Operations : OwnerOf[o] = m /\ mails[o] # <<>>
  /\ records' = records \union {m}
  /\ UNCHANGED <<queueVars, jobVars, storeVars, minted, mails, tag, faults, historyVars>>

\* Wizarr drops an expired or disabled member's records.
LoseRecords(m) ==
  /\ m \in records
  /\ records' = records \ {m}
  /\ UNCHANGED <<queueVars, jobVars, storeVars, minted, mails, tag, faults, historyVars>>

Step(d) ==
  \/ StartNew(d)
  \/ SkipProcessed(d)
  \/ ReadStanding(d)
  \/ RecordsRenewed(d)
  \/ ReuseIssuance(d)
  \/ AskForInvite(d)
  \/ \E c \in Codes : InviteCreated(d, c)
  \/ BindIssuance(d)
  \/ WritePending(d)
  \/ InviteMailed(d)
  \/ MarkEmailed(d)
  \/ FinishHandler(d)
  \/ MarkProcessed(d)

Next ==
  \/ \E d \in Deliveries, e \in Events : Deliver(d, e)
  \/ \E d \in Deliveries : Step(d)
  \/ \E d \in Deliveries : HandlerThrows(d)
  \/ \E d \in Deliveries, c \in Codes : CreatedAnswerLost(d, c)
  \/ \E d \in Deliveries : MailedAnswerLost(d)
  \/ Crash
  \/ \E m \in Members, t \in Tags : SetTag(m, t)
  \/ \E m \in Members : Redeem(m)
  \/ \E m \in Members : LoseRecords(m)

Spec == Init /\ [][Next]_vars

\* The queue and the handlers keep going, and Stripe redelivers an event it was
\* never answered for: it finds a free delivery again and again, not always,
\* hence SF. No member and no admin has to act, and no fault has to happen.
Fairness ==
  /\ \A d \in Deliveries : WF_vars(Step(d))
  /\ \A e \in Events : SF_vars(\E d \in Deliveries : Deliver(d, e) /\ e \notin processed)

FairSpec == Spec /\ Fairness

---------------------------------------------------------------------------
\* Properties.

\* Every mail about one operation carries one link, the recorded one, however
\* often Stripe redelivers, in whatever order, and wherever a run was cut off
\* (issueInvite's reuse of the issuance, under the serial queue).
OneLinkPerOperation ==
  \A o \in Operations : \A i \in 1..Len(mails[o]) : mails[o][i] = bound[o]

\* An operation's link goes out once, plus once for each run that lost track of
\* a mail it had handed to SMTP (deliverInvite's emailed flag).
MailedOncePerDoubt ==
  \A o \in Operations : Len(mails[o]) <= 1 + mailDoubt[o]

\* An invitation Wizarr holds for nobody is one a run lost between creating it
\* and recording it, or one a run is about to record: redeliveries mint nothing.
OrphansComeFromDoubts ==
  Cardinality(minted \ {bound[o] : o \in Operations})
    <= mintDoubt + Cardinality({d \in Deliveries : pc[d] = "binding"})

\* A member a link was mailed to is on the members list, under a link recorded
\* for an operation of theirs (the order of issueInvite's writes).
MailedMemberIsListed ==
  \A o \in Operations : mails[o] # <<>> =>
    \E p \in Operations : /\ OwnerOf[p] = OwnerOf[o]
                          /\ bound[p] # NoCode
                          /\ row[OwnerOf[o]] = bound[p]

\* However often an event is delivered it adds no mail, no link and no member: what
\* was sent, minted and listed is accounted for by the runs that were cut off.
RedeliveriesAddNothing == MailedOncePerDoubt /\ OrphansComeFromDoubts /\ MailedMemberIsListed

\* An event is answered for good only when its operation's link went out or
\* its run decided that none was due (mark after handling in handleEvent).
SettledMeansServed ==
  \A e \in processed : OperationOf[e] \in emailed \/ e \in excused

\* Of the links the webhook mails, at most one reaches a member after a ban: the
\* one whose run had read the tag before the ban was set. (banMember counts on
\* none: "from here on the webhooks refuse to invite".)
AtMostOneLinkAfterBan ==
  \A m \in Members : sinceBan[m] <= 1

\* Every payment event is settled in the end, through duplicates, crashes and
\* outages that stop (Stripe redelivers what the bridge did not mark).
EveryEventSettles == \A e \in Events : <>(e \in processed)

\* The handlers and the store keep the bridge's promise.
Promise == INSTANCE InviteOnce WITH
  link <- bound, sent <- {o \in Operations : mails[o] # <<>>}, settled <- processed

ImplementsInviteOnce == Promise!AbsSpec
=============================================================================

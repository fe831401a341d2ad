----------------------- MODULE InviteDelivery_proofs -----------------------
(***************************************************************************)
(* Proofs about InviteDelivery, for any number of events, operations,      *)
(* members, open deliveries, codes and faults.                             *)
(***************************************************************************)
EXTENDS InviteDelivery, FiniteSetTheorems, TLAPS

\* At most the first delivery in line has a running handler.
QueueInv ==
  /\ \A d \in Deliveries : Active(d) => MyTurn(d)
  /\ \A d \in Deliveries : pc[d] # "idle" => held[d] \in Events

\* A recorded link exists in Wizarr and is no other operation's; a mailed link
\* is the recorded one; the emailed mark follows a mail.
IssuanceInv ==
  /\ \A o \in Operations : bound[o] # NoCode => bound[o] \in minted
  /\ OneLinkPerOperation
  /\ \A o \in Operations : mails[o] # <<>> => bound[o] # NoCode
  /\ \A o \in emailed : mails[o] # <<>>

\* What a handler at each stage knows of its operation.
MintingInv(d) == pc[d] \in {"minting", "binding"} => bound[Op(d)] = NoCode
BindingInv(d) ==
  pc[d] = "binding" => /\ code[d] \in minted
                       /\ \A o \in Operations : bound[o] # code[d]
HoldingInv(d) ==
  pc[d] \in {"pendingRow", "mailing", "sent"} =>
    bound[Op(d)] # NoCode /\ code[d] = bound[Op(d)]
MailedInv(d) ==
  /\ pc[d] = "sent" => mails[Op(d)] # <<>>
  /\ d \in already => pc[d] \in {"pendingRow", "after", "marking"}
  /\ pc[d] = "pendingRow" /\ d \in already => Op(d) \in emailed
  /\ pc[d] = "after" => Op(d) \in emailed
  /\ pc[d] = "marking" => Op(d) \in emailed \/ held[d] \in excused

StageInv == \A d \in Deliveries :
  MintingInv(d) /\ BindingInv(d) /\ HoldingInv(d) /\ MailedInv(d)

IInv == TypeOK /\ QueueInv /\ IssuanceInv /\ StageInv /\ SettledMeansServed

---------------------------------------------------------------------------
\* Appending to a sequence keeps its elements and adds one.
LEMMA AppendFacts ==
  ASSUME NEW S, NEW s \in Seq(S), NEW x \in S
  PROVE  /\ Append(s, x) \in Seq(S)
         /\ Append(s, x) # <<>>
         /\ Len(Append(s, x)) = Len(s) + 1
         /\ \A i \in 1..Len(Append(s, x)) :
              Append(s, x)[i] = IF i <= Len(s) THEN s[i] ELSE x
  OBVIOUS

\* Appending does not change who is first, unless nobody was.
LEMMA AppendHead ==
  ASSUME NEW S, NEW s \in Seq(S), NEW x \in S, s # <<>>
  PROVE  Head(Append(s, x)) = Head(s)
  OBVIOUS

\* A mail adds the recorded link to its operation's and touches no other.
LEMMA SmtpFacts ==
  ASSUME NEW d \in Deliveries, IInv, pc[d] = "mailing", SmtpAccepts(d)
  PROVE  /\ mails' \in [Operations -> Seq(Codes)]
         /\ sinceBan' \in [Members -> Nat]
         /\ \A o \in Operations : /\ \A i \in 1..Len(mails'[o]) : mails'[o][i] = bound[o]
                                  /\ mails'[o] # <<>> => bound[o] # NoCode
                                  /\ mails[o] # <<>> => mails'[o] # <<>>
         /\ mails'[Op(d)] # <<>>
<1>1. /\ Op(d) \in Operations
      /\ code[d] \in Codes
      /\ code[d] = bound[Op(d)]
      /\ bound[Op(d)] # NoCode
  BY ShapeAssumption DEF IInv, TypeOK, QueueInv, StageInv, HoldingInv, Op
<1>2. mails \in [Operations -> Seq(Codes)]
  BY DEF IInv, TypeOK
<1>3. mails' = [mails EXCEPT ![Op(d)] = Append(mails[Op(d)], code[d])]
  BY DEF SmtpAccepts
<1>4. /\ Append(mails[Op(d)], code[d]) \in Seq(Codes)
      /\ Append(mails[Op(d)], code[d]) # <<>>
      /\ \A i \in 1..Len(Append(mails[Op(d)], code[d])) :
           Append(mails[Op(d)], code[d])[i] =
             IF i <= Len(mails[Op(d)]) THEN mails[Op(d)][i] ELSE code[d]
      /\ Len(Append(mails[Op(d)], code[d])) = Len(mails[Op(d)]) + 1
      /\ Len(mails[Op(d)]) \in Nat
  <2> DEFINE s == mails[Op(d)]
  <2>1. s \in Seq(Codes) /\ code[d] \in Codes
    BY <1>1, <1>2
  <2> HIDE DEF s
  <2>2. /\ Append(s, code[d]) \in Seq(Codes)
        /\ Append(s, code[d]) # <<>>
        /\ Len(Append(s, code[d])) = Len(s) + 1
        /\ \A i \in 1..Len(Append(s, code[d])) :
             Append(s, code[d])[i] = IF i <= Len(s) THEN s[i] ELSE code[d]
        /\ Len(s) \in Nat
    BY <2>1, AppendFacts
  <2> QED
    BY <2>2 DEF s
<1>5. mails' \in [Operations -> Seq(Codes)]
  BY <1>2, <1>3, <1>4
<1>6. sinceBan' \in [Members -> Nat]
  <2>1. Payer(d) \in Members /\ sinceBan \in [Members -> Nat]
    BY <1>1, ShapeAssumption DEF IInv, TypeOK, Payer
  <2> QED
    BY ONLY <2>1, SmtpAccepts(d) DEF SmtpAccepts
<1>7. ASSUME NEW o \in Operations
      PROVE  /\ \A i \in 1..Len(mails'[o]) : mails'[o][i] = bound[o]
             /\ mails'[o] # <<>> => bound[o] # NoCode
             /\ mails[o] # <<>> => mails'[o] # <<>>
  <2>1. CASE o = Op(d)
    <3>1. mails'[o] = Append(mails[Op(d)], code[d])
      BY <1>1, <1>2, <1>3, <2>1
    <3>2. \A i \in 1..Len(mails[Op(d)]) : mails[Op(d)][i] = bound[Op(d)]
      BY <1>1 DEF IInv, IssuanceInv, OneLinkPerOperation
    <3>3. \A i \in 1..Len(mails'[o]) : mails'[o][i] = bound[o]
      BY <1>1, <1>4, <2>1, <3>1, <3>2
    <3> QED
      BY <1>1, <1>4, <2>1, <3>1, <3>3
  <2>2. CASE o # Op(d)
    BY <1>2, <1>3, <2>2 DEF IInv, IssuanceInv, OneLinkPerOperation
  <2> QED
    BY <2>1, <2>2
<1>8. mails'[Op(d)] # <<>>
  BY <1>1, <1>2, <1>3, <1>4
<1> QED
  BY <1>5, <1>6, <1>7, <1>8

---------------------------------------------------------------------------
\* Each action keeps the invariant.

\* A new delivery joins the end of the line and does not start.
LEMMA DeliverKeeps ==
  ASSUME NEW d \in Deliveries, NEW e \in Events, IInv, Deliver(d, e)
  PROVE  IInv'
<1> USE ShapeAssumption DEF IInv, TypeOK, Deliver, Goto, MyTurn, storeVars, worldVars, historyVars, Op,
        Payer, IsCheckout, Active, Stages
<1>1. TypeOK'
  BY DEF QueueInv, StageInv, HoldingInv, Tags
<1>2. QueueInv'
  <2>1. ASSUME NEW x \in Deliveries, Active(x)'
        PROVE  MyTurn(x)'
    <3>1. x # d /\ Active(x)
      BY <2>1
    <3>2. MyTurn(x)
      BY <3>1 DEF QueueInv
    <3> QED
      BY <3>2, AppendHead, AppendFacts
  <2>2. ASSUME NEW x \in Deliveries, pc'[x] # "idle"
        PROVE  held'[x] \in Events
    BY <2>2 DEF QueueInv
  <2> QED
    BY <2>1, <2>2 DEF QueueInv
<1>3. IssuanceInv'
  BY DEF QueueInv, IssuanceInv, OneLinkPerOperation, StageInv,
         MintingInv, BindingInv, HoldingInv, MailedInv
<1>4. StageInv'
  BY DEF QueueInv, IssuanceInv, OneLinkPerOperation, StageInv,
         MintingInv, BindingInv, HoldingInv, MailedInv
<1>5. SettledMeansServed'
  BY DEF QueueInv, SettledMeansServed, StageInv, MailedInv
<1> QED
  BY <1>1, <1>2, <1>3, <1>4, <1>5

\* Only the first in line starts, and it knows nothing yet.
LEMMA StartNewKeeps ==
  ASSUME NEW d \in Deliveries, IInv, StartNew(d)
  PROVE  IInv'
<1> USE ShapeAssumption DEF IInv, TypeOK, StartNew, Goto, MyTurn, queueVars, storeVars, worldVars,
        historyVars, Op, Payer, IsCheckout, Active, Stages
<1>1. TypeOK'
  BY DEF QueueInv, StageInv, HoldingInv, Tags
<1>2. QueueInv'
  BY DEF QueueInv
<1>3. IssuanceInv'
  BY DEF QueueInv, IssuanceInv, OneLinkPerOperation, StageInv,
         MintingInv, BindingInv, HoldingInv, MailedInv
<1>4. StageInv'
  BY DEF QueueInv, IssuanceInv, OneLinkPerOperation, StageInv,
         MintingInv, BindingInv, HoldingInv, MailedInv
<1>5. SettledMeansServed'
  BY DEF QueueInv, SettledMeansServed, StageInv, MailedInv
<1> QED
  BY <1>1, <1>2, <1>3, <1>4, <1>5

\* A delivery of a processed event leaves the line untouched otherwise.
LEMMA SkipProcessedKeeps ==
  ASSUME NEW d \in Deliveries, IInv, SkipProcessed(d)
  PROVE  IInv'
<1> USE ShapeAssumption DEF IInv, TypeOK, SkipProcessed, Settle, Answer200, MyTurn, storeVars, worldVars,
        historyVars, Op, Payer, IsCheckout, Active, Stages
<1>1. TypeOK'
  BY DEF QueueInv, StageInv, HoldingInv, Tags
<1>2. QueueInv'
  BY DEF QueueInv
<1>3. IssuanceInv'
  BY DEF QueueInv, IssuanceInv, OneLinkPerOperation, StageInv,
         MintingInv, BindingInv, HoldingInv, MailedInv
<1>4. StageInv'
  BY DEF QueueInv, IssuanceInv, OneLinkPerOperation, StageInv,
         MintingInv, BindingInv, HoldingInv, MailedInv
<1>5. SettledMeansServed'
  BY DEF QueueInv, SettledMeansServed, StageInv, MailedInv
<1> QED
  BY <1>1, <1>2, <1>3, <1>4, <1>5

\* The branch is either on to the scope or an excuse.
LEMMA ReadStandingKeeps ==
  ASSUME NEW d \in Deliveries, IInv, ReadStanding(d)
  PROVE  IInv'
<1> USE ShapeAssumption DEF IInv, TypeOK, ReadStanding, Goto, MyTurn, queueVars, storeVars, worldVars, Op,
        Payer, IsCheckout, Active, Stages
<1>1. TypeOK'
  BY DEF QueueInv, StageInv, HoldingInv, Tags
<1>2. QueueInv'
  BY DEF QueueInv
<1>3. IssuanceInv'
  BY DEF QueueInv, IssuanceInv, OneLinkPerOperation, StageInv,
         MintingInv, BindingInv, HoldingInv, MailedInv
<1>4. StageInv'
  BY DEF QueueInv, IssuanceInv, OneLinkPerOperation, StageInv,
         MintingInv, BindingInv, HoldingInv, MailedInv
<1>5. SettledMeansServed'
  BY DEF QueueInv, SettledMeansServed, StageInv, MailedInv
<1> QED
  BY <1>1, <1>2, <1>3, <1>4, <1>5

\* Renewed records are an excuse.
LEMMA RecordsRenewedKeeps ==
  ASSUME NEW d \in Deliveries, IInv, RecordsRenewed(d)
  PROVE  IInv'
<1> USE ShapeAssumption DEF IInv, TypeOK, RecordsRenewed, Goto, MyTurn, queueVars, storeVars, worldVars, Op,
        Payer, IsCheckout, Active, Stages
<1>1. TypeOK'
  BY DEF QueueInv, StageInv, HoldingInv, Tags
<1>2. QueueInv'
  BY DEF QueueInv
<1>3. IssuanceInv'
  BY DEF QueueInv, IssuanceInv, OneLinkPerOperation, StageInv,
         MintingInv, BindingInv, HoldingInv, MailedInv
<1>4. StageInv'
  BY DEF QueueInv, IssuanceInv, OneLinkPerOperation, StageInv,
         MintingInv, BindingInv, HoldingInv, MailedInv
<1>5. SettledMeansServed'
  BY DEF QueueInv, SettledMeansServed, StageInv, MailedInv
<1> QED
  BY <1>1, <1>2, <1>3, <1>4, <1>5

\* The handler holds the recorded link, and its emailed mark.
LEMMA ReuseIssuanceKeeps ==
  ASSUME NEW d \in Deliveries, IInv, ReuseIssuance(d)
  PROVE  IInv'
<1> USE ShapeAssumption DEF IInv, TypeOK, ReuseIssuance, Goto, MyTurn, queueVars, storeVars, worldVars,
        historyVars, Op, Payer, IsCheckout, Active, Stages
<1>1. TypeOK'
  BY DEF QueueInv, StageInv, HoldingInv, Tags
<1>2. QueueInv'
  BY DEF QueueInv
<1>3. IssuanceInv'
  BY DEF QueueInv, IssuanceInv, OneLinkPerOperation, StageInv,
         MintingInv, BindingInv, HoldingInv, MailedInv
<1>4. StageInv'
  <2> SUFFICES ASSUME NEW x \in Deliveries
               PROVE  MintingInv(x)' /\ BindingInv(x)' /\ HoldingInv(x)' /\ MailedInv(x)'
    BY DEF StageInv
  <2>1. CASE x = d
    BY <2>1 DEF QueueInv, IssuanceInv, StageInv,
                     MintingInv, BindingInv, HoldingInv, MailedInv
  <2>2. CASE x # d
    <3>1. pc'[x] \notin Stages /\ x \notin already'
      BY <2>2 DEF QueueInv, StageInv, MailedInv
    <3> QED
      BY ONLY <3>1 DEF Stages, MintingInv, BindingInv, HoldingInv, MailedInv
  <2> QED
    BY <2>1, <2>2
<1>5. SettledMeansServed'
  BY DEF QueueInv, SettledMeansServed, StageInv, MailedInv
<1> QED
  BY <1>1, <1>2, <1>3, <1>4, <1>5

\* The operation is unbound, and stays so: nobody else is running.
LEMMA AskForInviteKeeps ==
  ASSUME NEW d \in Deliveries, IInv, AskForInvite(d)
  PROVE  IInv'
<1> USE ShapeAssumption DEF IInv, TypeOK, AskForInvite, Goto, MyTurn, queueVars, storeVars, worldVars,
        historyVars, Op, Payer, IsCheckout, Active, Stages
<1>1. TypeOK'
  BY DEF QueueInv, StageInv, HoldingInv, Tags
<1>2. QueueInv'
  BY DEF QueueInv
<1>3. IssuanceInv'
  BY DEF QueueInv, IssuanceInv, OneLinkPerOperation, StageInv,
         MintingInv, BindingInv, HoldingInv, MailedInv
<1>4. StageInv'
  BY DEF QueueInv, IssuanceInv, OneLinkPerOperation, StageInv,
         MintingInv, BindingInv, HoldingInv, MailedInv
<1>5. SettledMeansServed'
  BY DEF QueueInv, SettledMeansServed, StageInv, MailedInv
<1> QED
  BY <1>1, <1>2, <1>3, <1>4, <1>5

\* The new code is no operation's.
LEMMA InviteCreatedKeeps ==
  ASSUME NEW d \in Deliveries, NEW c \in Codes, IInv, InviteCreated(d, c)
  PROVE  IInv'
<1> USE ShapeAssumption DEF IInv, TypeOK, InviteCreated, Goto, MyTurn, queueVars, storeVars, historyVars,
        Op, Payer, IsCheckout, Active, Stages
<1>1. TypeOK'
  BY DEF QueueInv, StageInv, HoldingInv, Tags
<1>2. QueueInv'
  BY DEF QueueInv
<1>3. IssuanceInv'
  BY DEF QueueInv, IssuanceInv, OneLinkPerOperation, StageInv,
         MintingInv, BindingInv, HoldingInv, MailedInv
<1>4. StageInv'
  BY DEF QueueInv, IssuanceInv, OneLinkPerOperation, StageInv,
         MintingInv, BindingInv, HoldingInv, MailedInv
<1>5. SettledMeansServed'
  BY DEF QueueInv, SettledMeansServed, StageInv, MailedInv
<1> QED
  BY <1>1, <1>2, <1>3, <1>4, <1>5

\* The only running handler binds an unbound operation to an unused code.
LEMMA BindIssuanceKeeps ==
  ASSUME NEW d \in Deliveries, IInv, BindIssuance(d)
  PROVE  IInv'
<1> USE ShapeAssumption DEF IInv, TypeOK, BindIssuance, Goto, MyTurn, recordInviteIssuance, queueVars,
        worldVars, historyVars, Op, Payer, IsCheckout, Active, Stages
<1>1. TypeOK'
  BY DEF QueueInv, StageInv, HoldingInv, Tags
<1>2. QueueInv'
  BY DEF QueueInv
<1>3. IssuanceInv'
  BY DEF QueueInv, IssuanceInv, OneLinkPerOperation, StageInv,
         MintingInv, BindingInv, HoldingInv, MailedInv
<1>4. StageInv'
  <2> SUFFICES ASSUME NEW x \in Deliveries
               PROVE  MintingInv(x)' /\ BindingInv(x)' /\ HoldingInv(x)' /\ MailedInv(x)'
    BY DEF StageInv
  <2>1. CASE x = d
    BY <2>1 DEF QueueInv, IssuanceInv, StageInv,
                     MintingInv, BindingInv, HoldingInv, MailedInv
  <2>2. CASE x # d
    <3>1. pc'[x] \notin Stages /\ x \notin already'
      BY <2>2 DEF QueueInv, StageInv, MailedInv
    <3> QED
      BY ONLY <3>1 DEF Stages, MintingInv, BindingInv, HoldingInv, MailedInv
  <2> QED
    BY <2>1, <2>2
<1>5. SettledMeansServed'
  BY DEF QueueInv, SettledMeansServed, StageInv, MailedInv
<1> QED
  BY <1>1, <1>2, <1>3, <1>4, <1>5

\* The handler still holds the recorded link.
LEMMA WritePendingKeeps ==
  ASSUME NEW d \in Deliveries, IInv, WritePending(d)
  PROVE  IInv'
<1> USE ShapeAssumption DEF IInv, TypeOK, WritePending, Goto, MyTurn, queueVars, worldVars, historyVars, Op,
        Payer, IsCheckout, Active, Stages
<1>1. TypeOK'
  BY DEF QueueInv, StageInv, HoldingInv, Tags
<1>2. QueueInv'
  BY DEF QueueInv
<1>3. IssuanceInv'
  BY DEF QueueInv, IssuanceInv, OneLinkPerOperation, StageInv,
         MintingInv, BindingInv, HoldingInv, MailedInv
<1>4. StageInv'
  BY DEF QueueInv, IssuanceInv, OneLinkPerOperation, StageInv,
         MintingInv, BindingInv, HoldingInv, MailedInv
<1>5. SettledMeansServed'
  BY DEF QueueInv, SettledMeansServed, StageInv, MailedInv
<1> QED
  BY <1>1, <1>2, <1>3, <1>4, <1>5

\* The mail carries the recorded link.
LEMMA InviteMailedKeeps ==
  ASSUME NEW d \in Deliveries, IInv, InviteMailed(d)
  PROVE  IInv'
<1> USE ShapeAssumption DEF IInv, TypeOK, InviteMailed, Goto, MyTurn, SmtpAccepts, queueVars, storeVars, Op,
        Payer, IsCheckout, Active, Stages
<1>0. /\ mails' \in [Operations -> Seq(Codes)]
      /\ sinceBan' \in [Members -> Nat]
      /\ \A o \in Operations : /\ \A i \in 1..Len(mails'[o]) : mails'[o][i] = bound[o]
                               /\ mails'[o] # <<>> => bound[o] # NoCode
                               /\ mails[o] # <<>> => mails'[o] # <<>>
      /\ mails'[Op(d)] # <<>>
  BY SmtpFacts
<1>1. TypeOK'
  BY <1>0 DEF QueueInv, Tags
<1>2. QueueInv'
  BY DEF QueueInv
<1>3. IssuanceInv'
  BY <1>0 DEF IssuanceInv, OneLinkPerOperation
<1>4. StageInv'
  <2> SUFFICES ASSUME NEW x \in Deliveries
               PROVE  MintingInv(x)' /\ BindingInv(x)' /\ HoldingInv(x)' /\ MailedInv(x)'
    BY DEF StageInv
  <2>1. CASE x = d
    <3>1. HoldingInv(d)' /\ d \notin already'
      BY <2>1 DEF StageInv, HoldingInv, MailedInv
    <3> QED
      BY <2>1, <3>1, <1>0 DEF MintingInv, BindingInv, MailedInv
  <2>2. CASE x # d
    <3>1. pc'[x] \notin Stages /\ x \notin already'
      BY <2>2 DEF QueueInv, StageInv, MailedInv
    <3> QED
      BY ONLY <3>1 DEF Stages, MintingInv, BindingInv, HoldingInv, MailedInv
  <2> QED
    BY <2>1, <2>2
<1>5. SettledMeansServed'
  BY DEF QueueInv, SettledMeansServed, StageInv, MailedInv
<1> QED
  BY <1>1, <1>2, <1>3, <1>4, <1>5

\* The mark follows the mail.
LEMMA MarkEmailedKeeps ==
  ASSUME NEW d \in Deliveries, IInv, MarkEmailed(d)
  PROVE  IInv'
<1> USE ShapeAssumption DEF IInv, TypeOK, MarkEmailed, Goto, MyTurn, queueVars, worldVars, historyVars, Op,
        Payer, IsCheckout, Active, Stages
<1>1. TypeOK'
  BY DEF QueueInv, StageInv, HoldingInv, Tags
<1>2. QueueInv'
  BY DEF QueueInv
<1>3. IssuanceInv'
  BY DEF QueueInv, IssuanceInv, OneLinkPerOperation, StageInv,
         MintingInv, BindingInv, HoldingInv, MailedInv
<1>4. StageInv'
  BY DEF QueueInv, IssuanceInv, OneLinkPerOperation, StageInv,
         MintingInv, BindingInv, HoldingInv, MailedInv
<1>5. SettledMeansServed'
  BY DEF QueueInv, SettledMeansServed, StageInv, MailedInv
<1> QED
  BY <1>1, <1>2, <1>3, <1>4, <1>5

\* The operation stays emailed.
LEMMA FinishHandlerKeeps ==
  ASSUME NEW d \in Deliveries, IInv, FinishHandler(d)
  PROVE  IInv'
<1> USE ShapeAssumption DEF IInv, TypeOK, FinishHandler, Goto, MyTurn, queueVars, storeVars, worldVars,
        historyVars, Op, Payer, IsCheckout, Active, Stages
<1>1. TypeOK'
  BY DEF QueueInv, StageInv, HoldingInv, Tags
<1>2. QueueInv'
  BY DEF QueueInv
<1>3. IssuanceInv'
  BY DEF QueueInv, IssuanceInv, OneLinkPerOperation, StageInv,
         MintingInv, BindingInv, HoldingInv, MailedInv
<1>4. StageInv'
  BY DEF QueueInv, IssuanceInv, OneLinkPerOperation, StageInv,
         MintingInv, BindingInv, HoldingInv, MailedInv
<1>5. SettledMeansServed'
  BY DEF QueueInv, SettledMeansServed, StageInv, MailedInv
<1> QED
  BY <1>1, <1>2, <1>3, <1>4, <1>5

\* The settled event is served.
LEMMA MarkProcessedKeeps ==
  ASSUME NEW d \in Deliveries, IInv, MarkProcessed(d)
  PROVE  IInv'
<1> USE ShapeAssumption DEF IInv, TypeOK, MarkProcessed, Settle, Answer200, MyTurn, worldVars, historyVars,
        Op, Payer, IsCheckout, Active, Stages
<1>1. TypeOK'
  BY DEF QueueInv, StageInv, HoldingInv, Tags
<1>2. QueueInv'
  BY DEF QueueInv
<1>3. IssuanceInv'
  BY DEF QueueInv, IssuanceInv, OneLinkPerOperation, StageInv,
         MintingInv, BindingInv, HoldingInv, MailedInv
<1>4. StageInv'
  BY DEF QueueInv, IssuanceInv, OneLinkPerOperation, StageInv,
         MintingInv, BindingInv, HoldingInv, MailedInv
<1>5. SettledMeansServed'
  BY DEF QueueInv, SettledMeansServed, StageInv, MailedInv
<1> QED
  BY <1>1, <1>2, <1>3, <1>4, <1>5

\* A settled handler leaves nothing to keep.
LEMMA HandlerThrowsKeeps ==
  ASSUME NEW d \in Deliveries, IInv, HandlerThrows(d)
  PROVE  IInv'
<1> USE ShapeAssumption DEF IInv, TypeOK, HandlerThrows, Settle, Fault, CutOff, MyTurn, storeVars,
        worldVars, Op, Payer, IsCheckout, Active, Stages
<1>1. TypeOK'
  BY DEF QueueInv, StageInv, HoldingInv, Tags
<1>2. QueueInv'
  BY DEF QueueInv
<1>3. IssuanceInv'
  BY DEF QueueInv, IssuanceInv, OneLinkPerOperation, StageInv,
         MintingInv, BindingInv, HoldingInv, MailedInv
<1>4. StageInv'
  BY DEF QueueInv, IssuanceInv, OneLinkPerOperation, StageInv,
         MintingInv, BindingInv, HoldingInv, MailedInv
<1>5. SettledMeansServed'
  BY DEF QueueInv, SettledMeansServed, StageInv, MailedInv
<1> QED
  BY <1>1, <1>2, <1>3, <1>4, <1>5

\* The lost code is no operation's.
LEMMA CreatedAnswerLostKeeps ==
  ASSUME NEW d \in Deliveries, NEW c \in Codes, IInv, CreatedAnswerLost(d, c)
  PROVE  IInv'
<1> USE ShapeAssumption DEF IInv, TypeOK, CreatedAnswerLost, Settle, Fault, MyTurn, storeVars, Op, Payer,
        IsCheckout, Active, Stages
<1>1. TypeOK'
  BY DEF QueueInv, StageInv, HoldingInv, Tags
<1>2. QueueInv'
  BY DEF QueueInv
<1>3. IssuanceInv'
  BY DEF QueueInv, IssuanceInv, OneLinkPerOperation, StageInv,
         MintingInv, BindingInv, HoldingInv, MailedInv
<1>4. StageInv'
  BY DEF QueueInv, IssuanceInv, OneLinkPerOperation, StageInv,
         MintingInv, BindingInv, HoldingInv, MailedInv
<1>5. SettledMeansServed'
  BY DEF QueueInv, SettledMeansServed, StageInv, MailedInv
<1> QED
  BY <1>1, <1>2, <1>3, <1>4, <1>5

\* The mail whose answer was lost carries the recorded link too.
LEMMA MailedAnswerLostKeeps ==
  ASSUME NEW d \in Deliveries, IInv, MailedAnswerLost(d)
  PROVE  IInv'
<1> USE ShapeAssumption DEF IInv, TypeOK, MailedAnswerLost, Settle, Fault, SmtpAccepts, MyTurn, storeVars,
        Op, Payer, IsCheckout, Active, Stages
<1>0. /\ mails' \in [Operations -> Seq(Codes)]
      /\ sinceBan' \in [Members -> Nat]
      /\ \A o \in Operations : /\ \A i \in 1..Len(mails'[o]) : mails'[o][i] = bound[o]
                               /\ mails'[o] # <<>> => bound[o] # NoCode
                               /\ mails[o] # <<>> => mails'[o] # <<>>
      /\ mails'[Op(d)] # <<>>
  BY SmtpFacts
<1>1. TypeOK'
  BY <1>0, SMTT(20) DEF QueueInv, Tags
<1>2. QueueInv'
  BY DEF QueueInv
<1>3. IssuanceInv'
  BY <1>0 DEF IssuanceInv, OneLinkPerOperation
<1>4. StageInv'
  <2> SUFFICES ASSUME NEW x \in Deliveries
               PROVE  MintingInv(x)' /\ BindingInv(x)' /\ HoldingInv(x)' /\ MailedInv(x)'
    BY DEF StageInv
  <2>1. CASE x = d
    BY <2>1, <1>0 DEF QueueInv, IssuanceInv, StageInv,
                     MintingInv, BindingInv, HoldingInv, MailedInv
  <2>2. CASE x # d
    <3>1. pc'[x] \notin Stages /\ x \notin already'
      BY <2>2 DEF QueueInv, StageInv, MailedInv
    <3> QED
      BY ONLY <3>1 DEF Stages, MintingInv, BindingInv, HoldingInv, MailedInv
  <2> QED
    BY <2>1, <2>2
<1>5. SettledMeansServed'
  BY DEF QueueInv, SettledMeansServed, StageInv, MailedInv
<1> QED
  BY <1>1, <1>2, <1>3, <1>4, <1>5

\* With every handler gone only the store's own facts are left.
LEMMA CrashKeeps ==
  ASSUME IInv, Crash
  PROVE  IInv'
<1> USE ShapeAssumption DEF IInv, TypeOK, Crash, Fault, CutOff, MyTurn, storeVars, worldVars, Op, Payer,
        IsCheckout, Active, Stages
<1>1. TypeOK'
  BY DEF QueueInv, StageInv, HoldingInv, Tags
<1>2. QueueInv'
  BY DEF QueueInv
<1>3. IssuanceInv'
  BY DEF QueueInv, IssuanceInv, OneLinkPerOperation, StageInv,
         MintingInv, BindingInv, HoldingInv, MailedInv
<1>4. StageInv'
  BY DEF QueueInv, IssuanceInv, OneLinkPerOperation, StageInv,
         MintingInv, BindingInv, HoldingInv, MailedInv
<1>5. SettledMeansServed'
  BY DEF QueueInv, SettledMeansServed, StageInv, MailedInv
<1> QED
  BY <1>1, <1>2, <1>3, <1>4, <1>5

\* A tag set or cleared touches neither the queue nor the store.
LEMMA SetTagKeeps ==
  ASSUME NEW m \in Members, NEW t \in Tags, IInv, SetTag(m, t)
  PROVE  IInv'
<1> USE ShapeAssumption DEF IInv, TypeOK, SetTag, MyTurn, queueVars, jobVars, storeVars, Op, Payer,
        IsCheckout, Active, Stages
<1>1. TypeOK'
  BY DEF QueueInv, StageInv, HoldingInv, Tags
<1>2. QueueInv'
  BY DEF QueueInv
<1>3. IssuanceInv'
  BY DEF QueueInv, IssuanceInv, OneLinkPerOperation, StageInv,
         MintingInv, BindingInv, HoldingInv, MailedInv
<1>4. StageInv'
  BY DEF QueueInv, IssuanceInv, OneLinkPerOperation, StageInv,
         MintingInv, BindingInv, HoldingInv, MailedInv
<1>5. SettledMeansServed'
  BY DEF QueueInv, SettledMeansServed, StageInv, MailedInv
<1> QED
  BY <1>1, <1>2, <1>3, <1>4, <1>5

\* A redeemed link touches neither the queue nor the store.
LEMMA RedeemKeeps ==
  ASSUME NEW m \in Members, IInv, Redeem(m)
  PROVE  IInv'
<1> USE ShapeAssumption DEF IInv, TypeOK, Redeem, MyTurn, queueVars, jobVars, storeVars, historyVars, Op,
        Payer, IsCheckout, Active, Stages
<1>1. TypeOK'
  BY DEF QueueInv, StageInv, HoldingInv, Tags
<1>2. QueueInv'
  BY DEF QueueInv
<1>3. IssuanceInv'
  BY DEF QueueInv, IssuanceInv, OneLinkPerOperation, StageInv,
         MintingInv, BindingInv, HoldingInv, MailedInv
<1>4. StageInv'
  BY DEF QueueInv, IssuanceInv, OneLinkPerOperation, StageInv,
         MintingInv, BindingInv, HoldingInv, MailedInv
<1>5. SettledMeansServed'
  BY DEF QueueInv, SettledMeansServed, StageInv, MailedInv
<1> QED
  BY <1>1, <1>2, <1>3, <1>4, <1>5

\* Lost records touch neither the queue nor the store.
LEMMA LoseRecordsKeeps ==
  ASSUME NEW m \in Members, IInv, LoseRecords(m)
  PROVE  IInv'
<1> USE ShapeAssumption DEF IInv, TypeOK, LoseRecords, MyTurn, queueVars, jobVars, storeVars, historyVars,
        Op, Payer, IsCheckout, Active, Stages
<1>1. TypeOK'
  BY DEF QueueInv, StageInv, HoldingInv, Tags
<1>2. QueueInv'
  BY DEF QueueInv
<1>3. IssuanceInv'
  BY DEF QueueInv, IssuanceInv, OneLinkPerOperation, StageInv,
         MintingInv, BindingInv, HoldingInv, MailedInv
<1>4. StageInv'
  BY DEF QueueInv, IssuanceInv, OneLinkPerOperation, StageInv,
         MintingInv, BindingInv, HoldingInv, MailedInv
<1>5. SettledMeansServed'
  BY DEF QueueInv, SettledMeansServed, StageInv, MailedInv
<1> QED
  BY <1>1, <1>2, <1>3, <1>4, <1>5

---------------------------------------------------------------------------
\* The invariant holds initially: nothing is running, bound or mailed.
LEMMA InitInvariant == Init => IInv
  BY DEF Init, IInv, TypeOK, QueueInv, IssuanceInv, OneLinkPerOperation, StageInv,
         MintingInv, BindingInv, HoldingInv, MailedInv, SettledMeansServed,
         Active, Stages, Tags

\* A step of nobody keeps it.
LEMMA StutterKeeps == IInv /\ UNCHANGED vars => IInv'
  BY DEF vars, queueVars, jobVars, storeVars, worldVars, historyVars,
         IInv, TypeOK, QueueInv, IssuanceInv, OneLinkPerOperation, StageInv,
         MintingInv, BindingInv, HoldingInv, MailedInv, SettledMeansServed,
         Active, MyTurn, Op

\* Every step keeps the invariant: one case per action.
LEMMA NextKeeps == IInv /\ [Next]_vars => IInv'
<1> SUFFICES ASSUME IInv, [Next]_vars
             PROVE  IInv'
  OBVIOUS
<1>1. ASSUME NEW d \in Deliveries, NEW e \in Events, Deliver(d, e) PROVE IInv'
  BY <1>1, DeliverKeeps
<1>2. ASSUME NEW d \in Deliveries, StartNew(d) PROVE IInv'
  BY <1>2, StartNewKeeps
<1>3. ASSUME NEW d \in Deliveries, SkipProcessed(d) PROVE IInv'
  BY <1>3, SkipProcessedKeeps
<1>4. ASSUME NEW d \in Deliveries, ReadStanding(d) PROVE IInv'
  BY <1>4, ReadStandingKeeps
<1>5. ASSUME NEW d \in Deliveries, RecordsRenewed(d) PROVE IInv'
  BY <1>5, RecordsRenewedKeeps
<1>6. ASSUME NEW d \in Deliveries, ReuseIssuance(d) PROVE IInv'
  BY <1>6, ReuseIssuanceKeeps
<1>7. ASSUME NEW d \in Deliveries, AskForInvite(d) PROVE IInv'
  BY <1>7, AskForInviteKeeps
<1>8. ASSUME NEW d \in Deliveries, NEW c \in Codes, InviteCreated(d, c) PROVE IInv'
  BY <1>8, InviteCreatedKeeps
<1>9. ASSUME NEW d \in Deliveries, BindIssuance(d) PROVE IInv'
  BY <1>9, BindIssuanceKeeps
<1>10. ASSUME NEW d \in Deliveries, WritePending(d) PROVE IInv'
  BY <1>10, WritePendingKeeps
<1>11. ASSUME NEW d \in Deliveries, InviteMailed(d) PROVE IInv'
  BY <1>11, InviteMailedKeeps
<1>12. ASSUME NEW d \in Deliveries, MarkEmailed(d) PROVE IInv'
  BY <1>12, MarkEmailedKeeps
<1>13. ASSUME NEW d \in Deliveries, FinishHandler(d) PROVE IInv'
  BY <1>13, FinishHandlerKeeps
<1>14. ASSUME NEW d \in Deliveries, MarkProcessed(d) PROVE IInv'
  BY <1>14, MarkProcessedKeeps
<1>15. ASSUME NEW d \in Deliveries, HandlerThrows(d) PROVE IInv'
  BY <1>15, HandlerThrowsKeeps
<1>16. ASSUME NEW d \in Deliveries, NEW c \in Codes, CreatedAnswerLost(d, c) PROVE IInv'
  BY <1>16, CreatedAnswerLostKeeps
<1>17. ASSUME NEW d \in Deliveries, MailedAnswerLost(d) PROVE IInv'
  BY <1>17, MailedAnswerLostKeeps
<1>18. ASSUME Crash PROVE IInv'
  BY <1>18, CrashKeeps
<1>19. ASSUME NEW m \in Members, NEW t \in Tags, SetTag(m, t) PROVE IInv'
  BY <1>19, SetTagKeeps
<1>20. ASSUME NEW m \in Members, Redeem(m) PROVE IInv'
  BY <1>20, RedeemKeeps
<1>21. ASSUME NEW m \in Members, LoseRecords(m) PROVE IInv'
  BY <1>21, LoseRecordsKeeps
<1>22. CASE UNCHANGED vars
  BY <1>22, StutterKeeps
<1> QED
  BY <1>1, <1>2, <1>3, <1>4, <1>5, <1>6, <1>7, <1>8, <1>9, <1>10, <1>11,
     <1>12, <1>13, <1>14, <1>15, <1>16, <1>17, <1>18, <1>19, <1>20,
     <1>21, <1>22
  DEF Next, Step

\* The inductive invariant: everything the bridge's exactly-one-link argument
\* rests on holds in every reachable state, for any number of events,
\* operations, open requests and faults.
THEOREM Invariance == Spec => []IInv
  BY InitInvariant, NextKeeps, PTL DEF Spec

\* Type correctness.
THEOREM TypeCorrect == Spec => []TypeOK
<1>1. IInv => TypeOK
  BY DEF IInv
<1> QED
  BY <1>1, Invariance, PTL

\* No member is ever mailed two different links for one payment.
THEOREM OneLink == Spec => []OneLinkPerOperation
<1>1. IInv => OneLinkPerOperation
  BY DEF IInv, IssuanceInv
<1> QED
  BY <1>1, Invariance, PTL

\* No event is marked processed before its link went out or none was due.
THEOREM Served == Spec => []SettledMeansServed
<1>1. IInv => SettledMeansServed
  BY DEF IInv
<1> QED
  BY <1>1, Invariance, PTL

---------------------------------------------------------------------------
\* The refinement: what the bridge does is what InviteOnce promises.

\* Nothing is issued, sent, excused or settled before the first event.
LEMMA InitImplements == Init => Promise!AbsInit
  BY DEF Init, Promise!AbsInit

\* A mail is the abstract Send of its operation.
LEMMA MailImplements ==
  ASSUME NEW d \in Deliveries, IInv, pc[d] = "mailing", SmtpAccepts(d),
         UNCHANGED <<bound, excused, processed>>
  PROVE  Promise!Send(Op(d)) /\ Op(d) \in Operations
<1>1. Op(d) \in Operations /\ bound[Op(d)] # NoCode
  BY ShapeAssumption DEF IInv, TypeOK, QueueInv, StageInv, HoldingInv, Op
<1>2. \A o \in Operations : o # Op(d) => mails'[o] = mails[o]
  BY <1>1 DEF SmtpAccepts, IInv, TypeOK
<1>3. mails'[Op(d)] # <<>> /\ \A o \in Operations : mails[o] # <<>> => mails'[o] # <<>>
  BY SmtpFacts
<1>4. {o \in Operations : mails'[o] # <<>>} = {o \in Operations : mails[o] # <<>>} \union {Op(d)}
  BY <1>1, <1>2, <1>3
<1> QED
  BY <1>1, <1>4 DEF Promise!Send

\* A binding is the abstract Issue: the operation had none, and the code is
\* nobody else's.
LEMMA BindImplements ==
  ASSUME NEW d \in Deliveries, IInv, BindIssuance(d)
  PROVE  Promise!Issue(Op(d), code[d]) /\ Op(d) \in Operations /\ code[d] \in Codes
<1>1. /\ Op(d) \in Operations /\ bound[Op(d)] = NoCode
      /\ code[d] \in minted
      /\ \A o \in Operations : bound[o] # code[d]
  BY ShapeAssumption
     DEF BindIssuance, Goto, IInv, TypeOK, QueueInv, StageInv, MintingInv, BindingInv, Op
<1>2. code[d] \in Codes
  BY <1>1 DEF IInv, TypeOK
<1> QED
  BY <1>1, <1>2 DEF BindIssuance, recordInviteIssuance, worldVars, historyVars, Promise!Issue

\* A mark is the abstract SettleEvent: the event was served.
LEMMA MarkImplements ==
  ASSUME NEW d \in Deliveries, IInv, MarkProcessed(d)
  PROVE  Promise!SettleEvent(held[d]) /\ held[d] \in Events
<1>1. held[d] \in Events /\ (Op(d) \in emailed \/ held[d] \in excused)
  BY DEF MarkProcessed, IInv, QueueInv, StageInv, MailedInv
<1>2. Op(d) \in emailed => Op(d) \in Operations /\ mails[Op(d)] # <<>>
  BY DEF IInv, TypeOK, IssuanceInv
<1> QED
  BY <1>1, <1>2 DEF MarkProcessed, worldVars, historyVars, Promise!SettleEvent, Op

\* A decision that no link is due is the abstract Excuse.
LEMMA ExcuseImplements ==
  ASSUME NEW d \in Deliveries, IInv, ReadStanding(d) \/ RecordsRenewed(d)
  PROVE  [Promise!AbsNext]_(Promise!absVars)
<1>1. held[d] \in Events
  BY DEF IInv, QueueInv, ReadStanding, RecordsRenewed, Goto
<1>2. UNCHANGED <<bound, mails, processed>>
      /\ (excused' = excused \union {held[d]} \/ excused' = excused)
  BY DEF ReadStanding, RecordsRenewed, storeVars, worldVars
<1>3. CASE excused' = excused \union {held[d]}
  BY <1>1, <1>2, <1>3 DEF Promise!Excuse, Promise!AbsNext
<1>4. CASE excused' = excused
  BY <1>2, <1>4 DEF Promise!absVars
<1> QED
  BY <1>2, <1>3, <1>4

\* Every step is a step of InviteOnce or leaves its variables alone.
LEMMA StepImplements == IInv /\ [Next]_vars => [Promise!AbsNext]_(Promise!absVars)
<1> SUFFICES ASSUME IInv, [Next]_vars
             PROVE  [Promise!AbsNext]_(Promise!absVars)
  OBVIOUS
<1> DEFINE Quiet == UNCHANGED <<bound, mails, excused, processed>>
<1>0. Quiet => [Promise!AbsNext]_(Promise!absVars)
  BY DEF Promise!absVars
<1>1. ASSUME NEW d \in Deliveries, InviteMailed(d) \/ MailedAnswerLost(d)
      PROVE  [Promise!AbsNext]_(Promise!absVars)
  <2>1. /\ pc[d] = "mailing" /\ SmtpAccepts(d)
        /\ UNCHANGED <<bound, excused, processed>>
    BY <1>1 DEF InviteMailed, MailedAnswerLost, Goto, storeVars
  <2>2. Promise!Send(Op(d)) /\ Op(d) \in Operations
    BY <2>1, MailImplements
  <2>3. \E o \in Operations : Promise!Send(o)
    BY <2>2 DEF Promise!Send
  <2> QED
    BY <2>3 DEF Promise!AbsNext
<1>2. ASSUME NEW d \in Deliveries, BindIssuance(d)
      PROVE  [Promise!AbsNext]_(Promise!absVars)
  BY <1>2, BindImplements DEF Promise!AbsNext
<1>3. ASSUME NEW d \in Deliveries, MarkProcessed(d)
      PROVE  [Promise!AbsNext]_(Promise!absVars)
  BY <1>3, MarkImplements DEF Promise!AbsNext
<1>4. ASSUME NEW d \in Deliveries, ReadStanding(d) \/ RecordsRenewed(d)
      PROVE  [Promise!AbsNext]_(Promise!absVars)
  BY <1>4, ExcuseImplements
<1>5. ASSUME NEW d \in Deliveries, NEW e \in Events, Deliver(d, e) PROVE Quiet
  BY <1>5 DEF Deliver, storeVars, worldVars, historyVars
<1>6. ASSUME NEW d \in Deliveries,
             StartNew(d) \/ SkipProcessed(d) \/ ReuseIssuance(d) \/ AskForInvite(d)
               \/ WritePending(d) \/ MarkEmailed(d) \/ FinishHandler(d) \/ HandlerThrows(d)
      PROVE  Quiet
  BY <1>6 DEF StartNew, SkipProcessed, ReuseIssuance, AskForInvite, WritePending, MarkEmailed,
              FinishHandler, HandlerThrows, storeVars, worldVars, historyVars
<1>7. ASSUME NEW d \in Deliveries, NEW c \in Codes, InviteCreated(d, c) \/ CreatedAnswerLost(d, c)
      PROVE  Quiet
  BY <1>7 DEF InviteCreated, CreatedAnswerLost, storeVars, historyVars
<1>8. CASE Crash
  BY <1>0, <1>8 DEF Crash, storeVars, worldVars
<1>9. ASSUME NEW m \in Members, NEW t \in Tags, SetTag(m, t) PROVE Quiet
  BY <1>9 DEF SetTag, storeVars
<1>10. ASSUME NEW m \in Members, Redeem(m) \/ LoseRecords(m) PROVE Quiet
  BY <1>10 DEF Redeem, LoseRecords, storeVars, historyVars
<1>11. CASE UNCHANGED vars
  BY <1>0, <1>11 DEF vars, storeVars, worldVars, historyVars
<1> HIDE DEF Quiet
<1> QED
  BY <1>0, <1>1, <1>2, <1>3, <1>4, <1>5, <1>6, <1>7, <1>8, <1>9, <1>10, <1>11 DEF Next, Step

\* The bridge keeps its promise: every behaviour of the queue, the handlers and
\* the store, with crashes and redeliveries, is one InviteOnce allows.
THEOREM Implements == Spec => ImplementsInviteOnce
<1>1. Spec => []IInv
  BY Invariance
<1> QED
  BY <1>1, InitImplements, StepImplements, PTL DEF Spec, ImplementsInviteOnce, Promise!AbsSpec

---------------------------------------------------------------------------
\* Accounting: what redeliveries may add.

\* The serial queue runs one handler at a time.
LEMMA OneRuns ==
  ASSUME QueueInv, NEW d \in Deliveries, NEW x \in Deliveries, Active(d), Active(x)
  PROVE  d = x
  BY DEF QueueInv, MyTurn

\* A run that is sending has handed SMTP a mail it has not marked.
Sending(o) == \E d \in Deliveries : pc[d] = "sent" /\ Op(d) = o

\* A mail is marked, or being marked, or in doubt; and nobody mails what is marked.
MailCount ==
  /\ \A o \in Operations :
       Len(mails[o]) <= mailDoubt[o] + (IF o \in emailed \/ Sending(o) THEN 1 ELSE 0)
  /\ \A d \in Deliveries :
       pc[d] = "mailing" \/ (pc[d] = "pendingRow" /\ d \notin already) => Op(d) \notin emailed

\* The codes Wizarr holds for no operation, and the runs about to record one.
Orphans == minted \ {bound[o] : o \in Operations}
Binding == {d \in Deliveries : pc[d] = "binding"}

OrphanCount ==
  /\ IsFiniteSet(minted)
  /\ Cardinality(Orphans) <= mintDoubt + Cardinality(Binding)

\* A run that mails has listed its payer, under the link it mails.
Listing ==
  /\ \A d \in Deliveries : pc[d] \in {"mailing", "sent"} => row[Payer(d)] = bound[Op(d)]
  /\ MailedMemberIsListed

\* A banned member's one link was the running handler's, and no run behind it
\* gets past the tag.
Unbanned == {"scope", "minting", "binding", "pendingRow", "mailing"}
BanClock ==
  \A m \in Members :
    sinceBan[m] # 0 =>
      /\ sinceBan[m] = 1
      /\ tag[m] = "banned"
      /\ \A d \in Deliveries : pc[d] \in Unbanned => Payer(d) # m

AInv == MailCount /\ OrphanCount /\ Listing /\ BanClock

\* A delivery that is answered, or cut off, leaves the others where they stand.
LEMMA SettleFacts ==
  ASSUME NEW d \in Deliveries, TypeOK, Settle(d), NEW x \in Deliveries
  PROVE  /\ pc'[x] = IF x = d THEN "idle" ELSE pc[x]
         /\ held'[x] = IF x = d THEN NoEvent ELSE held[x]
         /\ x # d => (x \in already' <=> x \in already)
  BY DEF TypeOK, Settle

\* The operation of a delivery, and who pays for it.
LEMMA OpFacts ==
  ASSUME IInv, NEW d \in Deliveries, pc[d] # "idle"
  PROVE  Op(d) \in Operations /\ Payer(d) \in Members /\ held[d] \in Events
  BY ShapeAssumption DEF IInv, QueueInv, Op, Payer

\* A cut counts the mail in doubt.
LEMMA CutMail ==
  ASSUME IInv, NEW cut, cut \subseteq Deliveries, CutOff(cut), NEW o \in Operations
  PROVE  /\ mailDoubt'[o] = IF \E d \in cut : pc[d] = "sent" /\ Op(d) = o
                            THEN mailDoubt[o] + 1 ELSE mailDoubt[o]
         /\ mailDoubt[o] \in Nat
  BY DEF IInv, TypeOK, CutOff

\* What the actions that only move one handler on do to mails and marks.
Moves(d) ==
  \/ StartNew(d) \/ ReadStanding(d) \/ RecordsRenewed(d) \/ ReuseIssuance(d) \/ AskForInvite(d)
  \/ (\E c \in Codes : InviteCreated(d, c)) \/ BindIssuance(d) \/ WritePending(d) \/ FinishHandler(d)

LEMMA MoveFacts ==
  ASSUME TypeOK, NEW d \in Deliveries, Moves(d)
  PROVE  /\ UNCHANGED <<line, held, mails, mailDoubt, mintDoubt, emailed, tag, sinceBan>>
         /\ pc[d] # "sent" /\ pc'[d] # "sent" /\ pc[d] # "idle"
         /\ \A x \in Deliveries : x # d => pc'[x] = pc[x] /\ (x \in already' <=> x \in already)
  BY DEF TypeOK, Moves, StartNew, ReadStanding, RecordsRenewed, ReuseIssuance, AskForInvite,
         InviteCreated, BindIssuance, WritePending, FinishHandler, Goto, queueVars, storeVars,
         worldVars, historyVars

\* No mail is added, and what was marked stays unmailed.
LEMMA MoveKeepsMail ==
  ASSUME IInv, MailCount, NEW d \in Deliveries, Moves(d)
  PROVE  MailCount'
<1>1. TypeOK /\ QueueInv /\ IssuanceInv /\ StageInv
  BY DEF IInv
<1>2. /\ UNCHANGED <<held, mails, mailDoubt, emailed>>
      /\ pc[d] # "sent" /\ pc'[d] # "sent" /\ pc[d] # "idle"
      /\ \A x \in Deliveries : x # d => pc'[x] = pc[x] /\ (x \in already' <=> x \in already)
  BY <1>1, MoveFacts
<1>3. \A x \in Deliveries : Op(x)' = Op(x)
  BY <1>2 DEF Op
<1>4. \A o \in Operations : Sending(o)' <=> Sending(o)
  BY <1>2, <1>3 DEF Sending
<1>5. pc'[d] = "mailing" \/ (pc'[d] = "pendingRow" /\ d \notin already') => Op(d) \notin emailed
  <2>1. CASE ReuseIssuance(d)
    BY <1>1, <1>2, <2>1 DEF TypeOK, StageInv, MailedInv, ReuseIssuance, Goto, storeVars
  <2>2. CASE BindIssuance(d)
    BY <1>1, <2>2 DEF TypeOK, IssuanceInv, StageInv, MintingInv, BindIssuance, Goto
  <2>3. CASE WritePending(d)
    BY <1>1, <2>3 DEF TypeOK, MailCount, WritePending, Goto
  <2>4. CASE StartNew(d) \/ ReadStanding(d) \/ RecordsRenewed(d) \/ AskForInvite(d)
             \/ (\E c \in Codes : InviteCreated(d, c)) \/ FinishHandler(d)
    BY <1>1, <2>4 DEF TypeOK, StartNew, ReadStanding, RecordsRenewed, AskForInvite, InviteCreated,
                      FinishHandler, Goto
  <2> QED
    BY <2>1, <2>2, <2>3, <2>4 DEF Moves
<1> QED
  BY <1>2, <1>3, <1>4, <1>5 DEF MailCount

\* The only running handler mails what was neither marked nor being marked.
LEMMA MailsAtMostOnce ==
  ASSUME IInv, MailCount, NEW d \in Deliveries, pc[d] = "mailing"
  PROVE  /\ Op(d) \in Operations /\ Payer(d) \in Members
         /\ Op(d) \notin emailed /\ \A o \in Operations : ~Sending(o)
         /\ Len(mails[Op(d)]) <= mailDoubt[Op(d)]
<1>1. TypeOK /\ QueueInv /\ Op(d) \in Operations /\ Payer(d) \in Members
  BY OpFacts DEF IInv
<1>2. Op(d) \notin emailed
  BY DEF MailCount
<1>3. ASSUME NEW o \in Operations, Sending(o) PROVE FALSE
  BY <1>1, <1>3, OneRuns DEF Sending, Active, Stages
<1>4. Len(mails[Op(d)]) <= mailDoubt[Op(d)] + 0 /\ mailDoubt[Op(d)] \in Nat
  BY <1>1, <1>2, <1>3 DEF MailCount, TypeOK
<1>5. Len(mails[Op(d)]) \in Nat
  BY <1>1 DEF TypeOK
<1> QED
  BY <1>1, <1>2, <1>3, <1>4, <1>5

\* A mail makes its operation's mails one more, and no other's.
LEMMA OneMore ==
  ASSUME IInv, NEW d \in Deliveries, pc[d] = "mailing", SmtpAccepts(d), NEW o \in Operations
  PROVE  /\ Len(mails[o]) \in Nat
         /\ Len(mails'[o]) = IF o = Op(d) THEN Len(mails[o]) + 1 ELSE Len(mails[o])
<1>1. TypeOK /\ Op(d) \in Operations /\ code[d] \in Codes
  BY OpFacts DEF IInv, TypeOK, StageInv, HoldingInv
<1>2. mails' = [mails EXCEPT ![Op(d)] = Append(mails[Op(d)], code[d])]
  BY DEF SmtpAccepts
<1>3. mails[o] \in Seq(Codes)
  BY <1>1 DEF TypeOK
<1>4. Len(mails[o]) \in Nat /\ Len(Append(mails[o], code[d])) = Len(mails[o]) + 1
  BY <1>1, <1>3, AppendFacts
<1> QED
  BY <1>1, <1>2, <1>4 DEF TypeOK

\* Every step accounts for the mails it adds.
LEMMA MailCountKeeps ==
  ASSUME IInv, MailCount, [Next]_vars
  PROVE  MailCount'
<1>1. TypeOK /\ QueueInv /\ IssuanceInv /\ StageInv
  BY DEF IInv
<1>2. ASSUME NEW d \in Deliveries, NEW e \in Events, Deliver(d, e) PROVE MailCount'
  <2>1. /\ UNCHANGED <<mails, mailDoubt, emailed, already>>
        /\ pc[d] = "idle" /\ pc'[d] = "waiting"
        /\ \A x \in Deliveries : x # d => pc'[x] = pc[x] /\ held'[x] = held[x]
    BY <1>1, <1>2 DEF TypeOK, Deliver, Goto, storeVars, worldVars, historyVars
  <2> QED
    BY <2>1 DEF MailCount, Sending, Op
<1>3. ASSUME NEW d \in Deliveries, Moves(d) PROVE MailCount'
  BY <1>3, MoveKeepsMail
<1>4. ASSUME NEW d \in Deliveries, InviteMailed(d) PROVE MailCount'
  <2>1. /\ pc[d] = "mailing" /\ pc'[d] = "sent" /\ SmtpAccepts(d)
        /\ UNCHANGED <<held, mailDoubt, emailed, already>>
        /\ \A x \in Deliveries : x # d => pc'[x] = pc[x]
    BY <1>1, <1>4 DEF TypeOK, InviteMailed, Goto, queueVars, storeVars
  <2>2. Sending(Op(d))' /\ \A x \in Deliveries : Op(x)' = Op(x)
    BY <2>1 DEF Sending, Op
  <2>3. \A o \in Operations : ~Sending(o)
    BY <2>1, MailsAtMostOnce
  <2>4. ASSUME NEW o \in Operations
        PROVE  Len(mails'[o]) <= mailDoubt[o] + (IF o \in emailed \/ Sending(o)' THEN 1 ELSE 0)
    <3>1. mailDoubt[o] \in Nat /\ Len(mails[o]) \in Nat
      BY <1>1, <2>1, OneMore DEF TypeOK
    <3>2. CASE o = Op(d)
      BY <2>1, <2>2, <3>1, <3>2, MailsAtMostOnce, OneMore
    <3>3. CASE o # Op(d)
      BY <2>1, <2>3, <3>1, <3>3, OneMore DEF MailCount
    <3> QED
      BY <3>2, <3>3
  <2> QED
    BY <2>1, <2>2, <2>4 DEF MailCount
<1>5. ASSUME NEW d \in Deliveries, MarkEmailed(d) PROVE MailCount'
  <2>1. /\ pc[d] = "sent" /\ pc'[d] = "after" /\ emailed' = emailed \union {Op(d)}
        /\ UNCHANGED <<held, mails, mailDoubt, already>>
        /\ \A x \in Deliveries : x # d => pc'[x] = pc[x]
    BY <1>1, <1>5 DEF TypeOK, MarkEmailed, Goto, queueVars, worldVars, historyVars
  <2>2. \A x \in Deliveries : Op(x)' = Op(x)
    BY <2>1 DEF Op
  <2>3. \A o \in Operations : o \in emailed' \/ Sending(o)' <=> o \in emailed \/ Sending(o)
    BY <2>1, <2>2 DEF Sending
  <2>4. \A x \in Deliveries : x # d => pc[x] \notin {"mailing", "pendingRow"}
    BY <1>1, <2>1, OneRuns DEF Active, Stages
  <2> QED
    BY <2>1, <2>2, <2>3, <2>4 DEF MailCount
<1>6. ASSUME NEW d \in Deliveries, SkipProcessed(d) \/ MarkProcessed(d) PROVE MailCount'
  <2>1. /\ pc[d] # "sent" /\ Settle(d)
        /\ UNCHANGED <<mails, mailDoubt, emailed>>
    BY <1>6 DEF SkipProcessed, MarkProcessed, storeVars, worldVars, historyVars
  <2> QED
    BY <1>1, <2>1, SettleFacts DEF MailCount, Sending, Op
<1>7. ASSUME NEW d \in Deliveries, HandlerThrows(d) PROVE MailCount'
  <2>1. Settle(d) /\ CutOff({d}) /\ UNCHANGED <<mails, emailed>>
    BY <1>7 DEF HandlerThrows, storeVars, worldVars
  <2>2. ASSUME NEW o \in Operations
        PROVE  Len(mails[o]) <= mailDoubt'[o] + (IF o \in emailed \/ Sending(o)' THEN 1 ELSE 0)
    <3>1. mailDoubt'[o] = (IF pc[d] = "sent" /\ Op(d) = o THEN mailDoubt[o] + 1 ELSE mailDoubt[o])
          /\ mailDoubt[o] \in Nat
      BY <2>1, CutMail
    <3>2. Sending(o) => Sending(o)' \/ (pc[d] = "sent" /\ Op(d) = o)
      BY <1>1, <2>1, SettleFacts DEF Sending, Op
    <3>3. Len(mails[o]) \in Nat
      BY <1>1 DEF TypeOK
    <3> QED
      BY <3>1, <3>2, <3>3 DEF MailCount
  <2> QED
    BY <1>1, <2>1, <2>2, SettleFacts DEF MailCount, Op
<1>8. ASSUME NEW d \in Deliveries, NEW c \in Codes, CreatedAnswerLost(d, c) PROVE MailCount'
  <2>1. pc[d] # "sent" /\ Settle(d) /\ UNCHANGED <<mails, mailDoubt, emailed>>
    BY <1>8 DEF CreatedAnswerLost, storeVars
  <2> QED
    BY <1>1, <2>1, SettleFacts DEF MailCount, Sending, Op
<1>9. ASSUME NEW d \in Deliveries, MailedAnswerLost(d) PROVE MailCount'
  <2>1. /\ pc[d] = "mailing" /\ SmtpAccepts(d) /\ Settle(d) /\ UNCHANGED emailed
        /\ mailDoubt' = [mailDoubt EXCEPT ![Op(d)] = mailDoubt[Op(d)] + 1]
    BY <1>9 DEF MailedAnswerLost, storeVars
  <2>2. \A o \in Operations : ~Sending(o)
    BY <2>1, MailsAtMostOnce
  <2>3. ASSUME NEW o \in Operations
        PROVE  Len(mails'[o]) <= mailDoubt'[o] + (IF o \in emailed \/ Sending(o)' THEN 1 ELSE 0)
    <3>1. /\ mailDoubt[o] \in Nat /\ Len(mails[o]) \in Nat
          /\ mailDoubt'[o] = IF o = Op(d) THEN mailDoubt[o] + 1 ELSE mailDoubt[o]
      BY <1>1, <2>1, OneMore DEF TypeOK
    <3>2. CASE o = Op(d)
      BY <2>1, <3>1, <3>2, MailsAtMostOnce, OneMore
    <3>3. CASE o # Op(d)
      BY <2>1, <2>2, <3>1, <3>3, OneMore DEF MailCount
    <3> QED
      BY <3>2, <3>3
  <2> QED
    BY <1>1, <2>1, <2>3, SettleFacts DEF MailCount, Op
<1>10. CASE Crash
  <2>1. /\ CutOff({d \in Deliveries : Active(d)}) /\ UNCHANGED <<mails, emailed>>
        /\ \A x \in Deliveries : pc'[x] = "idle"
    BY <1>10 DEF Crash, storeVars, worldVars
  <2>2. ASSUME NEW o \in Operations
        PROVE  Len(mails[o]) <= mailDoubt'[o] + (IF o \in emailed \/ Sending(o)' THEN 1 ELSE 0)
    <3>1. /\ mailDoubt'[o] = (IF \E d \in {d \in Deliveries : Active(d)} : pc[d] = "sent" /\ Op(d) = o
                              THEN mailDoubt[o] + 1 ELSE mailDoubt[o])
          /\ mailDoubt[o] \in Nat
      BY <2>1, CutMail
    <3>2. Sending(o) => \E d \in {d \in Deliveries : Active(d)} : pc[d] = "sent" /\ Op(d) = o
      BY DEF Sending, Active, Stages
    <3>3. Len(mails[o]) \in Nat
      BY <1>1 DEF TypeOK
    <3> QED
      BY <3>1, <3>2, <3>3 DEF MailCount
  <2> QED
    BY <2>1, <2>2 DEF MailCount
<1>11. ASSUME (\E m \in Members, t \in Tags : SetTag(m, t))
              \/ (\E m \in Members : Redeem(m) \/ LoseRecords(m)) \/ UNCHANGED vars
       PROVE  MailCount'
  <2>1. UNCHANGED <<mails, mailDoubt, emailed, pc, held, already>>
    BY <1>11 DEF SetTag, Redeem, LoseRecords, vars, queueVars, jobVars, storeVars, worldVars, historyVars
  <2> QED
    BY <2>1 DEF MailCount, Sending, Op
<1> QED
  BY <1>2, <1>3, <1>4, <1>5, <1>6, <1>7, <1>8, <1>9, <1>10, <1>11 DEF Next, Step, Moves

\* A set of at most one element.
LEMMA AtMostOne ==
  ASSUME NEW S, \A x \in S : \A y \in S : x = y
  PROVE  /\ Cardinality(S) \in Nat
         /\ S = {} => Cardinality(S) = 0
         /\ S # {} => Cardinality(S) = 1
<1>1. CASE S = {}
  BY <1>1, FS_EmptySet
<1>2. CASE S # {}
  <2>1. PICK x : S = {x}
    BY <1>2
  <2> QED
    BY <1>2, <2>1, FS_Singleton
<1> QED
  BY <1>1, <1>2

\* At most one run is about to record a code, before and after a step.
LEMMA BindingCount ==
  ASSUME QueueInv, QueueInv'
  PROVE  /\ Cardinality(Binding) \in Nat /\ Cardinality(Binding') \in Nat
         /\ Binding = {} => Cardinality(Binding) = 0
         /\ Binding # {} => Cardinality(Binding) = 1
         /\ Binding' = {} => Cardinality(Binding') = 0
         /\ Binding' # {} => Cardinality(Binding') = 1
<1>1. \A x \in Binding : \A y \in Binding : x = y
  BY DEF QueueInv, MyTurn, Active, Stages, Binding
<1>2. \A x \in Binding' : \A y \in Binding' : x = y
  BY DEF QueueInv, MyTurn, Active, Stages, Binding
<1> QED
  BY <1>1, <1>2, AtMostOne

\* The orphans are finitely many, and one more code makes them one more at most.
LEMMA OrphanFacts ==
  ASSUME IsFiniteSet(minted)
  PROVE  /\ IsFiniteSet(Orphans) /\ Cardinality(Orphans) \in Nat
         /\ \A c : /\ IsFiniteSet(minted \union {c})
                   /\ IsFiniteSet(Orphans \union {c})
                   /\ Cardinality(Orphans \union {c}) <= Cardinality(Orphans) + 1
                   /\ c \in Orphans => Cardinality(Orphans \ {c}) = Cardinality(Orphans) - 1
<1>1. Orphans \in SUBSET minted
  BY DEF Orphans
<1>2. IsFiniteSet(Orphans) /\ Cardinality(Orphans) \in Nat
  BY <1>1, FS_Subset, FS_CardinalityType
<1>3. ASSUME NEW c
      PROVE  /\ IsFiniteSet(minted \union {c})
             /\ IsFiniteSet(Orphans \union {c})
             /\ Cardinality(Orphans \union {c}) <= Cardinality(Orphans) + 1
             /\ c \in Orphans => Cardinality(Orphans \ {c}) = Cardinality(Orphans) - 1
  BY <1>2, FS_AddElement, FS_RemoveElement
<1> QED
  BY <1>2, <1>3

\* A step that mints and records nothing, and cuts off no run about to record.
LEMMA OrphansStay ==
  ASSUME OrphanCount, UNCHANGED <<minted, bound, mintDoubt>>,
         \A d \in Deliveries : pc'[d] = "binding" <=> pc[d] = "binding"
  PROVE  OrphanCount'
<1>1. Binding' = Binding /\ Orphans' = Orphans
  BY DEF Binding, Orphans
<1> QED
  BY <1>1 DEF OrphanCount

\* A cut counts the code of the run it cuts off before it was recorded.
LEMMA CutKeepsOrphans ==
  ASSUME IInv, IInv', OrphanCount, NEW cut \in SUBSET Deliveries, CutOff(cut),
         UNCHANGED <<minted, bound>>,
         \A x \in Deliveries : pc'[x] = "binding" <=> pc[x] = "binding" /\ x \notin cut
  PROVE  OrphanCount'
<1>1. QueueInv /\ QueueInv' /\ mintDoubt \in Nat
  BY DEF IInv, TypeOK
<1>2. Orphans' = Orphans /\ IsFiniteSet(minted) /\ Cardinality(Orphans) \in Nat
      /\ Cardinality(Orphans) <= mintDoubt + Cardinality(Binding)
  BY OrphanFacts DEF OrphanCount, Orphans
<1>3. mintDoubt' = IF \E d \in cut : pc[d] = "binding" THEN mintDoubt + 1 ELSE mintDoubt
  BY DEF CutOff
<1>4. CASE \E d \in cut : pc[d] = "binding"
  <2>1. Binding # {}
    BY <1>4 DEF Binding
  <2>2. Cardinality(Binding) = 1
    BY <1>1, <2>1, BindingCount
  <2>3. Cardinality(Binding') \in Nat
    BY <1>1, BindingCount
  <2> QED
    BY <1>1, <1>2, <1>3, <1>4, <2>2, <2>3 DEF OrphanCount
<1>5. CASE ~\E d \in cut : pc[d] = "binding"
  <2>1. Binding' = Binding
    BY <1>5 DEF Binding
  <2> QED
    BY <1>2, <1>3, <1>5, <2>1 DEF OrphanCount
<1> QED
  BY <1>4, <1>5

\* Every step accounts for the codes it leaves without an operation.
LEMMA OrphanCountKeeps ==
  ASSUME IInv, IInv', OrphanCount, [Next]_vars
  PROVE  OrphanCount'
<1>1. TypeOK /\ QueueInv /\ QueueInv' /\ IssuanceInv /\ StageInv /\ mintDoubt \in Nat
  BY DEF IInv, TypeOK
<1>2. /\ IsFiniteSet(minted) /\ Cardinality(Orphans) \in Nat
      /\ Cardinality(Orphans) <= mintDoubt + Cardinality(Binding)
      /\ Cardinality(Binding) \in Nat
  BY <1>1, OrphanFacts, BindingCount DEF OrphanCount
<1>3. ASSUME NEW d \in Deliveries, NEW c \in Codes, InviteCreated(d, c) PROVE OrphanCount'
  <2>1. /\ pc[d] = "minting" /\ pc'[d] = "binding" /\ minted' = minted \union {c}
        /\ UNCHANGED <<bound, mintDoubt>>
    BY <1>1, <1>3 DEF TypeOK, InviteCreated, Goto, storeVars, historyVars
  <2>2. Binding = {} /\ Binding' # {}
    BY <1>1, <2>1, OneRuns DEF Binding, Active, Stages
  <2>3. Cardinality(Binding) = 0 /\ Cardinality(Binding') = 1
    BY <1>1, <2>2, BindingCount
  <2>4. Orphans' \in SUBSET (Orphans \union {c})
    BY <2>1 DEF Orphans
  <2>5. IsFiniteSet(minted') /\ IsFiniteSet(Orphans \union {c})
        /\ Cardinality(Orphans \union {c}) <= Cardinality(Orphans) + 1
    BY <1>2, <2>1, OrphanFacts
  <2>6. Cardinality(Orphans') <= Cardinality(Orphans \union {c})
        /\ Cardinality(Orphans') \in Nat /\ Cardinality(Orphans \union {c}) \in Nat
    BY <2>4, <2>5, FS_Subset, FS_CardinalityType
  <2> QED
    BY <1>1, <1>2, <2>1, <2>3, <2>5, <2>6 DEF OrphanCount
<1>4. ASSUME NEW d \in Deliveries, BindIssuance(d) PROVE OrphanCount'
  <2>1. /\ pc[d] = "binding" /\ pc'[d] = "pendingRow" /\ UNCHANGED <<minted, mintDoubt>>
        /\ recordInviteIssuance(Op(d), code[d])
    BY <1>1, <1>4 DEF TypeOK, BindIssuance, Goto, worldVars, historyVars
  <2>2. /\ Op(d) \in Operations /\ bound[Op(d)] = NoCode
        /\ code[d] \in minted /\ \A o \in Operations : bound[o] # code[d]
    BY <1>1, <2>1, OpFacts DEF StageInv, MintingInv, BindingInv
  <2>3. bound' = [bound EXCEPT ![Op(d)] = code[d]] /\ NoCode \notin minted
    BY <1>1, <2>1, <2>2, ShapeAssumption DEF recordInviteIssuance, TypeOK
  <2>4. Orphans' = Orphans \ {code[d]} /\ code[d] \in Orphans
    BY <1>1, <2>1, <2>2, <2>3 DEF Orphans, TypeOK
  <2>5. Cardinality(Orphans') = Cardinality(Orphans) - 1
    BY <1>2, <2>4, OrphanFacts
  <2>6. d \in Binding
    BY <2>1 DEF Binding
  <2>7. Cardinality(Binding) = 1 /\ Cardinality(Binding') \in Nat
    BY <1>1, <2>6, BindingCount
  <2> QED
    BY <1>1, <1>2, <2>1, <2>5, <2>7 DEF OrphanCount
<1>5. ASSUME NEW d \in Deliveries, NEW c \in Codes, CreatedAnswerLost(d, c) PROVE OrphanCount'
  <2>1. /\ pc[d] = "minting" /\ minted' = minted \union {c} /\ Settle(d)
        /\ mintDoubt' = mintDoubt + 1 /\ UNCHANGED bound
    BY <1>5 DEF CreatedAnswerLost, storeVars
  <2>2. Binding' = Binding
    BY <1>1, <2>1, SettleFacts DEF Binding
  <2>3. Orphans' \in SUBSET (Orphans \union {c})
    BY <2>1 DEF Orphans
  <2>4. IsFiniteSet(minted') /\ IsFiniteSet(Orphans \union {c})
        /\ Cardinality(Orphans \union {c}) <= Cardinality(Orphans) + 1
    BY <1>2, <2>1, OrphanFacts
  <2>5. Cardinality(Orphans') <= Cardinality(Orphans \union {c})
        /\ Cardinality(Orphans') \in Nat /\ Cardinality(Orphans \union {c}) \in Nat
    BY <2>3, <2>4, FS_Subset, FS_CardinalityType
  <2> QED
    BY <1>1, <1>2, <2>1, <2>2, <2>4, <2>5 DEF OrphanCount
<1>6. ASSUME NEW d \in Deliveries, HandlerThrows(d) PROVE OrphanCount'
  <2>1. Settle(d) /\ CutOff({d}) /\ UNCHANGED <<minted, bound>>
    BY <1>6 DEF HandlerThrows, storeVars, worldVars
  <2>2. \A x \in Deliveries : pc'[x] = "binding" <=> pc[x] = "binding" /\ x \notin {d}
    BY <1>1, <2>1, SettleFacts
  <2> QED
    BY <2>1, <2>2, CutKeepsOrphans
<1>7. CASE Crash
  <2> DEFINE cut == {d \in Deliveries : Active(d)}
  <2>1. CutOff(cut) /\ UNCHANGED <<minted, bound>> /\ pc' = [d \in Deliveries |-> "idle"]
    BY <1>7 DEF Crash, storeVars, worldVars
  <2>2. \A x \in Deliveries : pc'[x] = "binding" <=> pc[x] = "binding" /\ x \notin cut
    BY <2>1 DEF Active, Stages
  <2> QED
    BY <2>1, <2>2, CutKeepsOrphans
<1>8. ASSUME NEW d \in Deliveries,
             StartNew(d) \/ ReadStanding(d) \/ RecordsRenewed(d) \/ ReuseIssuance(d) \/ AskForInvite(d)
               \/ WritePending(d) \/ InviteMailed(d) \/ MarkEmailed(d) \/ FinishHandler(d)
      PROVE  OrphanCount'
  <2>1. /\ UNCHANGED <<minted, bound, mintDoubt>>
        /\ pc[d] # "binding" /\ pc'[d] # "binding"
        /\ \A x \in Deliveries : x # d => pc'[x] = pc[x]
    BY <1>1, <1>8 DEF TypeOK, StartNew, ReadStanding, RecordsRenewed, ReuseIssuance, AskForInvite,
       WritePending, InviteMailed, MarkEmailed, FinishHandler, Goto, storeVars, worldVars, historyVars
  <2> QED
    BY <2>1, OrphansStay
<1>9. ASSUME NEW d \in Deliveries, SkipProcessed(d) \/ MarkProcessed(d) \/ MailedAnswerLost(d)
      PROVE  OrphanCount'
  <2>1. UNCHANGED <<minted, bound, mintDoubt>> /\ Settle(d) /\ pc[d] # "binding"
    BY <1>9 DEF SkipProcessed, MarkProcessed, MailedAnswerLost, storeVars, worldVars, historyVars
  <2> QED
    BY <1>1, <2>1, SettleFacts, OrphansStay
<1>10. ASSUME NEW d \in Deliveries, NEW e \in Events, Deliver(d, e) PROVE OrphanCount'
  <2>1. /\ UNCHANGED <<minted, bound, mintDoubt>>
        /\ \A x \in Deliveries : pc'[x] = "binding" <=> pc[x] = "binding"
    BY <1>1, <1>10 DEF TypeOK, Deliver, Goto, storeVars, worldVars, historyVars
  <2> QED
    BY <2>1, OrphansStay
<1>11. ASSUME (\E m \in Members, t \in Tags : SetTag(m, t))
              \/ (\E m \in Members : Redeem(m) \/ LoseRecords(m)) \/ UNCHANGED vars
       PROVE  OrphanCount'
  <2>1. UNCHANGED <<minted, bound, mintDoubt, pc>>
    BY <1>11 DEF SetTag, Redeem, LoseRecords, vars, queueVars, jobVars, storeVars, worldVars, historyVars
  <2> QED
    BY <2>1, OrphansStay
<1> QED
  BY <1>3, <1>4, <1>5, <1>6, <1>7, <1>8, <1>9, <1>10, <1>11 DEF Next, Step

\* A step that moves nobody into mailing, mails nothing and rebinds nothing.
LEMMA ListingStays ==
  ASSUME Listing, UNCHANGED <<mails, bound, row>>,
         \A x \in Deliveries : pc'[x] \in {"mailing", "sent"} =>
           pc[x] \in {"mailing", "sent"} /\ held'[x] = held[x]
  PROVE  Listing'
  BY DEF Listing, MailedMemberIsListed, Op, Payer

\* A member a link goes out to is listed under the link that goes out.
LEMMA MailIsListed ==
  ASSUME IInv, Listing, NEW d \in Deliveries, pc[d] = "mailing", SmtpAccepts(d),
         UNCHANGED <<bound, row>>,
         \A x \in Deliveries : pc'[x] \in {"mailing", "sent"} =>
           pc[x] \in {"mailing", "sent"} /\ held'[x] = held[x]
  PROVE  Listing'
<1>1. /\ Op(d) \in Operations /\ bound[Op(d)] # NoCode
      /\ row[OwnerOf[Op(d)]] = bound[Op(d)]
  BY OpFacts DEF IInv, StageInv, HoldingInv, Listing, Payer
<1>2. \A o \in Operations : o # Op(d) => mails'[o] = mails[o]
  BY <1>1 DEF SmtpAccepts, IInv, TypeOK
<1>3. MailedMemberIsListed'
  BY <1>1, <1>2 DEF Listing, MailedMemberIsListed
<1> QED
  BY <1>3 DEF Listing, Op, Payer

\* Every step keeps who was mailed on the list.
LEMMA ListingKeeps ==
  ASSUME IInv, Listing, [Next]_vars
  PROVE  Listing'
<1>1. TypeOK /\ QueueInv /\ IssuanceInv /\ StageInv
  BY DEF IInv
<1>2. ASSUME NEW d \in Deliveries, BindIssuance(d) PROVE Listing'
  <2>1. /\ pc[d] = "binding" /\ pc'[d] = "pendingRow" /\ UNCHANGED <<mails, row, held>>
        /\ recordInviteIssuance(Op(d), code[d])
        /\ \A x \in Deliveries : x # d => pc'[x] = pc[x]
    BY <1>1, <1>2 DEF TypeOK, BindIssuance, Goto, queueVars, worldVars
  <2>2. /\ Op(d) \in Operations /\ bound[Op(d)] = NoCode
        /\ bound' = [bound EXCEPT ![Op(d)] = code[d]]
    BY <1>1, <2>1, OpFacts DEF StageInv, MintingInv, recordInviteIssuance
  <2>3. \A x \in Deliveries : pc'[x] \notin {"mailing", "sent"}
    BY <1>1, <2>1, OneRuns DEF Active, Stages
  <2>4. MailedMemberIsListed'
    BY <1>1, <2>1, <2>2 DEF TypeOK, Listing, MailedMemberIsListed
  <2> QED
    BY <2>3, <2>4 DEF Listing
<1>3. ASSUME NEW d \in Deliveries, WritePending(d) PROVE Listing'
  <2>1. /\ pc[d] = "pendingRow" /\ UNCHANGED <<mails, bound, held>>
        /\ row' = [row EXCEPT ![Payer(d)] = code[d]]
        /\ \A x \in Deliveries : x # d => pc'[x] = pc[x]
    BY <1>1, <1>3 DEF TypeOK, WritePending, Goto, queueVars, worldVars
  <2>2. /\ Op(d) \in Operations /\ Payer(d) = OwnerOf[Op(d)] /\ Payer(d) \in Members
        /\ code[d] = bound[Op(d)] /\ bound[Op(d)] # NoCode
        /\ row'[Payer(d)] = bound[Op(d)]
    BY <1>1, <2>1, OpFacts DEF TypeOK, StageInv, HoldingInv, Payer
  <2>3. \A x \in Deliveries : pc'[x] \in {"mailing", "sent"} => x = d
    BY <1>1, <2>1, OneRuns DEF Active, Stages
  <2>4. \A m \in Members : m # Payer(d) => row'[m] = row[m]
    BY <1>1, <2>1 DEF TypeOK
  <2>5. MailedMemberIsListed'
    <3> SUFFICES ASSUME NEW o \in Operations, mails'[o] # <<>>
                 PROVE  \E p \in Operations : /\ OwnerOf[p] = OwnerOf[o]
                                              /\ bound'[p] # NoCode
                                              /\ row'[OwnerOf[o]] = bound'[p]
      BY DEF MailedMemberIsListed
    <3>1. CASE OwnerOf[o] = Payer(d)
      BY <2>1, <2>2, <3>1
    <3>2. CASE OwnerOf[o] # Payer(d)
      BY <2>1, <2>4, <3>2, ShapeAssumption DEF Listing, MailedMemberIsListed
    <3> QED
      BY <3>1, <3>2
  <2> QED
    BY <2>1, <2>2, <2>3, <2>5 DEF Listing, Op, Payer
<1>4. ASSUME NEW d \in Deliveries, InviteMailed(d) PROVE Listing'
  <2>1. /\ pc[d] = "mailing" /\ SmtpAccepts(d) /\ UNCHANGED <<bound, row, held>>
        /\ \A x \in Deliveries : x # d => pc'[x] = pc[x]
    BY <1>1, <1>4 DEF TypeOK, InviteMailed, Goto, queueVars, storeVars
  <2> QED
    BY <2>1, MailIsListed
<1>5. ASSUME NEW d \in Deliveries, MailedAnswerLost(d) PROVE Listing'
  <2>1. pc[d] = "mailing" /\ SmtpAccepts(d) /\ UNCHANGED <<bound, row>> /\ Settle(d)
    BY <1>5 DEF MailedAnswerLost, storeVars
  <2> QED
    BY <1>1, <2>1, SettleFacts, MailIsListed
<1>6. ASSUME NEW d \in Deliveries,
             StartNew(d) \/ ReadStanding(d) \/ RecordsRenewed(d) \/ ReuseIssuance(d) \/ AskForInvite(d)
               \/ (\E c \in Codes : InviteCreated(d, c)) \/ MarkEmailed(d) \/ FinishHandler(d)
      PROVE  Listing'
  <2>1. /\ UNCHANGED <<mails, bound, row, held>>
        /\ pc'[d] \notin {"mailing", "sent"} /\ \A x \in Deliveries : x # d => pc'[x] = pc[x]
    BY <1>1, <1>6 DEF TypeOK, StartNew, ReadStanding, RecordsRenewed, ReuseIssuance, AskForInvite,
       InviteCreated, MarkEmailed, FinishHandler, Goto, queueVars, storeVars, worldVars, historyVars
  <2> QED
    BY <2>1, ListingStays
<1>7. ASSUME NEW d \in Deliveries,
             SkipProcessed(d) \/ MarkProcessed(d) \/ HandlerThrows(d)
               \/ (\E c \in Codes : CreatedAnswerLost(d, c))
      PROVE  Listing'
  <2>1. UNCHANGED <<mails, bound, row>> /\ Settle(d)
    BY <1>7 DEF SkipProcessed, MarkProcessed, HandlerThrows, CreatedAnswerLost, storeVars, worldVars
  <2> QED
    BY <1>1, <2>1, SettleFacts, ListingStays
<1>8. CASE Crash
  BY <1>8, ListingStays DEF Crash, storeVars, worldVars
<1>9. ASSUME NEW d \in Deliveries, NEW e \in Events, Deliver(d, e) PROVE Listing'
  <2>1. /\ UNCHANGED <<mails, bound, row>> /\ pc'[d] = "waiting"
        /\ \A x \in Deliveries : x # d => pc'[x] = pc[x] /\ held'[x] = held[x]
    BY <1>1, <1>9 DEF TypeOK, Deliver, Goto, storeVars, worldVars
  <2> QED
    BY <2>1, ListingStays
<1>10. ASSUME (\E m \in Members, t \in Tags : SetTag(m, t))
              \/ (\E m \in Members : Redeem(m) \/ LoseRecords(m)) \/ UNCHANGED vars
       PROVE  Listing'
  <2>1. UNCHANGED <<mails, bound, row, pc, held>>
    BY <1>10 DEF SetTag, Redeem, LoseRecords, vars, queueVars, jobVars, storeVars, worldVars
  <2> QED
    BY <2>1, ListingStays
<1> QED
  BY <1>2, <1>3, <1>4, <1>5, <1>6, <1>7, <1>8, <1>9, <1>10 DEF Next, Step

---------------------------------------------------------------------------
\* The ban.

\* A step that mails nothing, sets no tag, and takes no run past the tag.
LEMMA ClockStays ==
  ASSUME BanClock, UNCHANGED <<sinceBan, tag>>,
         \A x \in Deliveries : pc'[x] \in Unbanned => pc[x] \in Unbanned /\ held'[x] = held[x]
  PROVE  BanClock'
  BY DEF BanClock, Op, Payer

\* The one mail to a banned member leaves no run that could send another.
LEMMA MailEndsUnbanned ==
  ASSUME IInv, BanClock, NEW d \in Deliveries, pc[d] = "mailing", SmtpAccepts(d), UNCHANGED tag,
         \A x \in Deliveries : pc'[x] \in Unbanned => x # d /\ pc[x] \in Unbanned
  PROVE  BanClock'
<1>1. TypeOK /\ QueueInv /\ Payer(d) \in Members
  BY OpFacts DEF IInv
<1>2. \A x \in Deliveries : pc'[x] \notin Unbanned
  BY <1>1, OneRuns DEF Active, Stages, Unbanned
<1>3. sinceBan[Payer(d)] = 0
  BY <1>1 DEF BanClock, Unbanned
<1>4. sinceBan' = IF tag[Payer(d)] = "banned"
                  THEN [sinceBan EXCEPT ![Payer(d)] = sinceBan[Payer(d)] + 1] ELSE sinceBan
  BY DEF SmtpAccepts
<1> QED
  BY <1>1, <1>2, <1>3, <1>4 DEF TypeOK, BanClock

\* Every step keeps the banned member's mails to the one that was under way.
LEMMA BanClockKeeps ==
  ASSUME IInv, BanClock, [Next]_vars
  PROVE  BanClock'
<1>1. TypeOK /\ QueueInv
  BY DEF IInv
<1>2. ASSUME NEW d \in Deliveries, ReadStanding(d) PROVE BanClock'
  <2>1. /\ UNCHANGED <<sinceBan, tag, held>> /\ pc[d] = "snapshot"
        /\ tag[Payer(d)] = "banned" => pc'[d] = "marking"
        /\ \A x \in Deliveries : x # d => pc'[x] = pc[x]
    BY <1>1, <1>2 DEF TypeOK, ReadStanding, Goto, queueVars, worldVars
  <2> QED
    BY <2>1 DEF BanClock, Unbanned, Op, Payer
<1>3. ASSUME NEW d \in Deliveries, InviteMailed(d) PROVE BanClock'
  <2>1. /\ pc[d] = "mailing" /\ pc'[d] = "sent" /\ SmtpAccepts(d) /\ UNCHANGED tag
        /\ \A x \in Deliveries : x # d => pc'[x] = pc[x]
    BY <1>1, <1>3 DEF TypeOK, InviteMailed, Goto
  <2> QED
    BY <2>1, MailEndsUnbanned DEF Unbanned
<1>4. ASSUME NEW d \in Deliveries, MailedAnswerLost(d) PROVE BanClock'
  <2>1. pc[d] = "mailing" /\ SmtpAccepts(d) /\ UNCHANGED tag /\ Settle(d)
    BY <1>4 DEF MailedAnswerLost
  <2> QED
    BY <1>1, <2>1, SettleFacts, MailEndsUnbanned DEF Unbanned
<1>5. ASSUME NEW d \in Deliveries,
             StartNew(d) \/ RecordsRenewed(d) \/ ReuseIssuance(d) \/ AskForInvite(d)
               \/ (\E c \in Codes : InviteCreated(d, c)) \/ BindIssuance(d) \/ WritePending(d)
               \/ MarkEmailed(d) \/ FinishHandler(d)
      PROVE  BanClock'
  <2>1. /\ UNCHANGED <<sinceBan, tag, held>>
        /\ pc'[d] \in Unbanned => pc[d] \in Unbanned
        /\ \A x \in Deliveries : x # d => pc'[x] = pc[x]
    BY <1>1, <1>5 DEF TypeOK, Unbanned, StartNew, RecordsRenewed, ReuseIssuance, AskForInvite,
       InviteCreated, BindIssuance, WritePending, MarkEmailed, FinishHandler, Goto, queueVars,
       worldVars, historyVars
  <2> QED
    BY <2>1, ClockStays
<1>6. ASSUME NEW d \in Deliveries,
             SkipProcessed(d) \/ MarkProcessed(d) \/ HandlerThrows(d)
               \/ (\E c \in Codes : CreatedAnswerLost(d, c))
      PROVE  BanClock'
  <2>1. UNCHANGED <<sinceBan, tag>> /\ Settle(d)
    BY <1>6 DEF SkipProcessed, MarkProcessed, HandlerThrows, CreatedAnswerLost, worldVars, historyVars
  <2> QED
    BY <1>1, <2>1, SettleFacts, ClockStays DEF Unbanned
<1>7. CASE Crash
  BY <1>7, ClockStays DEF Crash, worldVars, Unbanned
<1>8. ASSUME NEW d \in Deliveries, NEW e \in Events, Deliver(d, e) PROVE BanClock'
  <2>1. /\ UNCHANGED <<sinceBan, tag>> /\ pc'[d] = "waiting"
        /\ \A x \in Deliveries : x # d => pc'[x] = pc[x] /\ held'[x] = held[x]
    BY <1>1, <1>8 DEF TypeOK, Deliver, Goto, worldVars, historyVars
  <2> QED
    BY <2>1, ClockStays DEF Unbanned
<1>9. ASSUME NEW m \in Members, NEW t \in Tags, SetTag(m, t) PROVE BanClock'
  <2>1. /\ sinceBan' = [sinceBan EXCEPT ![m] = 0] /\ tag' = [tag EXCEPT ![m] = t]
        /\ UNCHANGED <<pc, held>>
    BY <1>9 DEF SetTag, queueVars, jobVars
  <2> QED
    BY <1>1, <2>1 DEF TypeOK, BanClock, Op, Payer
<1>10. ASSUME (\E m \in Members : Redeem(m) \/ LoseRecords(m)) \/ UNCHANGED vars
       PROVE  BanClock'
  <2>1. UNCHANGED <<sinceBan, tag, pc, held>>
    BY <1>10 DEF Redeem, LoseRecords, vars, queueVars, jobVars, worldVars, historyVars
  <2> QED
    BY <2>1, ClockStays
<1> QED
  BY <1>2, <1>3, <1>4, <1>5, <1>6, <1>7, <1>8, <1>9, <1>10 DEF Next, Step

---------------------------------------------------------------------------
\* Nothing is mailed, minted or listed before the first event.
LEMMA InitAccounts == Init => AInv
<1> SUFFICES ASSUME Init PROVE AInv
  OBVIOUS
<1>1. MailCount /\ Listing /\ BanClock
  BY DEF Init, MailCount, Sending, Listing, MailedMemberIsListed, BanClock
<1>2. Orphans = {} /\ Binding = {} /\ minted = {} /\ mintDoubt = 0
  BY DEF Init, Orphans, Binding
<1>3. OrphanCount
  BY <1>2, FS_EmptySet DEF OrphanCount
<1> QED
  BY <1>1, <1>3 DEF AInv

\* The accounts hold in every reachable state.
LEMMA Accounted == Spec => []AInv
<1>1. IInv /\ IInv' /\ AInv /\ [Next]_vars => AInv'
  BY MailCountKeeps, OrphanCountKeeps, ListingKeeps, BanClockKeeps DEF AInv
<1> QED
  BY <1>1, InitAccounts, Invariance, PTL DEF Spec

\* However often and in whatever order Stripe redelivers, and wherever runs are cut
\* off, what was mailed, minted and listed is accounted for by those runs.
THEOREM NothingAdded == Spec => []RedeliveriesAddNothing
<1>1. IInv /\ AInv => RedeliveriesAddNothing
  <2> SUFFICES ASSUME IInv, AInv PROVE RedeliveriesAddNothing
    OBVIOUS
  <2>1. MailedOncePerDoubt
    <3> SUFFICES ASSUME NEW o \in Operations PROVE Len(mails[o]) <= 1 + mailDoubt[o]
      BY DEF MailedOncePerDoubt
    <3>1. Len(mails[o]) \in Nat /\ mailDoubt[o] \in Nat
      BY DEF IInv, TypeOK
    <3> QED
      BY <3>1 DEF AInv, MailCount
  <2>2. OrphansComeFromDoubts
    BY DEF AInv, OrphanCount, Orphans, Binding, OrphansComeFromDoubts
  <2> QED
    BY <2>1, <2>2 DEF AInv, Listing, RedeliveriesAddNothing
<1> QED
  BY <1>1, Invariance, Accounted, PTL

\* A ban lets through at most the mail that was under way when it was set.
THEOREM BannedOnce == Spec => []AtMostOneLinkAfterBan
<1>1. IInv /\ AInv => AtMostOneLinkAfterBan
  <2> SUFFICES ASSUME IInv, AInv, NEW m \in Members PROVE sinceBan[m] <= 1
    BY DEF AtMostOneLinkAfterBan
  <2>1. sinceBan[m] \in Nat
    BY DEF IInv, TypeOK
  <2> QED
    BY <2>1 DEF AInv, BanClock
<1> QED
  BY <1>1, Invariance, Accounted, PTL
=============================================================================

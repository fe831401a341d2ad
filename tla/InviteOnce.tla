---------------------------- MODULE InviteOnce ----------------------------
(***************************************************************************)
(* What the bridge promises about paid invites, without saying how: each   *)
(* operation (a checkout session, or an invoice whose payer was found      *)
(* without access) is given one link and never another, a link goes out    *)
(* only once it is the operation's own, and a Stripe event is settled only *)
(* after its operation's link went out or the bridge logged that no link   *)
(* was due.                                                                *)
(***************************************************************************)
CONSTANTS Events,       \* Stripe event ids
          Operations,   \* what an invite is issued for
          OperationOf,  \* the operation each event names
          Codes,        \* Wizarr invite codes
          NoCode        \* an operation that has no link yet

VARIABLES link,         \* the code each operation was given
          sent,         \* operations whose link went out at least once
          excused,      \* events logged as needing no link
          settled       \* events answered for good

absVars == <<link, sent, excused, settled>>

AbsInit ==
  /\ link = [o \in Operations |-> NoCode]
  /\ sent = {}
  /\ excused = {}
  /\ settled = {}

\* An operation gets a code no other operation has.
Issue(o, c) ==
  /\ link[o] = NoCode
  /\ \A other \in Operations : link[other] # c
  /\ link' = [link EXCEPT ![o] = c]
  /\ UNCHANGED <<sent, excused, settled>>

\* The operation's link goes out; sending it again changes nothing.
Send(o) ==
  /\ link[o] # NoCode
  /\ sent' = sent \union {o}
  /\ UNCHANGED <<link, excused, settled>>

Excuse(e) ==
  /\ excused' = excused \union {e}
  /\ UNCHANGED <<link, sent, settled>>

SettleEvent(e) ==
  /\ OperationOf[e] \in sent \/ e \in excused
  /\ settled' = settled \union {e}
  /\ UNCHANGED <<link, sent, excused>>

AbsNext ==
  \/ \E o \in Operations, c \in Codes : Issue(o, c)
  \/ \E o \in Operations : Send(o)
  \/ \E e \in Events : Excuse(e) \/ SettleEvent(e)

AbsSpec == AbsInit /\ [][AbsNext]_absVars
=============================================================================

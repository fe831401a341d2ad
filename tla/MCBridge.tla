------------------------------ MODULE MCBridge ------------------------------
(***************************************************************************)
(* The bridge's admin side and the portal over it, part by part: a         *)
(* behaviour is of one part from its start, so the parts' states add up    *)
(* and none multiplies another's. What one part needs of another is in its *)
(* own variables.                                                          *)
(***************************************************************************)
EXTENDS Roster, AdminActions, AdminBilling, UpstreamSnapshot, LibraryAccess, CustomerMap,
        IncomeBooks, MemberPage, SessionCache, TLC

CONSTANTS a1, a2, a3, r1, r2, r3, local, nameless, b1, b2, u1, u2, u3, p1, p2, p3, l1, l2, l3, s1, s2

VARIABLE part

\* Members: three addresses, a record under each, and two accounts without one, the
\* second without a name either.
MCEmailOf == (r1 :> a1) @@ (r2 :> a2) @@ (r3 :> a3) @@ (local :> NoAddress) @@ (nameless :> NoAddress)
MCRank == (a1 :> 1) @@ (a2 :> 2) @@ (a3 :> 3)
MCUsernameOf == [r \in {r1, r2, r3, local, nameless} |-> IF r = nameless THEN NoName ELSE "name"]

\* Billing: two addresses, two customers at the first; the second subscribes late.
MCEmailAt == (u1 :> b1) @@ (u2 :> b1) @@ (u3 :> b2)
MCPayerOf == (p1 :> u1) @@ (p2 :> u2) @@ (p3 :> u3)

\* Alarms: two libraries on servers of their own, one named with a 4K title on
\* the allowlist, which can be made private, and one that can be removed. A third
\* can take the name the first then loses, on the same server.
MCServerOf == (l1 :> s1) @@ (l2 :> s2) @@ (l3 :> s1)
Name(prefix, title) == [prefix |-> prefix, title |-> title]
MCNames == {Name("ordering", "4k family"), Name("private", "4k family"), Name("none", "movies")}
MCFirstList ==
  (l1 :> Name("ordering", "4k family")) @@ (l2 :> Name("none", "movies")) @@ (l3 :> Gone)
MCPrivate == [MCFirstList EXCEPT ![l1] = Name("private", "4k family")]
MCOtherLists ==
  {MCFirstList, MCPrivate, [MCFirstList EXCEPT ![l2] = Gone],
   [MCPrivate EXCEPT ![l3] = Name("ordering", "4k family")]}

\* Income: two tiers at the landing page's prices.
MCPrice == ("bronze" :> 8) @@ ("gold" :> 12)

Parts == {"members", "admin", "billing", "snapshot", "alarms", "customers",
          "income", "page", "session"}

BridgeInit ==
  /\ part \in Parts
  /\ Init /\ AdminInit /\ BillingInit /\ SnapshotInit /\ AlarmInit /\ CustomerInit
  /\ IncomeInit /\ PageInit /\ SessionInit
  /\ part # "income" => preceding = {}
  /\ part # "page" => caches["list"].row # NoRow

bridgeVars == <<vars, adminVars, billingVars, snapshotVars, alarmVars, customerVars>>
portalVars == <<incomeVars, pageVars, sessionVars>>
allVars == <<part, bridgeVars, portalVars>>

BridgeNext ==
  /\ UNCHANGED part
  /\ \/ /\ part = "members" /\ Next
        /\ UNCHANGED <<adminVars, billingVars, snapshotVars, alarmVars, customerVars, portalVars>>
     \/ /\ part = "admin" /\ AdminNext
        /\ UNCHANGED <<vars, billingVars, snapshotVars, alarmVars, customerVars, portalVars>>
     \/ /\ part = "billing" /\ BillingNext
        /\ UNCHANGED <<vars, adminVars, snapshotVars, alarmVars, customerVars, portalVars>>
     \/ /\ part = "snapshot" /\ SnapshotNext
        /\ UNCHANGED <<vars, adminVars, billingVars, alarmVars, customerVars, portalVars>>
     \/ /\ part = "alarms" /\ AlarmNext
        /\ UNCHANGED <<vars, adminVars, billingVars, snapshotVars, customerVars, portalVars>>
     \/ /\ part = "customers" /\ CustomerNext
        /\ UNCHANGED <<vars, adminVars, billingVars, snapshotVars, alarmVars, portalVars>>
     \/ /\ part = "income" /\ IncomeNext
        /\ UNCHANGED <<bridgeVars, pageVars, sessionVars>>
     \/ /\ part = "page" /\ PageNext
        /\ UNCHANGED <<bridgeVars, incomeVars, sessionVars>>
     \/ /\ part = "session" /\ SessionNext
        /\ UNCHANGED <<bridgeVars, incomeVars, pageVars>>

\* Fairness is the snapshot's, where it is that part that moves.
InSnapshot(A) ==
  /\ part = "snapshot" /\ A
  /\ UNCHANGED <<part, vars, adminVars, billingVars, alarmVars, customerVars, portalVars>>
BridgeFairness ==
  /\ WF_allVars(InSnapshot(LoopRefreshes))
  /\ \A f \in Fetchers :
       /\ \A l \in Feeds : WF_allVars(InSnapshot(Answered(f, l)))
       /\ WF_allVars(InSnapshot(refresh(f)))

BridgeSpec == BridgeInit /\ [][BridgeNext]_allVars /\ BridgeFairness

\* Every part's state is well-typed.
BridgeTypeOK ==
  /\ TypeOK /\ AdminTypeOK /\ BillingTypeOK /\ SnapshotTypeOK /\ AlarmTypeOK /\ CustomerTypeOK
  /\ IncomeTypeOK /\ PageTypeOK /\ SessionTypeOK

\* The portal's two views of the lists that the alarms part moves.
LibrariesAreTold == part = "alarms" => AccessIsTold /\ ListAgreesWithPage

\* A member's story is not followed further once the log leaves something of it out.
StoriesTold == part = "income" => untold = {}
=============================================================================

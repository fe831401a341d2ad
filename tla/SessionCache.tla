---------------------------- MODULE SessionCache ----------------------------
(***************************************************************************)
(* The members list outlives a reload of the page and not a sign-out: the  *)
(* queries in memory, the copy in the tab's storage and the copy on its    *)
(* way there belong to the signed-in account. A copy is written some time  *)
(* after the queries change, and each clearing starts a new generation of  *)
(* writers. The account found at a load is the one the tab was left with,  *)
(* or none: what another tab does meanwhile is not looked at.              *)
(***************************************************************************)
EXTENDS Naturals

CONSTANTS Accounts,
          Nobody,           \* no account, and so nobody's data
          MaxGeneration     \* bound: clearings since the page was loaded

ASSUME SessionAssumption == Nobody \notin Accounts /\ MaxGeneration \in Nat

VARIABLES
  auth,       \* the session's status: loading, in or out
  account,    \* the email signed in, or left with at the reload
  restored,   \* the provider has looked into the storage; queries wait for it
  memory,     \* whose members the query cache holds
  asking,     \* whose fetch of the members is out
  storage,    \* whose members the tab's storage holds
  generation, \* the writer in use
  throttled   \* copies on their way to the storage, each with its writer

sessionVars == <<auth, account, restored, memory, asking, storage, generation, throttled>>

Owners == Accounts \union {Nobody}
Copies == [writer : Nat, owner : Owners]

SessionTypeOK ==
  /\ auth \in {"loading", "in", "out"} /\ account \in Owners
  /\ restored \in BOOLEAN
  /\ memory \in Owners /\ asking \in Owners /\ storage \in Owners
  /\ generation \in Nat /\ throttled \subseteq Copies

SessionInit ==
  /\ auth = "loading" /\ account = Nobody
  /\ restored = FALSE
  /\ memory = Nobody /\ asking = Nobody /\ storage = Nobody
  /\ generation = 0 /\ throttled = {}

\* The queries dropped, those being fetched with them, and the stored copy removed; what
\* the old writer still has to write is no longer the current generation's.
clear ==
  /\ memory' = Nobody /\ asking' = Nobody /\ storage' = Nobody
  /\ generation' = generation + 1
  /\ UNCHANGED throttled

\* The auth store's subscriber: a sign-out clears, and so does another account's sign-in.
Becomes(status, who) ==
  /\ auth' = status /\ account' = who
  /\ IF status = "out" \/ (auth = "in" /\ who # account)
     THEN generation < MaxGeneration /\ clear
     ELSE UNCHANGED <<memory, asking, storage, generation, throttled>>
  /\ UNCHANGED restored

\* Supabase tells of a session: signed in, a token refreshed, gone.
onAuthStateChange(who) ==
  /\ auth = "loading" /\ account # Nobody => who \in {account, Nobody}
  /\ Becomes(IF who = Nobody THEN "out" ELSE "in", who)

signOut == Becomes("out", Nobody)

\* The admin signs out; or a call of any session was answered 401, however late.
LeavesGate == auth = "in" /\ signOut
onAuthError == auth # "loading" /\ signOut

\* The provider reads the stored copy as it mounts: the queries of it, or, for one too
\* old or written by another build, its removal.
restoreClient ==
  /\ ~restored /\ restored' = TRUE
  /\ \/ memory' = storage /\ UNCHANGED <<storage, generation>>
     \/ /\ storage # Nobody /\ generation < MaxGeneration
        /\ storage' = Nobody /\ generation' = generation + 1
        /\ UNCHANGED memory
  /\ UNCHANGED <<auth, account, asking, throttled>>

\* A page behind the gate asks for the members; the answer changes the queries.
FetchMembers(who) ==
  /\ restored /\ auth = "in" /\ who = account /\ asking = Nobody
  /\ asking' = who
  /\ UNCHANGED <<auth, account, restored, memory, storage, generation, throttled>>

MembersLand ==
  /\ asking # Nobody
  /\ memory' = asking /\ asking' = Nobody
  /\ UNCHANGED <<auth, account, restored, storage, generation, throttled>>

\* The cache changed: the writer in use keeps its latest copy until its interval is over.
persistClient ==
  /\ restored /\ auth = "in"
  /\ throttled' = {copy \in throttled : copy.writer # generation}
                    \union {[writer |-> generation, owner |-> memory]}
  /\ UNCHANGED <<auth, account, restored, memory, asking, storage, generation>>

\* Mutant: a writer looks at the session only.
setItemAnyWriter(copy) ==
  /\ throttled' = throttled \ {copy}
  /\ storage' = IF auth = "in" THEN copy.owner ELSE storage
  /\ UNCHANGED <<auth, account, restored, memory, asking, generation>>

\* The interval is over: a copy of the writer in use is stored while signed in.
setItem(copy) ==
  /\ throttled' = throttled \ {copy}
  /\ storage' = IF copy.writer = generation /\ auth = "in" THEN copy.owner ELSE storage
  /\ UNCHANGED <<auth, account, restored, memory, asking, generation>>

\* The page is loaded again: only the tab's storage is left, and the session's.
Reload ==
  /\ auth' = "loading" /\ restored' = FALSE
  /\ memory' = Nobody /\ asking' = Nobody
  /\ generation' = 0 /\ throttled' = {}
  /\ UNCHANGED <<account, storage>>

SessionNext ==
  \/ \E who \in Owners : onAuthStateChange(who)
  \/ LeavesGate \/ onAuthError \/ restoreClient \/ MembersLand \/ persistClient \/ Reload
  \/ \E who \in Accounts : FetchMembers(who)
  \/ \E copy \in throttled : setItem(copy)

SessionSpec == SessionInit /\ [][SessionNext]_sessionVars

(***************************************************************************)
(* Property                                                                *)
(***************************************************************************)
\* Signed out is gone: neither the queries in memory nor the tab's storage ever hold
\* another session's members, and nothing of anybody's once signed out; "a pending
\* pre-sign-out write must not resurrect member data, even after a quick sign-in".
SignedOutIsGone ==
  /\ memory \in {Nobody, account} /\ storage \in {Nobody, account}
  /\ auth = "out" => memory = Nobody /\ storage = Nobody
=============================================================================

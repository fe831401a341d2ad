----------------------------- MODULE MemberPage -----------------------------
(***************************************************************************)
(* The member page: a member's row cached twice, under the member's own    *)
(* query and in the members list, and the calls that change it at the      *)
(* bridge. Expiry and downloads are shown before the bridge answers and    *)
(* put back if it refuses; the tag and the ban after. Every answer marks   *)
(* both caches for a reload: the member's own at once, where the page is   *)
(* open, the list when next viewed.                                        *)
(***************************************************************************)
EXTENDS Naturals, FiniteSets

CONSTANTS MaxCalls,         \* bound: calls made
          MaxLosses,        \* bound: fetches and calls that fail
          NoRow           \* a query that holds no data

\* A reset tier and a new invite change the tier as a tag call changes the tag.
ChangeKinds == {"expiry", "downloads", "tag", "ban"}
Optimistic == {"expiry", "downloads"}
fieldOf(kind) == IF kind = "ban" THEN "tag" ELSE kind
Fields == {fieldOf(k) : k \in ChangeKinds}
MemberRows == [Fields -> 0..1]

ASSUME PageAssumption == MaxCalls \in Nat /\ MaxLosses \in Nat /\ NoRow \notin MemberRows

Queries == {"detail", "list"}
Calls == 1..MaxCalls

VARIABLES
  bridgeRow,  \* the member as the bridge has them
  onPage,     \* the page open: user or manage
  caches,     \* each query's row of the member, and what is known of it
  fetches,   \* each query's fetch: none, asked, or read and not landed
  calls,      \* each call: its stage, what it changes and both rows before it
  losses,     \* failures so far
  held,       \* history: the values of each field the bridge ever had
  doubtful    \* history: fields whose calls overlapped or whose answer was lost, and
              \* queries marked while a fetch of theirs was out that went on

pageVars == <<bridgeRow, onPage, caches, fetches, calls, losses, held, doubtful>>

NoFetch == [stage |-> "no", row |-> NoRow]
NoCall == [stage |-> "none", kind |-> "tag", value |-> 0, before |-> NoRow]

PageTypeOK ==
  /\ bridgeRow \in MemberRows /\ onPage \in {"user", "manage"}
  /\ caches \in [Queries -> [row : MemberRows \union {NoRow}, invalid : BOOLEAN,
                             failed : BOOLEAN]]
  /\ fetches \in [Queries -> [stage : {"no", "asked", "read"},
                               row : MemberRows \union {NoRow}]]
  /\ DOMAIN calls = Calls
  /\ losses \in 0..MaxLosses
  /\ held \in [Fields -> SUBSET (0..1)]
  /\ doubtful \subseteq (Fields \union Queries)

\* A member page opened from the list, or by its address alone.
PageInit ==
  /\ bridgeRow = [f \in Fields |-> 0]
  /\ onPage = "user"
  /\ \E listed \in {bridgeRow, NoRow} :
       caches = [q \in Queries |-> [row |-> IF q = "list" THEN listed ELSE bridgeRow,
                                    invalid |-> FALSE, failed |-> FALSE]]
  /\ fetches = [q \in Queries |-> NoFetch]
  /\ calls = [c \in Calls |-> NoCall]
  /\ losses = 0
  /\ held = [f \in Fields |-> {0}]
  /\ doubtful = {}

waiting == {c \in Calls : calls[c].stage \in {"sent", "done", "refused"}}
waitingOf(kind) == {c \in waiting : calls[c].kind = kind}

\* The buttons: each is off while its own call is out, the downloads toggle never is.
Offered(kind) ==
  /\ onPage = "user"
  /\ kind # "downloads" => waitingOf(kind) = {}
  /\ kind = "ban" => caches["detail"].row["tag"] # 1

\* A field set in both caches, where they hold the member.
Set(row, field, value) == IF row = NoRow THEN NoRow ELSE [row EXCEPT ![field] = value]
patchMember(field, value) ==
  [q \in Queries |-> [caches[q] EXCEPT !.row = Set(@, field, value)]]

\* Mutant: what was there before is put back on the member's own row only.
restoreDetail(field, before) ==
  [q \in Queries |->
    IF q = "list" THEN caches[q]
    ELSE [caches[q] EXCEPT !.row = Set(@, field, before[q][field])]]

\* The field a call changed put back as it was, in both caches.
restoreMember(field, before) ==
  [q \in Queries |->
    IF before[q] = NoRow THEN caches[q]
    ELSE [caches[q] EXCEPT !.row = Set(@, field, before[q][field])]]

\* Both queries marked, the member's own fetched anew where its page is open. Any other
\* fetch already out goes on, and clears the mark when it lands.
Refetched == IF onPage = "user" THEN {"detail"} ELSE {}
invalidateMember(next) ==
  /\ caches' = [q \in Queries |-> [next[q] EXCEPT !.invalid = TRUE]]
  /\ fetches' = [q \in Queries |->
       IF q \in Refetched THEN [stage |-> "asked", row |-> NoRow] ELSE fetches[q]]
  /\ doubtful' = (doubtful \ Refetched) \union
                 {q \in Queries \ Refetched : fetches[q].stage # "no"}

\* onMutate of an optimistic change, and the call sent; the others only send it.
Mutate(kind, value) ==
  LET field == fieldOf(kind)
      before == [q \in Queries |-> caches[q].row] IN
  /\ Offered(kind)
  /\ kind = "ban" => value = 1
  /\ \E c \in Calls :
       /\ calls[c].stage = "none" /\ \A d \in Calls : d < c => calls[d].stage # "none"
       /\ calls' = [calls EXCEPT ![c] =
            [stage |-> "sent", kind |-> kind, value |-> value, before |-> before]]
  /\ IF kind \in Optimistic
     THEN caches' = patchMember(field, value) /\ fetches' = [q \in Queries |-> NoFetch]
     ELSE UNCHANGED <<caches, fetches>>
  /\ doubtful' = IF kind = "downloads" /\ waitingOf(kind) # {} THEN doubtful \union {field}
                 ELSE doubtful
  /\ UNCHANGED <<bridgeRow, onPage, losses, held>>

\* The bridge carries the change out; or the call fails, before it or after.
Apply(c) ==
  LET field == fieldOf(calls[c].kind)
      write == /\ bridgeRow' = [bridgeRow EXCEPT ![field] = calls[c].value]
               /\ held' = [held EXCEPT ![field] = @ \union {calls[c].value}] IN
  /\ calls[c].stage = "sent"
  /\ \/ write /\ calls' = [calls EXCEPT ![c].stage = "done"] /\ UNCHANGED <<losses, doubtful>>
     \/ /\ losses < MaxLosses /\ losses' = losses + 1
        /\ calls' = [calls EXCEPT ![c].stage = "refused"]
        /\ \/ UNCHANGED <<bridgeRow, held, doubtful>>
           \/ write /\ doubtful' = doubtful \union ({field} \ Optimistic)
  /\ UNCHANGED <<onPage, caches, fetches>>

Finish(c) == calls' = [calls EXCEPT ![c] = [NoCall EXCEPT !.stage = "over"]]

Confirmed(c) ==
  /\ calls[c].stage = "done"
  /\ Finish(c)
  /\ invalidateMember(patchMember(fieldOf(calls[c].kind), calls[c].value))
  /\ UNCHANGED <<bridgeRow, onPage, losses, held>>

\* A refusal: an optimistic change is put back, and the ban's partial work read anew.
Refused(c) ==
  /\ calls[c].stage = "refused"
  /\ Finish(c)
  /\ CASE calls[c].kind \in Optimistic ->
            invalidateMember(restoreMember(fieldOf(calls[c].kind), calls[c].before))
       [] calls[c].kind = "ban" -> invalidateMember(caches)
       [] OTHER -> UNCHANGED <<caches, fetches, doubtful>>
  /\ UNCHANGED <<bridgeRow, onPage, losses, held>>

FetchReads(q) ==
  /\ fetches[q].stage = "asked"
  /\ fetches' = [fetches EXCEPT ![q] = [stage |-> "read", row |-> bridgeRow]]
  /\ UNCHANGED <<bridgeRow, onPage, caches, calls, losses, held, doubtful>>

\* A fetch lands, clearing the mark, or fails and leaves what was shown marked.
FetchLands(q) ==
  /\ fetches[q].stage = "read"
  /\ fetches' = [fetches EXCEPT ![q] = NoFetch]
  /\ \/ /\ caches' = [caches EXCEPT ![q] =
             [row |-> fetches[q].row, invalid |-> FALSE, failed |-> FALSE]]
        /\ UNCHANGED losses
     \/ /\ losses < MaxLosses /\ losses' = losses + 1
        /\ caches' = [caches EXCEPT ![q] = [@ EXCEPT !.invalid = TRUE, !.failed = TRUE]]
  /\ UNCHANGED <<bridgeRow, onPage, calls, held, doubtful>>

\* To the other page: its query is fetched when it holds nothing or is marked, and the
\* member's own starts from the list's row when it has none.
Navigate ==
  LET q == IF onPage = "user" THEN "list" ELSE "detail" IN
  /\ onPage' = IF onPage = "user" THEN "manage" ELSE "user"
  /\ IF (caches[q].row = NoRow \/ caches[q].invalid) /\ fetches[q].stage = "no"
     THEN /\ fetches' = [fetches EXCEPT ![q] = [stage |-> "asked", row |-> NoRow]]
          /\ doubtful' = doubtful \ {q}
     ELSE UNCHANGED <<fetches, doubtful>>
  /\ UNCHANGED <<bridgeRow, caches, calls, losses, held>>

PageNext ==
  \/ \E kind \in ChangeKinds, value \in 0..1 : Mutate(kind, value)
  \/ \E c \in Calls : Apply(c) \/ Confirmed(c) \/ Refused(c)
  \/ \E q \in Queries : FetchReads(q) \/ FetchLands(q)
  \/ Navigate

PageSpec == PageInit /\ [][PageNext]_pageVars

(***************************************************************************)
(* Property                                                                *)
(***************************************************************************)
AtRest == waiting = {} /\ \A q \in Queries : fetches[q].stage = "no"

\* "A rejected change never leaves the optimistic value on screen": once no call and
\* no fetch is out, neither cache shows a value the bridge never had; the member page
\* shows the bridge's own row; and a list not marked for a reload does too. What the
\* code leaves open is excepted: downloads toggled again before the answer, a tag call
\* whose answer was lost, and a fetch that was out while its query was marked.
PageIsHonest ==
  LET tells(q, f) == q \notin doubtful => caches[q].row[f] = bridgeRow[f] IN
  AtRest =>
    \A f \in Fields \ doubtful :
      /\ \A q \in Queries : caches[q].row # NoRow => caches[q].row[f] \in held[f]
      /\ onPage = "user" /\ ~caches["detail"].failed => tells("detail", f)
      /\ caches["list"].row # NoRow /\ ~caches["list"].invalid => tells("list", f)
=============================================================================

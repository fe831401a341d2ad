---------------------------- MODULE AdminActions ----------------------------
(***************************************************************************)
(* The admin's requests about one member, side by side: setTag, banMember, *)
(* resetExpiry and reissueInvite, each cut at its awaits. The member's     *)
(* addresses all resolve to one person (MemberLinks); what a ban does to   *)
(* their billing is AdminBilling, and what the page shows of it all        *)
(* UpstreamSnapshot.                                                       *)
(***************************************************************************)
EXTENDS Naturals, FiniteSets

CONSTANTS Ids,          \* Wizarr record ids; a redeemed link makes new ones
          OnCovered,    \* ids of records on servers the reissued tier covers
          Asked,        \* ids of records under the very address asked about
          Held,         \* the records the member starts with
          Requests,     \* POSTs, each of one kind
          MaxLinks,     \* links reissued
          MaxFailures   \* calls that fail

ASSUME AdminAssumption ==
  /\ OnCovered \subseteq Ids /\ Asked \subseteq Ids /\ Held \subseteq Ids
  /\ MaxLinks \in Nat /\ MaxFailures \in Nat

Kinds == {"ban", "expiry", "reissue"}
Tags == {"none", "vip", "hvu", "banned"}
LinkStates == {"none", "minted", "out", "used"}

VARIABLES
  tag,        \* the member's tag
  records,    \* ids of the records Wizarr holds enabled
  born,       \* ids that exist or have existed
  stamped,    \* records that carry the expiry an admin set
  link,       \* each link: minted, out (mailed, or shown to the admin), used
  pending,    \* invite_code of the member's row
  request,    \* each POST: kind, stage, the ids its snapshot held, those to do
  failures,
  source,     \* history: the link each record came from
  standing,   \* history: bans since which the tag has stayed
  allowed,    \* history: links that were there when the tag was set, and the
  passed      \* reissues that were past their check by then

banVars == <<standing, allowed, passed>>
wizarrVars == <<records, born, source, stamped>>
adminVars == <<tag, wizarrVars, link, pending, request, failures, banVars>>

LinkIds == 1..MaxLinks
Unlinked == 0

Fresh == [at |-> "new", kind |-> "none", held |-> {}, todo |-> {}, link |-> Unlinked]
Stages == {"new", "read", "disable", "billing", "stamp", "scope", "mint", "rescope", "mail",
           "done", "refused", "failed"}

AdminTypeOK ==
  /\ tag \in Tags
  /\ records \subseteq born /\ born \subseteq Ids
  /\ stamped \subseteq Ids
  /\ link \in [LinkIds -> LinkStates]
  /\ pending \in LinkIds \union {Unlinked}
  /\ request \in [Requests -> [at : Stages, kind : Kinds \union {"none"}, held : SUBSET Ids,
                               todo : SUBSET Ids, link : LinkIds \union {Unlinked}]]
  /\ failures \in 0..MaxFailures
  /\ source \in [Ids -> LinkIds \union {Unlinked}]
  /\ standing \subseteq Requests /\ passed \subseteq Requests
  /\ allowed \subseteq LinkIds

AdminInit ==
  /\ tag = "none"
  /\ records = Held /\ born = Held
  /\ stamped = {}
  /\ link = [l \in LinkIds |-> "none"]
  /\ pending = Unlinked
  /\ request = [q \in Requests |-> Fresh]
  /\ failures = 0
  /\ source = [r \in Ids |-> Unlinked]
  /\ standing = {} /\ allowed = {} /\ passed = {}

At(q, stage) == request[q].at = stage
Goes(q, stage) == request' = [request EXCEPT ![q].at = stage]
GoesOn(q, stage, todo) == request' = [request EXCEPT ![q].at = stage, ![q].todo = todo]
Cuts(q, r, stage) ==
  request' = [request EXCEPT ![q].at = stage, ![q].todo = @ \ {r}]
Passed(q) == request[q].kind = "reissue" /\ request[q].at \in {"scope", "mint"}

\* The tag is written; what was on its way by then is noted.
Tagged(new, by) ==
  /\ tag' = new
  /\ standing' = IF new = "banned" THEN standing \union by ELSE {}
  /\ IF new = "banned" /\ tag # "banned"
     THEN allowed' = {l \in LinkIds : link[l] # "none"} /\ passed' = {q \in Requests : Passed(q)}
     ELSE UNCHANGED <<allowed, passed>>

\* The next link comes to be, by request q.
Mints(l, q) ==
  /\ link[l] = "none"
  /\ \A older \in 1..(l - 1) : link[older] # "none"
  /\ link' = [link EXCEPT ![l] = "minted"]
  /\ allowed' = IF q \in passed THEN allowed \union {l} ELSE allowed
  /\ passed' = passed \ {q}

---------------------------------------------------------------------------
\* Single writes.

tagMember(new) ==
  /\ tag # new
  /\ Tagged(new, {})
  /\ UNCHANGED <<wizarrVars, link, pending, request, failures>>

---------------------------------------------------------------------------
\* The requests. A request that needs Wizarr's list starts by asking for it; a
\* ban sets the tag before that.

Posted(q, kind) ==
  /\ At(q, "new")
  /\ request' = [request EXCEPT ![q] = [Fresh EXCEPT !.at = "read", !.kind = kind]]
  /\ UNCHANGED <<wizarrVars, link, pending, failures>>

BanStarts(q) == Posted(q, "ban") /\ Tagged("banned", {q})
ExpiryStarts(q) == Posted(q, "expiry") /\ UNCHANGED <<tag, banVars>>
ReissueStarts(q) == Posted(q, "reissue") /\ UNCHANGED <<tag, banVars>>

\* The list has been read: what the request then works from.
ListRead(q, kind, ids, stage) ==
  /\ At(q, "read") /\ request[q].kind = kind
  /\ request' = [request EXCEPT ![q].at = stage, ![q].held = ids, ![q].todo = ids]
  /\ UNCHANGED <<tag, wizarrVars, link, pending, failures, banVars>>

\* Mutant: the records under the address asked about alone.
BanReadsAddress(q) ==
  ListRead(q, "ban", records \intersect Asked,
       IF records \intersect Asked = {} THEN "billing" ELSE "disable")

\* Every record of the person, under any of their addresses.
BanReads(q) == ListRead(q, "ban", records, IF records = {} THEN "billing" ELSE "disable")

\* What the body asks for: a stamp, a number of days (expires_at wins), or neither,
\* which clears. A stamp that is not ISO and days past the calendar are refused.
expiryFor ==
  [absolute |-> "stamp", malformed |-> "refused", days |-> "stamp", outOfRange |-> "failed",
   neither |-> "stamp"]

\* findUsersByEmail: the records under one address, or a 404, whatever was asked.
ExpiryReads(q) ==
  \E body \in DOMAIN expiryFor :
    ListRead(q, "expiry", records \intersect Asked,
         IF records \intersect Asked = {} THEN "refused" ELSE expiryFor[body])

\* A banned member is refused, by the tag as it is once the list has come.
ReissueReads(q) ==
  ListRead(q, "reissue", records \intersect Asked, IF tag = "banned" THEN "refused" ELSE "scope")

\* wizarr.disableUser, one id after another. One that is gone makes the call
\* throw, as any failure does; the request ends there, its work so far done.
Disable(q, from, then) ==
  \E r \in request[q].todo :
    /\ At(q, from)
    /\ r \in records
    /\ records' = records \ {r}
    /\ Cuts(q, r, IF request[q].todo = {r} THEN then ELSE from)
    /\ UNCHANGED <<tag, born, source, stamped, link, pending, failures, banVars>>

BanDisables(q) == Disable(q, "disable", "billing")

\* flagSubscriptions never throws: the ban is done whatever became of it.
BanBills(q) ==
  /\ At(q, "billing")
  /\ Goes(q, "done")
  /\ UNCHANGED <<tag, wizarrVars, link, pending, failures, banVars>>

\* wizarr.setExpiry, one id after another.
ExpiryStamps(q) ==
  /\ At(q, "stamp")
  /\ \E r \in request[q].todo :
       /\ r \in records
       /\ stamped' = stamped \union {r}
       /\ LET left == request[q].todo \ {r} IN GoesOn(q, IF left = {} THEN "done" ELSE "stamp", left)
  /\ UNCHANGED <<tag, records, born, source, link, pending, failures, banVars>>

\* liveScope: the tier resolves, or the request ends.
ReissueScopes(q) ==
  /\ At(q, "scope")
  /\ \E stage \in {"mint", "failed"} : Goes(q, stage)
  /\ UNCHANGED <<tag, wizarrVars, link, pending, failures, banVars>>

\* staleRecordIds: a record on a server left out can only go by disabling all.
staleRecordIds(held) == IF held \subseteq OnCovered THEN {} ELSE held

\* issueInvite names no operation, so every reissue mints; its row points at the
\* new link in the same step.
ReissueMints(q) ==
  /\ At(q, "mint")
  /\ \E l \in LinkIds :
       /\ Mints(l, q)
       /\ pending' = l
       /\ LET stale == staleRecordIds(request[q].held) IN
          request' = [request EXCEPT ![q].at = IF stale = {} THEN "mail" ELSE "rescope",
                                     ![q].todo = stale, ![q].link = l]
  /\ UNCHANGED <<tag, wizarrVars, failures, standing>>

ReissueRescopes(q) == Disable(q, "rescope", "mail")

\* sendInvite's failure is reported, not thrown: the admin has the link either way.
ReissueMails(q) ==
  /\ At(q, "mail")
  /\ link' = [link EXCEPT ![request[q].link] = IF @ = "minted" THEN "out" ELSE @]
  /\ Goes(q, "done")
  /\ UNCHANGED <<tag, wizarrVars, pending, failures, banVars>>

\* A record the request is to write is gone: the call throws.
WritesGone(q) ==
  /\ request[q].at \in {"disable", "stamp", "rescope"}
  /\ request[q].todo \ records # {}
  /\ Goes(q, "failed")
  /\ UNCHANGED <<tag, wizarrVars, link, pending, failures, banVars>>

\* A call fails: nothing of it happened, or all of it with its answer lost. The
\* admin is answered a 500, and may post again.
CallFails(q) ==
  /\ failures < MaxFailures
  /\ failures' = failures + 1
  /\ request[q].at \in {"read", "disable", "stamp", "mint", "rescope"}
  /\ \/ UNCHANGED <<records, stamped, link, allowed, passed>> /\ Goes(q, "failed")
     \/ /\ request[q].at \in {"disable", "rescope"}
        /\ \E r \in request[q].todo : records' = records \ {r} /\ Cuts(q, r, "failed")
        /\ UNCHANGED <<stamped, link, allowed, passed>>
     \/ /\ At(q, "stamp")
        /\ \E r \in request[q].todo \intersect records : stamped' = stamped \union {r}
        /\ Goes(q, "failed")
        /\ UNCHANGED <<records, link, allowed, passed>>
     \/ /\ At(q, "mint")
        /\ \E l \in LinkIds : Mints(l, q)
        /\ Goes(q, "failed")
        /\ UNCHANGED <<records, stamped>>
  /\ UNCHANGED <<tag, born, source, pending, standing>>

---------------------------------------------------------------------------
\* Outside the bridge.

\* Someone opens a link: new records on the servers its tier covers.
OpenLink(l) ==
  /\ link[l] = "out"
  /\ link' = [link EXCEPT ![l] = "used"]
  /\ \E r \in OnCovered \ born :
       /\ records' = records \union {r}
       /\ born' = born \union {r}
       /\ source' = [source EXCEPT ![r] = l]
  /\ UNCHANGED <<tag, stamped, pending, request, failures, banVars>>

\* A record runs out.
Expire(r) ==
  /\ r \in records
  /\ records' = records \ {r}
  /\ UNCHANGED <<tag, born, source, stamped, link, pending, request, failures, banVars>>

AdminNext ==
  \/ \E new \in Tags : tagMember(new)
  \/ \E q \in Requests :
       \/ BanStarts(q) \/ ExpiryStarts(q) \/ ReissueStarts(q)
       \/ BanReads(q) \/ ExpiryReads(q) \/ ReissueReads(q)
       \/ BanDisables(q) \/ BanBills(q) \/ ExpiryStamps(q)
       \/ ReissueScopes(q) \/ ReissueMints(q) \/ ReissueRescopes(q) \/ ReissueMails(q)
       \/ WritesGone(q) \/ CallFails(q)
  \/ \E l \in LinkIds : OpenLink(l)
  \/ \E r \in Ids : Expire(r)

AdminSpec == AdminInit /\ [][AdminNext]_adminVars

---------------------------------------------------------------------------
\* Properties.

\* A ban that was answered holds for as long as the tag stays: whatever the
\* member still has came through a link that was there before the ban, or from
\* a reissue that was already past its check (banMember: the tag first, then
\* every record on a list read after it).
BanHolds ==
  \A q \in standing : At(q, "done") => \A r \in records : source[r] \in allowed
=============================================================================

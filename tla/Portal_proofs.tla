---------------------------- MODULE Portal_proofs ---------------------------
(***************************************************************************)
(* Proofs about SessionCache, for any accounts and any number of clearings,*)
(* and about MemberPage, for any number of calls and failures.             *)
(***************************************************************************)
EXTENDS MemberPage, SessionCache, TLAPS

\* Whatever is kept is the account's, or nobody's.
Own(owner) == owner \in {Nobody, account}

\* A copy of the writer in use is the account's too; one of an earlier writer
\* may be anybody's, and no writer is ahead of the generation.
CopiesOwn ==
  \A copy \in throttled :
    copy.writer <= generation /\ (copy.writer = generation => Own(copy.owner))

\* The inductive invariant. A fetch that is out and a copy that waits will be
\* kept in their turn, so they are held to the account as what is kept is.
KeptOwn ==
  /\ Own(memory) /\ Own(storage) /\ Own(asking)
  /\ auth = "out" => account = Nobody
  /\ CopiesOwn

\* A page that loads keeps nothing, and nothing is on its way.
LEMMA InitKeeps == SessionInit => SessionTypeOK /\ KeptOwn
<1>. SUFFICES ASSUME SessionInit PROVE SessionTypeOK /\ KeptOwn
  OBVIOUS
<1>1. Nobody \in Owners
  BY DEF Owners
<1>2. SessionTypeOK
  BY <1>1 DEF SessionInit, SessionTypeOK
<1>3. CopiesOwn
  BY DEF SessionInit, CopiesOwn
<1>4. KeptOwn
  BY <1>3 DEF SessionInit, KeptOwn, Own
<1>5. QED
  BY <1>2, <1>4

\* Clearing leaves nobody's data under a writer that none of the copies has.
LEMMA ClearKeeps ==
  ASSUME SessionTypeOK, clear, account' \in Owners, auth' \in {"in", "out"},
         auth' = "out" => account' = Nobody, restored' = restored
  PROVE  SessionTypeOK' /\ (KeptOwn /\ CopiesOwn => KeptOwn')
<1>1. SessionTypeOK'
  BY DEF SessionTypeOK, clear, Owners
<1>2. ASSUME CopiesOwn PROVE CopiesOwn'
  BY <1>2, SMT DEF CopiesOwn, clear, SessionTypeOK, Copies
<1>3. QED
  BY <1>1, <1>2 DEF KeptOwn, clear, Own

\* Without a clearing the account stays, or there was none.
LEMMA StayKeeps ==
  ASSUME SessionTypeOK, KeptOwn, account' \in Owners, auth' = "in",
         account = Nobody \/ account' = account, restored' = restored,
         UNCHANGED <<memory, asking, storage, generation, throttled>>
  PROVE  SessionTypeOK' /\ KeptOwn'
<1>1. SessionTypeOK'
  BY DEF SessionTypeOK
<1>2. \A owner : Own(owner) => Own(owner)'
  BY DEF Own
<1>3. CopiesOwn'
  BY <1>2 DEF KeptOwn, CopiesOwn, Own
<1>4. QED
  BY <1>1, <1>3 DEF KeptOwn, Own

\* The subscriber's step keeps it, whichever session it is told of.
LEMMA BecomesKeeps ==
  ASSUME SessionTypeOK, KeptOwn, NEW who \in Owners,
         NEW status, status = (IF who = Nobody THEN "out" ELSE "in"),
         auth = "loading" /\ account # Nobody => who \in {account, Nobody},
         Becomes(status, who)
  PROVE  SessionTypeOK' /\ KeptOwn'
<1>1. /\ auth' = status /\ account' = who /\ restored' = restored
      /\ status \in {"in", "out"} /\ (status = "out" => who = Nobody)
  BY DEF Becomes
<1>2. CASE status = "out" \/ (auth = "in" /\ who # account)
  <2>1. clear
    BY <1>2 DEF Becomes
  <2>2. QED
    BY <1>1, <2>1, ClearKeeps DEF KeptOwn
<1>3. CASE ~(status = "out" \/ (auth = "in" /\ who # account))
  <2>1. UNCHANGED <<memory, asking, storage, generation, throttled>>
    BY <1>3 DEF Becomes
  <2>2. auth' = "in"
    BY <1>1, <1>3
  <2>3. account = Nobody \/ who = account
    BY <1>1, <1>3 DEF SessionTypeOK, KeptOwn
  <2>4. QED
    BY <1>1, <2>1, <2>2, <2>3, StayKeeps
<1>4. QED
  BY <1>2, <1>3

\* Every step keeps what is kept the account's.
LEMMA StepKeeps ==
  ASSUME SessionTypeOK, KeptOwn, [SessionNext]_sessionVars
  PROVE  SessionTypeOK' /\ KeptOwn'
<1>1. CASE \E who \in Owners : onAuthStateChange(who)
  <2>. PICK who \in Owners : onAuthStateChange(who)
    BY <1>1
  <2>. QED
    BY BecomesKeeps DEF onAuthStateChange
<1>2. CASE LeavesGate \/ onAuthError
  <2>1. auth # "loading" /\ Becomes("out", Nobody)
    BY <1>2 DEF LeavesGate, onAuthError, signOut
  <2>2. Nobody \in Owners
    BY DEF Owners
  <2>3. QED
    BY <2>1, <2>2, BecomesKeeps
<1>3. CASE restoreClient
  <2>1. SessionTypeOK'
    BY <1>3 DEF restoreClient, SessionTypeOK, Owners
  <2>2. CopiesOwn'
    BY <1>3, SMT DEF restoreClient, KeptOwn, CopiesOwn, Own, SessionTypeOK, Copies
  <2>3. QED
    BY <1>3, <2>1, <2>2 DEF restoreClient, KeptOwn, Own
<1>4. CASE \E who \in Accounts : FetchMembers(who)
  <2>. PICK who \in Accounts : FetchMembers(who)
    BY <1>4
  <2>. QED
    BY DEF FetchMembers, SessionTypeOK, Owners, KeptOwn, CopiesOwn, Own
<1>5. CASE MembersLand
  BY <1>5 DEF MembersLand, SessionTypeOK, Owners, KeptOwn, CopiesOwn, Own
<1>6. CASE persistClient
  <2>1. SessionTypeOK'
    BY <1>6 DEF persistClient, SessionTypeOK, Copies
  <2>2. CopiesOwn'
    BY <1>6 DEF persistClient, KeptOwn, CopiesOwn, Own, SessionTypeOK
  <2>3. QED
    BY <1>6, <2>1, <2>2 DEF persistClient, KeptOwn, Own
<1>7. CASE \E copy \in throttled : setItem(copy)
  <2>. PICK copy \in throttled : setItem(copy)
    BY <1>7
  <2>1. SessionTypeOK'
    BY DEF setItem, SessionTypeOK, Copies
  <2>2. CopiesOwn'
    BY DEF setItem, KeptOwn, CopiesOwn, Own
  <2>3. QED
    BY <2>1, <2>2 DEF setItem, KeptOwn, CopiesOwn, Own
<1>8. CASE Reload
  BY <1>8 DEF Reload, SessionTypeOK, Owners, KeptOwn, CopiesOwn, Own
<1>9. CASE UNCHANGED sessionVars
  BY <1>9 DEF sessionVars, SessionTypeOK, KeptOwn, CopiesOwn, Own
<1>10. QED
  BY <1>1, <1>2, <1>3, <1>4, <1>5, <1>6, <1>7, <1>8, <1>9 DEF SessionNext

LEMMA KeptIsGone == SessionTypeOK /\ KeptOwn => SignedOutIsGone
  BY DEF KeptOwn, Own, SignedOutIsGone

LEMMA KeptAlways == SessionSpec => [](SessionTypeOK /\ KeptOwn)
<1>1. SessionTypeOK /\ KeptOwn /\ [SessionNext]_sessionVars => (SessionTypeOK /\ KeptOwn)'
  BY StepKeeps
<1>2. QED
  BY <1>1, InitKeeps, PTL DEF SessionSpec

\* Every variable of the session keeps its type (queryPersistence.ts, authStore.ts).
THEOREM SessionTyped == SessionSpec => []SessionTypeOK
  BY KeptAlways, PTL

\* No account's members outlive its session, in the memory or in the storage, for
\* any accounts and any order of sign-ins, clearings, late writes and reloads.
THEOREM SignedOut == SessionSpec => []SignedOutIsGone
  BY KeptAlways, KeptIsGone, PTL


---------------------------------------------------------------------------
\* The member page.

\* What a cache holds of the member, and what a call is.
CacheRecords == [row : MemberRows \union {NoRow}, invalid : BOOLEAN, failed : BOOLEAN]
RowsBefore == [Queries -> MemberRows \union {NoRow}]
CallRecords == [stage : {"none", "sent", "done", "refused", "over"}, kind : ChangeKinds,
                value : 0..1, before : RowsBefore \union {NoRow}]

PageTyped ==
  /\ PageTypeOK
  /\ calls \in [Calls -> CallRecords]
  /\ \A c \in waiting : calls[c].before \in RowsBefore
  /\ caches["detail"].row # NoRow
  /\ \A q \in Queries : fetches[q].stage = "read" => fetches[q].row \in MemberRows

\* A call that may have changed what is shown or stored, and marks the caches when it
\* ends: an optimistic one, one carried out, and a ban, which may fail halfway.
Marks(c) ==
  /\ c \in waiting
  /\ \/ calls[c].kind \in Optimistic
     \/ calls[c].stage = "done"
     \/ calls[c].kind = "ban" /\ calls[c].stage = "refused"
Moving(f) == \E c \in Calls : Marks(c) /\ fieldOf(calls[c].kind) = f

\* A field that no such call is out for is the bridge's, in every cache not marked and
\* in every fetch that has read it.
Settled ==
  \A f \in Fields \ doubtful, q \in Queries \ doubtful :
    ~Moving(f) =>
      /\ caches[q].row # NoRow /\ ~caches[q].invalid => caches[q].row[f] = bridgeRow[f]
      /\ fetches[q].stage = "read" => fetches[q].row[f] = bridgeRow[f]

\* A marked page that is open is being fetched, unless the fetch failed or an optimistic
\* call has cancelled it, which asks for another when it ends.
Reloading ==
  onPage = "user" /\ caches["detail"].invalid /\ ~caches["detail"].failed =>
    \/ fetches["detail"].stage # "no"
    \/ \E c \in waiting : calls[c].kind \in Optimistic

\* One optimistic call at a time for a field whose calls never overlapped, and what it
\* would put back is the bridge's.
Alone ==
  \A c, d \in waiting :
    calls[c].kind = calls[d].kind /\ calls[c].kind \in Optimistic \ doubtful => c = d
Backed ==
  \A c \in waiting, q \in Queries :
    calls[c].kind \in Optimistic \ doubtful /\ calls[c].before[q] # NoRow
      => calls[c].before[q][calls[c].kind] \in held[calls[c].kind]

\* The bridge had what it stores, what a fetch read and what a call was carried out with.
Had ==
  /\ \A f \in Fields : bridgeRow[f] \in held[f]
  /\ \A q \in Queries, f \in Fields :
       fetches[q].stage = "read" => fetches[q].row[f] \in held[f]
  /\ \A c \in Calls : calls[c].stage = "done" => calls[c].value \in held[fieldOf(calls[c].kind)]

\* What is shown the bridge had, or a call is out that can put back what it had.
Shown ==
  \A f \in Fields \ doubtful, q \in Queries :
    caches[q].row # NoRow /\ caches[q].row[f] \notin held[f] =>
      \E c \in waiting : calls[c].kind = f /\ f \in Optimistic /\ calls[c].before[q] # NoRow

PageInv ==
  PageTyped /\ Settled /\ Reloading /\ Alone /\ Backed /\ Had /\ Shown

LEMMA FieldFacts ==
  /\ Fields = {"expiry", "downloads", "tag"}
  /\ Optimistic \subseteq Fields
  /\ Fields \intersect Queries = {}
  /\ \A k \in ChangeKinds : fieldOf(k) \in Fields
  /\ \A k \in Optimistic : k \in ChangeKinds /\ fieldOf(k) = k
  /\ "tag" \in Fields \ Optimistic /\ fieldOf("ban") = "tag"
BY DEF Fields, ChangeKinds, fieldOf, Optimistic, Queries

\* One field of a row written, where there is a row.
WroteField(new, old, field, value) ==
  /\ new \in MemberRows \union {NoRow}
  /\ (new = NoRow) <=> (old = NoRow)
  /\ old # NoRow =>
       /\ new[field] = value
       /\ \A f \in Fields : f # field => new[f] = old[f]

LEMMA RowSet ==
  ASSUME NEW row \in MemberRows \union {NoRow}, NEW field \in Fields, NEW value \in 0..1
  PROVE  WroteField(Set(row, field, value), row, field, value)
<1>1. CASE row = NoRow
  BY <1>1 DEF Set, WroteField
<1>2. CASE row # NoRow
  <2>1. row \in MemberRows
    BY <1>2
  <2>2. /\ [row EXCEPT ![field] = value] \in MemberRows
        /\ [row EXCEPT ![field] = value][field] = value
        /\ \A f \in Fields : f # field => [row EXCEPT ![field] = value][f] = row[f]
    BY <2>1 DEF MemberRows
  <2>3. [row EXCEPT ![field] = value] # NoRow
    BY <2>2, PageAssumption
  <2>4. QED
    BY <1>2, <2>2, <2>3 DEF Set, WroteField
<1>3. QED
  BY <1>1, <1>2

\* Caches with one field written: to this value in each row there is, as a patch leaves
\* them, or in some rows to a value of that row's own, as a restore does.
Wrote(next, field) ==
  /\ next \in [Queries -> CacheRecords]
  /\ \A q \in Queries :
       /\ next[q].invalid = caches[q].invalid /\ next[q].failed = caches[q].failed
       /\ (next[q].row = NoRow) <=> (caches[q].row = NoRow)
       /\ caches[q].row # NoRow =>
            \A f \in Fields : f # field => next[q].row[f] = caches[q].row[f]

Patched(next, field, value) ==
  /\ Wrote(next, field)
  /\ \A q \in Queries : caches[q].row # NoRow => next[q].row[field] = value
Restored(next, field, before) ==
  /\ Wrote(next, field)
  /\ \A q \in Queries : caches[q].row # NoRow =>
       next[q].row[field] = IF before[q] = NoRow THEN caches[q].row[field] ELSE before[q][field]

LEMMA PatchWrites ==
  ASSUME PageTyped, NEW field \in Fields, NEW value \in 0..1
  PROVE  Patched(patchMember(field, value), field, value)
<1>. DEFINE next == patchMember(field, value)
<1>1. \A q \in Queries : caches[q] \in CacheRecords
  BY DEF PageTyped, PageTypeOK, CacheRecords
<1>2. \A q \in Queries : next[q] = [caches[q] EXCEPT !.row = Set(caches[q].row, field, value)]
  BY DEF patchMember
<1>3. DOMAIN next = Queries /\ next = [q \in Queries |-> next[q]]
  BY Zenon DEF patchMember
<1>. HIDE DEF next
<1>4. ASSUME NEW q \in Queries
      PROVE  /\ next[q] \in CacheRecords
             /\ next[q].invalid = caches[q].invalid /\ next[q].failed = caches[q].failed
             /\ next[q].row = Set(caches[q].row, field, value)
  <2>1. caches[q].row \in MemberRows \union {NoRow}
    BY <1>1 DEF CacheRecords
  <2>2. Set(caches[q].row, field, value) \in MemberRows \union {NoRow}
    BY <2>1, RowSet DEF WroteField
  <2>3. QED
    BY <1>1, <1>2, <2>2 DEF CacheRecords
<1>5. next \in [Queries -> CacheRecords]
  BY <1>3, <1>4
<1>6. ASSUME NEW q \in Queries
      PROVE  /\ (next[q].row = NoRow) <=> (caches[q].row = NoRow)
             /\ caches[q].row # NoRow =>
                  /\ next[q].row[field] = value
                  /\ \A f \in Fields : f # field => next[q].row[f] = caches[q].row[f]
  <2>1. caches[q].row \in MemberRows \union {NoRow}
    BY <1>1 DEF CacheRecords
  <2>. DEFINE put == Set(caches[q].row, field, value)
  <2>2. WroteField(put, caches[q].row, field, value)
    BY <2>1, RowSet
  <2>3. next[q].row = put
    BY <1>4
  <2>. HIDE DEF put
  <2>4. QED
    BY <2>2, <2>3 DEF WroteField
<1>7. Wrote(next, field)
  BY <1>4, <1>5, <1>6 DEF Wrote
<1>8. QED
  BY <1>6, <1>7 DEF next, Patched

LEMMA RestoreWrites ==
  ASSUME PageTyped, NEW field \in Fields, NEW before \in RowsBefore
  PROVE  Restored(restoreMember(field, before), field, before)
<1>. DEFINE next == restoreMember(field, before)
<1>1. \A q \in Queries : caches[q] \in CacheRecords
  BY DEF PageTyped, PageTypeOK, CacheRecords
<1>2. \A q \in Queries :
        next[q] = IF before[q] = NoRow THEN caches[q]
                  ELSE [caches[q] EXCEPT !.row = Set(caches[q].row, field, before[q][field])]
  BY DEF restoreMember
<1>3. DOMAIN next = Queries /\ next = [q \in Queries |-> next[q]]
  BY Zenon DEF restoreMember
<1>. HIDE DEF next
<1>4. ASSUME NEW q \in Queries, before[q] # NoRow
      PROVE  before[q][field] \in 0..1
  BY <1>4 DEF RowsBefore, MemberRows
<1>5. ASSUME NEW q \in Queries
      PROVE  /\ next[q] \in CacheRecords
             /\ next[q].invalid = caches[q].invalid /\ next[q].failed = caches[q].failed
             /\ next[q].row = IF before[q] = NoRow THEN caches[q].row
                              ELSE Set(caches[q].row, field, before[q][field])
  <2>1. caches[q].row \in MemberRows \union {NoRow}
    BY <1>1 DEF CacheRecords
  <2>2. before[q] # NoRow =>
          Set(caches[q].row, field, before[q][field]) \in MemberRows \union {NoRow}
    BY <1>4, <2>1, RowSet DEF WroteField
  <2>3. QED
    BY <1>1, <1>2, <2>2 DEF CacheRecords
<1>6. next \in [Queries -> CacheRecords]
  BY <1>3, <1>5
<1>7. ASSUME NEW q \in Queries
      PROVE  /\ (next[q].row = NoRow) <=> (caches[q].row = NoRow)
             /\ caches[q].row # NoRow =>
                  /\ next[q].row[field]
                       = IF before[q] = NoRow THEN caches[q].row[field] ELSE before[q][field]
                  /\ \A f \in Fields : f # field => next[q].row[f] = caches[q].row[f]
  <2>1. caches[q].row \in MemberRows \union {NoRow}
    BY <1>1 DEF CacheRecords
  <2>2. CASE before[q] = NoRow
    BY <1>5, <2>2
  <2>3. CASE before[q] # NoRow
    <3>. DEFINE put == Set(caches[q].row, field, before[q][field])
    <3>1. before[q][field] \in 0..1
      BY <1>4, <2>3
    <3>2. WroteField(put, caches[q].row, field, before[q][field])
      BY <2>1, <3>1, RowSet
    <3>3. next[q].row = put
      BY <1>5, <2>3
    <3>. HIDE DEF put
    <3>4. QED
      BY <2>3, <3>2, <3>3 DEF WroteField
  <2>4. QED
    BY <2>2, <2>3
<1>8. Wrote(next, field)
  BY <1>5, <1>6, <1>7 DEF Wrote
<1>9. QED
  BY <1>7, <1>8 DEF next, Restored

\* What marking both queries does to them, whatever their rows became.
Marked(next) ==
  /\ caches' \in [Queries -> CacheRecords]
  /\ \A q \in Queries :
       /\ caches'[q].row = next[q].row /\ caches'[q].invalid
       /\ caches'[q].failed = next[q].failed
       /\ fetches'[q] = IF q \in Refetched THEN [stage |-> "asked", row |-> NoRow]
                        ELSE fetches[q]
       /\ q \notin doubtful' => q \in Refetched \/ fetches[q].stage = "no"
  /\ \A f \in Fields : f \in doubtful' <=> f \in doubtful
  /\ onPage = "user" => fetches'["detail"].stage = "asked"
  /\ fetches' \in [Queries -> [stage : {"no", "asked", "read"}, row : MemberRows \union {NoRow}]]
  /\ doubtful' \subseteq Fields \union Queries

LEMMA Invalidates ==
  ASSUME PageTyped, NEW next \in [Queries -> CacheRecords], invalidateMember(next)
  PROVE  Marked(next)
<1>1. /\ caches' = [q \in Queries |-> [next[q] EXCEPT !.invalid = TRUE]]
      /\ fetches' = [q \in Queries |->
           IF q \in Refetched THEN [stage |-> "asked", row |-> NoRow] ELSE fetches[q]]
      /\ doubtful' = (doubtful \ Refetched) \union
                     {q \in Queries \ Refetched : fetches[q].stage # "no"}
  BY DEF invalidateMember
<1>2. Refetched \subseteq Queries /\ (onPage = "user" => "detail" \in Refetched)
  BY DEF Refetched, Queries
<1>3. \A q \in Queries :
        /\ [next[q] EXCEPT !.invalid = TRUE] \in CacheRecords
        /\ [next[q] EXCEPT !.invalid = TRUE].row = next[q].row
        /\ [next[q] EXCEPT !.invalid = TRUE].failed = next[q].failed
        /\ [next[q] EXCEPT !.invalid = TRUE].invalid = TRUE
  BY DEF CacheRecords
<1>4. /\ caches' \in [Queries -> CacheRecords]
      /\ \A q \in Queries :
           /\ caches'[q].row = next[q].row /\ caches'[q].invalid
           /\ caches'[q].failed = next[q].failed
  BY <1>1, <1>3
<1>5. \A q \in Queries : fetches[q] \in [stage : {"no", "asked", "read"},
                                        row : MemberRows \union {NoRow}]
  BY DEF PageTyped, PageTypeOK
<1>6. fetches' \in [Queries -> [stage : {"no", "asked", "read"},
                                row : MemberRows \union {NoRow}]]
  BY <1>1, <1>5
<1>7. \A q \in Queries :
        /\ fetches'[q] = IF q \in Refetched THEN [stage |-> "asked", row |-> NoRow]
                         ELSE fetches[q]
        /\ q \notin doubtful' => q \in Refetched \/ fetches[q].stage = "no"
  BY <1>1
<1>8. onPage = "user" => fetches'["detail"].stage = "asked"
  BY <1>2, <1>7
<1>9. \A f \in Fields : f \in doubtful' <=> f \in doubtful
  BY <1>1, <1>2, FieldFacts
<1>10. doubtful' \subseteq Fields \union Queries
  BY <1>1 DEF PageTyped, PageTypeOK
<1>11. QED
  BY <1>4, <1>6, <1>7, <1>8, <1>9, <1>10 DEF Marked

LEMMA PageInitKeeps == PageInit => PageInv
<1>. SUFFICES ASSUME PageInit PROVE PageInv
  OBVIOUS
<1>1. bridgeRow \in MemberRows /\ \A f \in Fields : bridgeRow[f] = 0
  BY DEF PageInit, MemberRows
<1>2. PICK listed \in {bridgeRow, NoRow} :
        caches = [q \in Queries |-> [row |-> IF q = "list" THEN listed ELSE bridgeRow,
                                     invalid |-> FALSE, failed |-> FALSE]]
  BY Zenon DEF PageInit
<1>3. /\ caches \in [Queries -> CacheRecords]
      /\ \A q \in Queries : /\ ~caches[q].invalid /\ ~caches[q].failed
                            /\ caches[q].row \in {bridgeRow, NoRow}
      /\ caches["detail"].row = bridgeRow
  BY <1>1, <1>2 DEF CacheRecords, Queries
<1>4. /\ \A q \in Queries : fetches[q].stage = "no" /\ fetches[q].row = NoRow
      /\ fetches \in [Queries -> [stage : {"no", "asked", "read"},
                                  row : MemberRows \union {NoRow}]]
  BY DEF PageInit, NoFetch
<1>5. calls \in [Calls -> CallRecords] /\ \A c \in Calls : calls[c].stage = "none"
  BY DEF PageInit, NoCall, CallRecords, ChangeKinds
<1>6. waiting = {}
  BY <1>5 DEF waiting
<1>7. PageTypeOK
  BY <1>1, <1>3, <1>4, <1>5, PageAssumption DEF PageInit, PageTypeOK, CacheRecords
<1>8. PageTyped
  BY <1>1, <1>3, <1>4, <1>5, <1>6, <1>7, PageAssumption DEF PageTyped
<1>9. Settled /\ Reloading /\ Alone /\ Backed
  BY <1>3, <1>4, <1>6 DEF Settled, Reloading, Alone, Backed, Queries
<1>10. held = [f \in Fields |-> {0}]
  BY DEF PageInit
<1>11. Had /\ Shown
  BY <1>1, <1>3, <1>4, <1>5, <1>10 DEF Had, Shown
<1>12. QED
  BY <1>8, <1>9, <1>11 DEF PageInv

\* A call sent. An optimistic one cancels what is out and writes its value over rows
\* that the bridge had, since no other is out for its field unless that field is in doubt.
LEMMA MutateKeeps ==
  ASSUME PageInv, NEW kind \in ChangeKinds, NEW value \in 0..1, Mutate(kind, value)
  PROVE  PageInv'
<1>. DEFINE field == fieldOf(kind)
            before == [q \in Queries |-> caches[q].row]
            sent == [stage |-> "sent", kind |-> kind, value |-> value, before |-> before]
<1>1. PICK c \in Calls : calls[c].stage = "none" /\ calls' = [calls EXCEPT ![c] = sent]
  BY Zenon DEF Mutate
<1>2. /\ PageTyped /\ calls \in [Calls -> CallRecords]
      /\ \A q \in Queries : caches[q].row \in MemberRows \union {NoRow}
  BY DEF PageInv, PageTyped, PageTypeOK
<1>3. before \in RowsBefore /\ \A q \in Queries : before[q] = caches[q].row
  BY <1>2 DEF RowsBefore
<1>. HIDE DEF before
<1>4. sent \in CallRecords
  BY <1>3 DEF CallRecords
<1>5. /\ calls' \in [Calls -> CallRecords] /\ calls'[c] = sent
      /\ \A d \in Calls : d # c => calls'[d] = calls[d]
  BY <1>1, <1>2, <1>4
<1>6. /\ calls'[c].stage = "sent" /\ calls'[c].kind = kind /\ calls'[c].before = before
  BY <1>5
<1>. HIDE DEF sent
<1>7. waiting' = waiting \union {c} /\ c \notin waiting
  BY <1>1, <1>5, <1>6 DEF waiting
<1>8. field \in Fields /\ (kind \in Optimistic => field = kind)
  BY FieldFacts
<1>9. UNCHANGED <<bridgeRow, onPage, losses, held>>
  BY DEF Mutate
<1>10. /\ caches' \in [Queries -> CacheRecords]
       /\ \A q \in Queries :
            /\ caches'[q].invalid = caches[q].invalid /\ caches'[q].failed = caches[q].failed
            /\ (caches'[q].row = NoRow) <=> (caches[q].row = NoRow)
            /\ \A f \in Fields :
                 caches[q].row # NoRow /\ (kind \notin Optimistic \/ f # kind)
                   => caches'[q].row[f] = caches[q].row[f]
  <2>1. CASE kind \in Optimistic
    <3>1. caches' = patchMember(field, value)
      BY <2>1 DEF Mutate
    <3>2. Wrote(caches', field)
      BY <1>2, <1>8, <3>1, PatchWrites DEF Patched
    <3>3. QED
      BY <1>8, <2>1, <3>2 DEF Wrote
  <2>2. CASE kind \notin Optimistic
    <3>1. caches' = caches
      BY <2>2 DEF Mutate
    <3>2. caches \in [Queries -> CacheRecords]
      BY <1>2 DEF PageTyped, PageTypeOK, CacheRecords
    <3>3. QED
      BY <2>2, <3>1, <3>2
  <2>3. QED
    BY <2>1, <2>2
<1>11. /\ fetches' \in [Queries -> [stage : {"no", "asked", "read"},
                                    row : MemberRows \union {NoRow}]]
       /\ \A q \in Queries : fetches'[q] = fetches[q] \/ fetches'[q].stage = "no"
       /\ kind \notin Optimistic => fetches' = fetches
  <2>1. NoFetch \in [stage : {"no", "asked", "read"}, row : MemberRows \union {NoRow}]
        /\ NoFetch.stage = "no"
    BY DEF NoFetch
  <2>2. fetches \in [Queries -> [stage : {"no", "asked", "read"},
                                 row : MemberRows \union {NoRow}]]
    BY <1>2 DEF PageTyped, PageTypeOK
  <2>3. kind \notin Optimistic => fetches' = fetches
    BY DEF Mutate
  <2>. HIDE DEF NoFetch
  <2>4. kind \in Optimistic => fetches' = [q \in Queries |-> NoFetch]
    BY DEF Mutate
  <2>5. QED
    BY <2>1, <2>2, <2>3, <2>4
<1>12. /\ doubtful \subseteq doubtful' /\ doubtful' \subseteq doubtful \union {field}
       /\ kind \in Optimistic /\ kind \notin doubtful' => \A d \in waiting : calls[d].kind # kind
  <2>1. doubtful' = IF kind = "downloads" /\ waitingOf(kind) # {} THEN doubtful \union {field}
                    ELSE doubtful
    BY Zenon DEF Mutate
  <2>2. kind # "downloads" => waitingOf(kind) = {}
    BY DEF Mutate, Offered
  <2>3. QED
    BY <1>8, <2>1, <2>2 DEF waitingOf
<1>13. PageTyped'
  <2>1. PageTypeOK'
    BY <1>2, <1>5, <1>8, <1>9, <1>10, <1>11, <1>12 DEF PageTyped, PageTypeOK, CacheRecords
  <2>2. \A d \in waiting' : calls'[d].before \in RowsBefore
    BY <1>2, <1>3, <1>5, <1>6, <1>7 DEF PageTyped, waiting
  <2>3. \A q \in Queries : fetches'[q].stage = "read" => fetches'[q].row \in MemberRows
    BY <1>2, <1>11 DEF PageTyped
  <2>4. caches'["detail"].row # NoRow
    BY <1>2, <1>10 DEF PageTyped, Queries
  <2>5. QED
    BY <1>5, <2>1, <2>2, <2>3, <2>4 DEF PageTyped
<1>14. \A d \in Calls : Marks(d) => Marks(d)' /\ calls'[d].kind = calls[d].kind
  BY <1>5, <1>7 DEF Marks
<1>15. kind \in Optimistic => Marks(c)' /\ fieldOf(calls'[c].kind) = kind
  BY <1>6, <1>7, <1>8 DEF Marks
<1>16. \A f \in Fields : Moving(f) => Moving(f)'
  BY <1>14 DEF Moving
<1>17. Settled'
  <2>. SUFFICES ASSUME NEW f \in Fields \ doubtful', NEW q \in Queries \ doubtful', ~Moving(f)'
                PROVE  /\ caches'[q].row # NoRow /\ ~caches'[q].invalid
                            => caches'[q].row[f] = bridgeRow'[f]
                       /\ fetches'[q].stage = "read" => fetches'[q].row[f] = bridgeRow'[f]
    BY DEF Settled
  <2>1. kind \notin Optimistic \/ f # kind
    BY <1>15 DEF Moving
  <2>2. ~Moving(f) /\ f \in Fields \ doubtful /\ q \in Queries \ doubtful
    BY <1>12, <1>16
  <2>3. /\ caches[q].row # NoRow /\ ~caches[q].invalid => caches[q].row[f] = bridgeRow[f]
        /\ fetches[q].stage = "read" => fetches[q].row[f] = bridgeRow[f]
    BY <2>2 DEF PageInv, Settled
  <2>4. QED
    BY <1>9, <1>10, <1>11, <2>1, <2>3
<1>18. Reloading'
  <2>1. "detail" \in Queries
    BY DEF Queries
  <2>2. CASE kind \in Optimistic
    BY <1>6, <1>7, <2>2 DEF Reloading
  <2>3. CASE kind \notin Optimistic
    <3>1. Reloading /\ fetches' = fetches /\ onPage' = onPage
      BY <1>9, <1>11, <2>3 DEF PageInv
    <3>2. \A d \in waiting : d \in waiting' /\ calls'[d] = calls[d]
      BY <1>5, <1>7 DEF waiting
    <3>3. QED
      BY <1>10, <2>1, <3>1, <3>2 DEF Reloading
  <2>4. QED
    BY <2>2, <2>3
<1>19. \A d \in waiting : d \in Calls /\ d # c /\ calls'[d] = calls[d]
  BY <1>5, <1>7 DEF waiting
<1>20. Alone'
  BY <1>6, <1>7, <1>12, <1>19 DEF PageInv, Alone
<1>21. Backed'
  <2>. SUFFICES ASSUME NEW d \in waiting', NEW q \in Queries,
                       calls'[d].kind \in Optimistic \ doubtful', calls'[d].before[q] # NoRow
                PROVE  calls'[d].before[q][calls'[d].kind] \in held[calls'[d].kind]
    BY <1>9 DEF Backed
  <2>1. CASE d = c
    <3>1. kind \in Optimistic \ doubtful' /\ caches[q].row # NoRow
      BY <1>3, <1>6, <2>1
    <3>2. kind \in Fields \ doubtful /\ \A e \in waiting : calls[e].kind # kind
      BY <1>8, <1>12, <3>1
    <3>3. caches[q].row[kind] \in held[kind]
      BY <3>1, <3>2 DEF PageInv, Shown
    <3>4. QED
      BY <1>3, <1>6, <2>1, <3>3
  <2>2. CASE d \in waiting
    BY <1>12, <1>19, <2>2 DEF PageInv, Backed
  <2>3. QED
    BY <1>7, <2>1, <2>2
<1>22. Had'
  BY <1>5, <1>6, <1>9, <1>11 DEF PageInv, Had
<1>23. Shown'
  <2>. SUFFICES ASSUME NEW f \in Fields \ doubtful', NEW q \in Queries,
                       caches'[q].row # NoRow, caches'[q].row[f] \notin held[f]
                PROVE  \E d \in waiting' : /\ calls'[d].kind = f /\ f \in Optimistic
                                           /\ calls'[d].before[q] # NoRow
    BY <1>9 DEF Shown
  <2>1. caches[q].row # NoRow
    BY <1>10
  <2>2. CASE kind \in Optimistic /\ f = kind
    BY <1>3, <1>6, <1>7, <2>1, <2>2
  <2>3. CASE kind \notin Optimistic \/ f # kind
    <3>1. caches[q].row[f] \notin held[f] /\ f \in Fields \ doubtful
      BY <1>10, <1>12, <2>1, <2>3
    <3>2. PICK d \in waiting : /\ calls[d].kind = f /\ f \in Optimistic
                               /\ calls[d].before[q] # NoRow
      BY <2>1, <3>1 DEF PageInv, Shown
    <3>3. QED
      BY <1>7, <1>19, <3>2
  <2>4. QED
    BY <2>2, <2>3
<1>24. QED
  BY <1>13, <1>17, <1>18, <1>20, <1>21, <1>22, <1>23 DEF PageInv

\* A call carried out or failed: what it changes at the bridge it will mark when it
\* ends, or its field is in doubt.
Wrought(c, stage) ==
  LET field == fieldOf(calls[c].kind) IN
  /\ calls' = [calls EXCEPT ![c].stage = stage]
  /\ losses' \in 0..MaxLosses
  /\ \/ /\ bridgeRow' = [bridgeRow EXCEPT ![field] = calls[c].value]
        /\ held' = [held EXCEPT ![field] = @ \union {calls[c].value}]
        /\ doubtful' = IF stage = "refused" THEN doubtful \union ({field} \ Optimistic) ELSE doubtful
     \/ stage = "refused" /\ UNCHANGED <<bridgeRow, held, doubtful>>

LEMMA ApplyWrites ==
  ASSUME PageTyped, NEW c \in Calls, Apply(c)
  PROVE  \E stage \in {"done", "refused"} : Wrought(c, stage)
<1>. DEFINE field == fieldOf(calls[c].kind)
            write == /\ bridgeRow' = [bridgeRow EXCEPT ![field] = calls[c].value]
                     /\ held' = [held EXCEPT ![field] = @ \union {calls[c].value}]
<1>1. losses \in 0..MaxLosses /\ MaxLosses \in Nat
  BY PageAssumption DEF PageTyped, PageTypeOK
<1>2. \/ /\ write /\ calls' = [calls EXCEPT ![c].stage = "done"]
         /\ UNCHANGED <<losses, doubtful>>
      \/ /\ losses < MaxLosses /\ losses' = losses + 1
         /\ calls' = [calls EXCEPT ![c].stage = "refused"]
         /\ \/ UNCHANGED <<bridgeRow, held, doubtful>>
            \/ write /\ doubtful' = doubtful \union ({field} \ Optimistic)
  BY Zenon DEF Apply
<1>3. losses' \in 0..MaxLosses
  BY <1>1, <1>2
<1>4. CASE /\ write /\ calls' = [calls EXCEPT ![c].stage = "done"]
           /\ UNCHANGED <<losses, doubtful>>
  <2>1. Wrought(c, "done")
    BY <1>3, <1>4, Zenon DEF Wrought
  <2>2. QED
    BY <2>1
<1>5. CASE /\ losses < MaxLosses /\ losses' = losses + 1
           /\ calls' = [calls EXCEPT ![c].stage = "refused"]
           /\ \/ UNCHANGED <<bridgeRow, held, doubtful>>
              \/ write /\ doubtful' = doubtful \union ({field} \ Optimistic)
  <2>1. Wrought(c, "refused")
    BY <1>3, <1>5, Zenon DEF Wrought
  <2>2. QED
    BY <2>1
<1>6. QED
  BY <1>2, <1>4, <1>5

LEMMA ApplyKeeps ==
  ASSUME PageInv, NEW c \in Calls, Apply(c)
  PROVE  PageInv'
<1>. DEFINE field == fieldOf(calls[c].kind)
<1>1. /\ PageTyped /\ calls \in [Calls -> CallRecords] /\ calls[c].stage = "sent"
      /\ onPage' = onPage /\ caches' = caches /\ fetches' = fetches
  BY DEF PageInv, PageTyped, Apply
<1>2. /\ calls[c] \in CallRecords /\ field \in Fields /\ calls[c].value \in 0..1
      /\ calls[c].kind \in ChangeKinds
  BY <1>1, FieldFacts DEF CallRecords
<1>3. PICK stage \in {"done", "refused"} : Wrought(c, stage)
  BY <1>1, ApplyWrites
<1>4. /\ calls' \in [Calls -> CallRecords] /\ calls'[c].stage = stage
      /\ \A d \in Calls : /\ calls'[d].kind = calls[d].kind /\ calls'[d].value = calls[d].value
                          /\ calls'[d].before = calls[d].before
                          /\ d # c => calls'[d] = calls[d]
  <2>1. /\ [calls[c] EXCEPT !.stage = stage] \in CallRecords
        /\ [calls[c] EXCEPT !.stage = stage].stage = stage
        /\ [calls[c] EXCEPT !.stage = stage].kind = calls[c].kind
        /\ [calls[c] EXCEPT !.stage = stage].value = calls[c].value
        /\ [calls[c] EXCEPT !.stage = stage].before = calls[c].before
    BY <1>2 DEF CallRecords
  <2>2. /\ calls'[c] = [calls[c] EXCEPT !.stage = stage]
        /\ \A d \in Calls : d # c => calls'[d] = calls[d]
        /\ DOMAIN calls' = Calls /\ calls' = [d \in Calls |-> calls'[d]]
    BY <1>1, <1>3 DEF Wrought
  <2>3. \A d \in Calls : calls'[d] \in CallRecords
    BY <1>1, <2>1, <2>2
  <2>4. QED
    BY <2>1, <2>2, <2>3
<1>5. waiting' = waiting /\ c \in waiting
  BY <1>1, <1>4 DEF waiting
<1>6. /\ bridgeRow \in MemberRows /\ held \in [Fields -> SUBSET (0..1)]
      /\ doubtful \subseteq Fields \union Queries
  BY <1>1 DEF PageTyped, PageTypeOK
<1>7. /\ losses' \in 0..MaxLosses /\ bridgeRow' \in MemberRows
      /\ held' \in [Fields -> SUBSET (0..1)]
      /\ \A f \in Fields : held[f] \subseteq held'[f] /\ (f # field => bridgeRow'[f] = bridgeRow[f])
      /\ bridgeRow'[field] \in {bridgeRow[field], calls[c].value}
      /\ stage = "done" \/ bridgeRow'[field] # bridgeRow[field] => calls[c].value \in held'[field]
  BY <1>2, <1>3, <1>6 DEF Wrought, MemberRows
<1>8. /\ doubtful \subseteq doubtful' /\ doubtful' \subseteq doubtful \union {field}
      /\ bridgeRow'[field] # bridgeRow[field] /\ stage = "refused" /\ field \notin Optimistic
           => field \in doubtful'
  BY <1>3 DEF Wrought
<1>9. PageTyped'
  <2>1. PageTypeOK'
    BY <1>1, <1>2, <1>4, <1>6, <1>7, <1>8 DEF PageTyped, PageTypeOK
  <2>2. QED
    BY <1>1, <1>4, <1>5, <2>1 DEF PageTyped, waiting
<1>10. \A d \in Calls : Marks(d) => Marks(d)'
  BY <1>1, <1>4, <1>5 DEF Marks
<1>11. \A f \in Fields : Moving(f) => Moving(f)'
  BY <1>4, <1>10 DEF Moving
<1>12. field \in Optimistic => calls[c].kind \in Optimistic
  BY <1>2, FieldFacts DEF fieldOf
<1>13. \A f \in Fields \ doubtful' : ~Moving(f)' => bridgeRow'[f] = bridgeRow[f]
  <2>. SUFFICES ASSUME NEW f \in Fields \ doubtful', bridgeRow'[f] # bridgeRow[f]
                PROVE  Moving(f)'
    OBVIOUS
  <2>1. f = field
    BY <1>7
  <2>2. stage = "done" \/ calls[c].kind \in Optimistic
    BY <1>8, <1>12, <2>1
  <2>3. Marks(c)' /\ fieldOf(calls'[c].kind) = f
    BY <1>4, <1>5, <2>1, <2>2 DEF Marks
  <2>4. QED
    BY <2>3 DEF Moving
<1>14. Settled'
  <2>. SUFFICES ASSUME NEW f \in Fields \ doubtful', NEW q \in Queries \ doubtful', ~Moving(f)'
                PROVE  /\ caches[q].row # NoRow /\ ~caches[q].invalid
                            => caches[q].row[f] = bridgeRow'[f]
                       /\ fetches[q].stage = "read" => fetches[q].row[f] = bridgeRow'[f]
    BY <1>1 DEF Settled
  <2>1. ~Moving(f) /\ f \in Fields \ doubtful /\ q \in Queries \ doubtful
    BY <1>8, <1>11
  <2>2. bridgeRow'[f] = bridgeRow[f]
    BY <1>13
  <2>3. QED
    BY <2>1, <2>2 DEF PageInv, Settled
<1>15. Reloading'
  <2>1. \A d \in waiting : calls'[d].kind = calls[d].kind
    BY <1>4 DEF waiting
  <2>2. QED
    BY <1>1, <1>5, <2>1 DEF PageInv, Reloading
<1>16. Alone'
  BY <1>4, <1>5, <1>8 DEF PageInv, Alone, waiting
<1>17. Backed'
  <2>. SUFFICES ASSUME NEW d \in waiting, NEW q \in Queries,
                       calls[d].kind \in Optimistic \ doubtful', calls[d].before[q] # NoRow
                PROVE  calls[d].before[q][calls[d].kind] \in held'[calls[d].kind]
    BY <1>4, <1>5 DEF Backed, waiting
  <2>1. calls[d].before[q][calls[d].kind] \in held[calls[d].kind]
    BY <1>8 DEF PageInv, Backed
  <2>2. QED
    BY <1>7, <2>1, FieldFacts
<1>18. Had'
  <2>1. \A f \in Fields : bridgeRow'[f] \in held'[f]
    BY <1>7 DEF PageInv, Had
  <2>2. \A q \in Queries, f \in Fields :
          fetches[q].stage = "read" => fetches[q].row[f] \in held'[f]
    BY <1>7 DEF PageInv, Had
  <2>3. ASSUME NEW d \in Calls, calls'[d].stage = "done"
        PROVE  calls'[d].value \in held'[fieldOf(calls'[d].kind)]
    <3>1. fieldOf(calls[d].kind) \in Fields
      BY <1>1, FieldFacts DEF CallRecords
    <3>2. CASE d = c
      BY <1>4, <1>7, <2>3, <3>2
    <3>3. CASE d # c
      BY <1>4, <1>7, <2>3, <3>1, <3>3 DEF PageInv, Had
    <3>4. QED
      BY <3>2, <3>3
  <2>4. QED
    BY <1>1, <2>1, <2>2, <2>3 DEF Had
<1>19. Shown'
  <2>. SUFFICES ASSUME NEW f \in Fields \ doubtful', NEW q \in Queries,
                       caches[q].row # NoRow, caches[q].row[f] \notin held'[f]
                PROVE  \E d \in waiting' : /\ calls'[d].kind = f /\ f \in Optimistic
                                           /\ calls'[d].before[q] # NoRow
    BY <1>1 DEF Shown
  <2>1. PICK d \in waiting : /\ calls[d].kind = f /\ f \in Optimistic
                             /\ calls[d].before[q] # NoRow
    BY <1>7, <1>8 DEF PageInv, Shown
  <2>2. QED
    BY <1>4, <1>5, <2>1 DEF waiting
<1>20. QED
  BY <1>9, <1>14, <1>15, <1>16, <1>17, <1>18, <1>19 DEF PageInv

\* A call that ends and marks the caches: whatever is not its own it leaves as it was,
\* and what is shown then must not have been backed by it alone.
LEMMA EndKeeps ==
  ASSUME PageInv, NEW c \in waiting, Finish(c),
         NEW next, Wrote(next, fieldOf(calls[c].kind)), Marked(next),
         UNCHANGED <<bridgeRow, onPage, losses, held>>,
         \A f \in Fields \ doubtful, q \in Queries :
           next[q].row # NoRow /\ next[q].row[f] \notin held[f] =>
             \E d \in waiting \ {c} : /\ calls[d].kind = f /\ f \in Optimistic
                                      /\ calls[d].before[q] # NoRow
  PROVE  PageInv'
<1>1. /\ PageTyped /\ calls \in [Calls -> CallRecords] /\ c \in Calls
      /\ bridgeRow' = bridgeRow /\ onPage' = onPage /\ losses' = losses /\ held' = held
  BY DEF PageInv, PageTyped, waiting
<1>2. /\ calls' \in [Calls -> CallRecords] /\ calls'[c].stage = "over"
      /\ \A d \in Calls : d # c => calls'[d] = calls[d]
  <2>1. /\ [NoCall EXCEPT !.stage = "over"] \in CallRecords
        /\ [NoCall EXCEPT !.stage = "over"].stage = "over"
    BY DEF NoCall, CallRecords, ChangeKinds
  <2>2. calls' = [calls EXCEPT ![c] = [NoCall EXCEPT !.stage = "over"]]
    BY DEF Finish
  <2>. HIDE DEF NoCall
  <2>3. QED
    BY <1>1, <2>1, <2>2
<1>3. /\ waiting' = waiting \ {c}
      /\ \A d \in waiting \ {c} : d \in Calls /\ calls'[d] = calls[d]
  BY <1>1, <1>2 DEF waiting
<1>4. /\ caches' \in [Queries -> CacheRecords]
      /\ \A q \in Queries : /\ caches'[q].row = next[q].row /\ caches'[q].invalid
                            /\ (next[q].row = NoRow) <=> (caches[q].row = NoRow)
  BY DEF Wrote, Marked
<1>5. /\ fetches' \in [Queries -> [stage : {"no", "asked", "read"},
                                   row : MemberRows \union {NoRow}]]
      /\ \A q \in Queries : fetches'[q].stage = "read" => fetches'[q] = fetches[q]
      /\ \A q \in Queries \ doubtful' : fetches'[q].stage # "read"
      /\ onPage = "user" => fetches'["detail"].stage = "asked"
  BY DEF Marked
<1>6. \A f \in Fields : f \in doubtful' <=> f \in doubtful
  BY DEF Marked
<1>7. PageTyped'
  <2>1. PageTypeOK'
    BY <1>1, <1>2, <1>4, <1>5 DEF PageTyped, PageTypeOK, CacheRecords, Marked
  <2>2. \A q \in Queries : fetches'[q].stage = "read" => fetches'[q].row \in MemberRows
    BY <1>1, <1>5 DEF PageTyped
  <2>3. caches'["detail"].row # NoRow
    BY <1>1, <1>4 DEF PageTyped, Queries
  <2>4. \A d \in waiting' : calls'[d].before \in RowsBefore
    BY <1>1, <1>3 DEF PageTyped
  <2>5. QED
    BY <1>2, <2>1, <2>2, <2>3, <2>4 DEF PageTyped
<1>8. Settled'
  BY <1>4, <1>5 DEF Settled
<1>9. Reloading'
  BY <1>1, <1>5 DEF Reloading
<1>10. Optimistic \subseteq Fields
  BY FieldFacts
<1>11. Alone' /\ Backed'
  BY <1>1, <1>3, <1>6, <1>10 DEF PageInv, Alone, Backed
<1>12. Had'
  <2>1. \A q \in Queries, f \in Fields :
          fetches'[q].stage = "read" => fetches'[q].row[f] \in held[f]
    BY <1>5 DEF PageInv, Had
  <2>2. \A d \in Calls : calls'[d].stage = "done" =>
          calls'[d].value \in held[fieldOf(calls'[d].kind)]
    BY <1>2 DEF PageInv, Had
  <2>3. QED
    BY <1>1, <2>1, <2>2 DEF PageInv, Had
<1>13. Shown'
  <2>. SUFFICES ASSUME NEW f \in Fields \ doubtful', NEW q \in Queries,
                       caches'[q].row # NoRow, caches'[q].row[f] \notin held[f]
                PROVE  \E d \in waiting' : /\ calls'[d].kind = f /\ f \in Optimistic
                                           /\ calls'[d].before[q] # NoRow
    BY <1>1 DEF Shown
  <2>1. PICK d \in waiting \ {c} : /\ calls[d].kind = f /\ f \in Optimistic
                                   /\ calls[d].before[q] # NoRow
    BY <1>4, <1>6
  <2>2. QED
    BY <1>3, <2>1
<1>14. QED
  BY <1>7, <1>8, <1>9, <1>11, <1>12, <1>13 DEF PageInv

\* The value confirmed is one the bridge had.
LEMMA ConfirmedKeeps ==
  ASSUME PageInv, NEW c \in Calls, Confirmed(c)
  PROVE  PageInv'
<1>. DEFINE field == fieldOf(calls[c].kind)
            next == patchMember(field, calls[c].value)
<1>1. /\ PageTyped /\ c \in waiting /\ Finish(c) /\ invalidateMember(next)
      /\ UNCHANGED <<bridgeRow, onPage, losses, held>> /\ calls[c].stage = "done"
  BY DEF PageInv, Confirmed, waiting
<1>2. field \in Fields /\ calls[c].value \in 0..1 /\ calls[c].kind \in ChangeKinds
  BY <1>1, FieldFacts DEF PageTyped, CallRecords
<1>3. Patched(next, field, calls[c].value)
  BY <1>1, <1>2, PatchWrites
<1>. HIDE DEF next
<1>4. Wrote(next, field) /\ next \in [Queries -> CacheRecords]
  BY <1>3 DEF Patched, Wrote
<1>5. Marked(next)
  BY <1>1, <1>4, Invalidates
<1>6. ASSUME NEW f \in Fields \ doubtful, NEW q \in Queries,
             next[q].row # NoRow, next[q].row[f] \notin held[f]
      PROVE  \E d \in waiting \ {c} : /\ calls[d].kind = f /\ f \in Optimistic
                                      /\ calls[d].before[q] # NoRow
  <2>1. caches[q].row # NoRow
    BY <1>4, <1>6 DEF Wrote
  <2>2. f # field
    BY <1>1, <1>3, <1>6, <2>1 DEF Patched, PageInv, Had
  <2>3. caches[q].row[f] \notin held[f]
    BY <1>4, <1>6, <2>1, <2>2 DEF Wrote
  <2>4. PICK d \in waiting : /\ calls[d].kind = f /\ f \in Optimistic
                             /\ calls[d].before[q] # NoRow
    BY <2>1, <2>3 DEF PageInv, Shown
  <2>5. d # c
    BY <2>2, <2>4, FieldFacts
  <2>6. QED
    BY <2>4, <2>5
<1>7. QED
  BY <1>1, <1>4, <1>5, <1>6, EndKeeps

\* A refusal puts back what the bridge had; a call that changed nothing ends unseen.
LEMMA RefusedKeeps ==
  ASSUME PageInv, NEW c \in Calls, Refused(c)
  PROVE  PageInv'
<1>. DEFINE field == fieldOf(calls[c].kind)
<1>1. /\ PageTyped /\ c \in waiting /\ Finish(c) /\ calls[c].stage = "refused"
      /\ UNCHANGED <<bridgeRow, onPage, losses, held>> /\ calls[c] \in CallRecords
  BY DEF PageInv, PageTyped, Refused, waiting
<1>2. field \in Fields /\ calls[c].kind \in ChangeKinds /\ calls[c].before \in RowsBefore
  BY <1>1, FieldFacts DEF PageTyped, CallRecords
<1>3. CASE calls[c].kind \in Optimistic
  <2>. DEFINE next == restoreMember(field, calls[c].before)
  <2>1. invalidateMember(next)
    BY <1>3 DEF Refused, Optimistic
  <2>2. Restored(next, field, calls[c].before)
    BY <1>1, <1>2, RestoreWrites
  <2>. HIDE DEF next
  <2>3. Wrote(next, field) /\ next \in [Queries -> CacheRecords]
    BY <2>2 DEF Restored, Wrote
  <2>4. Marked(next)
    BY <1>1, <2>1, <2>3, Invalidates
  <2>5. field = calls[c].kind
    BY <1>3, FieldFacts
  <2>6. ASSUME NEW f \in Fields \ doubtful, NEW q \in Queries,
               next[q].row # NoRow, next[q].row[f] \notin held[f]
        PROVE  \E d \in waiting \ {c} : /\ calls[d].kind = f /\ f \in Optimistic
                                        /\ calls[d].before[q] # NoRow
    <3>1. caches[q].row # NoRow
      BY <2>3, <2>6 DEF Wrote
    <3>2. caches[q].row[f] \notin held[f] /\ (f = field => calls[c].before[q] = NoRow)
      <4>1. CASE f # field
        BY <2>3, <2>6, <3>1, <4>1 DEF Wrote
      <4>2. CASE f = field
        BY <1>1, <1>3, <2>2, <2>5, <2>6, <3>1, <4>2 DEF Restored, PageInv, Backed
      <4>3. QED
        BY <4>1, <4>2
    <3>3. PICK d \in waiting : /\ calls[d].kind = f /\ f \in Optimistic
                               /\ calls[d].before[q] # NoRow
      BY <3>1, <3>2 DEF PageInv, Shown
    <3>4. d # c
      BY <2>5, <3>2, <3>3
    <3>5. QED
      BY <3>3, <3>4
  <2>7. QED
    BY <1>1, <2>3, <2>4, <2>6, EndKeeps
<1>4. CASE calls[c].kind = "ban"
  <2>1. invalidateMember(caches)
    BY <1>4 DEF Refused, Optimistic
  <2>2. Wrote(caches, field) /\ caches \in [Queries -> CacheRecords]
    BY <1>1 DEF Wrote, PageTyped, PageTypeOK, CacheRecords
  <2>3. Marked(caches)
    BY <1>1, <2>1, <2>2, Invalidates
  <2>4. \A f \in Optimistic : f # "ban"
    BY DEF Optimistic
  <2>5. ASSUME NEW f \in Fields \ doubtful, NEW q \in Queries,
               caches[q].row # NoRow, caches[q].row[f] \notin held[f]
        PROVE  \E d \in waiting \ {c} : /\ calls[d].kind = f /\ f \in Optimistic
                                        /\ calls[d].before[q] # NoRow
    <3>1. PICK d \in waiting : /\ calls[d].kind = f /\ f \in Optimistic
                               /\ calls[d].before[q] # NoRow
      BY <2>5 DEF PageInv, Shown
    <3>2. QED
      BY <1>4, <2>4, <3>1
  <2>6. QED
    BY <1>1, <2>2, <2>3, <2>5, EndKeeps
<1>5. CASE calls[c].kind \notin Optimistic \union {"ban"}
  <2>1. caches' = caches /\ fetches' = fetches /\ doubtful' = doubtful
    BY <1>5 DEF Refused
  <2>2. /\ calls' \in [Calls -> CallRecords] /\ calls'[c].stage = "over"
        /\ \A d \in Calls : d # c => calls'[d] = calls[d]
    <3>1. /\ [NoCall EXCEPT !.stage = "over"] \in CallRecords
          /\ [NoCall EXCEPT !.stage = "over"].stage = "over"
      BY DEF NoCall, CallRecords, ChangeKinds
    <3>2. calls' = [calls EXCEPT ![c] = [NoCall EXCEPT !.stage = "over"]]
          /\ calls \in [Calls -> CallRecords]
      BY <1>1 DEF Finish, PageTyped
    <3>. HIDE DEF NoCall
    <3>3. QED
      BY <3>1, <3>2
  <2>3. /\ waiting' = waiting \ {c}
        /\ \A d \in waiting \ {c} : d \in Calls /\ calls'[d] = calls[d]
    BY <2>2 DEF waiting
  <2>4. \A d \in Calls : Marks(d) => d # c /\ Marks(d)' /\ calls'[d] = calls[d]
    BY <1>1, <1>5, <2>2, <2>3 DEF Marks
  <2>5. \A f \in Fields : Moving(f) => Moving(f)'
    BY <2>4 DEF Moving
  <2>6. PageTyped'
    <3>1. PageTypeOK'
      BY <1>1, <2>1, <2>2 DEF PageTyped, PageTypeOK
    <3>2. QED
      BY <1>1, <2>1, <2>2, <2>3, <3>1 DEF PageTyped
  <2>7. Settled'
    <3>1. \A f \in Fields : ~Moving(f)' => ~Moving(f)
      BY <2>5
    <3>2. bridgeRow' = bridgeRow
      BY <1>1
    <3>3. QED
      BY <2>1, <3>1, <3>2 DEF PageInv, Settled
  <2>8. Reloading'
    BY <1>1, <1>5, <2>1, <2>3 DEF PageInv, Reloading
  <2>9. Alone' /\ Backed'
    BY <1>1, <2>1, <2>3 DEF PageInv, Alone, Backed
  <2>10. Had'
    BY <1>1, <2>1, <2>2 DEF PageInv, Had
  <2>11. Shown'
    <3>. SUFFICES ASSUME NEW f \in Fields \ doubtful, NEW q \in Queries,
                         caches[q].row # NoRow, caches[q].row[f] \notin held[f]
                  PROVE  \E d \in waiting' : /\ calls'[d].kind = f /\ f \in Optimistic
                                             /\ calls'[d].before[q] # NoRow
      BY <1>1, <2>1 DEF Shown
    <3>1. PICK d \in waiting : /\ calls[d].kind = f /\ f \in Optimistic
                               /\ calls[d].before[q] # NoRow
      BY DEF PageInv, Shown
    <3>2. d # c
      BY <1>5, <3>1
    <3>3. QED
      BY <2>3, <3>1, <3>2
  <2>12. QED
    BY <2>6, <2>7, <2>8, <2>9, <2>10, <2>11 DEF PageInv
<1>6. QED
  BY <1>3, <1>4, <1>5

LEMMA FetchReadsKeeps ==
  ASSUME PageInv, NEW q \in Queries, FetchReads(q)
  PROVE  PageInv'
<1>1. /\ PageTyped /\ fetches' = [fetches EXCEPT ![q] = [stage |-> "read", row |-> bridgeRow]]
      /\ UNCHANGED <<bridgeRow, onPage, caches, calls, losses, held, doubtful>>
  BY DEF PageInv, FetchReads
<1>2. /\ fetches \in [Queries -> [stage : {"no", "asked", "read"}, row : MemberRows \union {NoRow}]]
      /\ bridgeRow \in MemberRows
  BY <1>1 DEF PageTyped, PageTypeOK
<1>3. /\ fetches' \in [Queries -> [stage : {"no", "asked", "read"}, row : MemberRows \union {NoRow}]]
      /\ fetches'[q].stage = "read" /\ fetches'[q].row = bridgeRow
      /\ \A p \in Queries : p # q => fetches'[p] = fetches[p]
  BY <1>1, <1>2
<1>4. waiting' = waiting /\ (\A c \in Calls : Marks(c)' <=> Marks(c))
  BY <1>1 DEF waiting, Marks
<1>5. \A f \in Fields : Moving(f)' <=> Moving(f)
  BY <1>1, <1>4 DEF Moving
<1>6. PageTyped'
  <2>1. PageTypeOK'
    BY <1>1, <1>3 DEF PageTyped, PageTypeOK
  <2>2. \A p \in Queries : fetches'[p].stage = "read" => fetches'[p].row \in MemberRows
    BY <1>1, <1>2, <1>3 DEF PageTyped
  <2>3. QED
    BY <1>1, <1>4, <2>1, <2>2 DEF PageTyped
<1>7. Settled'
  <2>. SUFFICES ASSUME NEW f \in Fields \ doubtful, NEW p \in Queries \ doubtful, ~Moving(f)
                PROVE  /\ caches[p].row # NoRow /\ ~caches[p].invalid
                            => caches[p].row[f] = bridgeRow[f]
                       /\ fetches'[p].stage = "read" => fetches'[p].row[f] = bridgeRow[f]
    BY <1>1, <1>5 DEF Settled
  <2>1. QED
    BY <1>3 DEF PageInv, Settled
<1>8. Reloading'
  BY <1>1, <1>3, <1>4 DEF PageInv, Reloading, Queries
<1>9. Alone' /\ Backed'
  BY <1>1, <1>4 DEF PageInv, Alone, Backed
<1>10. Had'
  BY <1>1, <1>3 DEF PageInv, Had
<1>11. Shown'
  BY <1>1, <1>4 DEF PageInv, Shown
<1>12. QED
  BY <1>6, <1>7, <1>8, <1>9, <1>10, <1>11 DEF PageInv

LEMMA FetchLandsKeeps ==
  ASSUME PageInv, NEW q \in Queries, FetchLands(q)
  PROVE  PageInv'
<1>1. /\ PageTyped /\ fetches[q].stage = "read" /\ fetches' = [fetches EXCEPT ![q] = NoFetch]
      /\ UNCHANGED <<bridgeRow, onPage, calls, held, doubtful>>
  BY DEF PageInv, FetchLands
<1>2. /\ fetches \in [Queries -> [stage : {"no", "asked", "read"}, row : MemberRows \union {NoRow}]]
      /\ fetches[q].row \in MemberRows /\ fetches[q].row # NoRow
      /\ caches \in [Queries -> CacheRecords] /\ losses \in 0..MaxLosses
  BY <1>1, PageAssumption DEF PageTyped, PageTypeOK, CacheRecords
<1>3. /\ fetches' \in [Queries -> [stage : {"no", "asked", "read"}, row : MemberRows \union {NoRow}]]
      /\ fetches'[q].stage = "no" /\ \A p \in Queries : p # q => fetches'[p] = fetches[p]
  <2>1. NoFetch \in [stage : {"no", "asked", "read"}, row : MemberRows \union {NoRow}]
        /\ NoFetch.stage = "no"
    BY DEF NoFetch
  <2>. HIDE DEF NoFetch
  <2>2. QED
    BY <1>1, <1>2, <2>1
<1>4. PICK cache \in CacheRecords :
        /\ caches' = [caches EXCEPT ![q] = cache]
        /\ \/ cache.row = fetches[q].row /\ ~cache.invalid
           \/ cache.row = caches[q].row /\ cache.invalid /\ cache.failed
        /\ losses' \in 0..MaxLosses
  <2>1. CASE /\ caches' = [caches EXCEPT ![q] =
                  [row |-> fetches[q].row, invalid |-> FALSE, failed |-> FALSE]]
             /\ UNCHANGED losses
    <3>. DEFINE cache == [row |-> fetches[q].row, invalid |-> FALSE, failed |-> FALSE]
    <3>1. /\ cache \in CacheRecords /\ cache.row = fetches[q].row /\ ~cache.invalid
          /\ caches' = [caches EXCEPT ![q] = cache] /\ losses' \in 0..MaxLosses
      BY <1>2, <2>1 DEF CacheRecords
    <3>. HIDE DEF cache
    <3>2. QED
      BY <3>1
  <2>2. CASE /\ losses < MaxLosses /\ losses' = losses + 1
             /\ caches' = [caches EXCEPT ![q] = [@ EXCEPT !.invalid = TRUE, !.failed = TRUE]]
    <3>. DEFINE cache == [caches[q] EXCEPT !.invalid = TRUE, !.failed = TRUE]
    <3>1. caches[q] \in CacheRecords
      BY <1>2
    <3>2. /\ cache \in CacheRecords /\ cache.row = caches[q].row
          /\ cache.invalid /\ cache.failed
      BY <3>1 DEF CacheRecords
    <3>3. caches' = [caches EXCEPT ![q] = cache] /\ losses' \in 0..MaxLosses
      BY <1>2, <2>2, PageAssumption
    <3>. HIDE DEF cache
    <3>4. QED
      BY <3>2, <3>3
  <2>3. QED
    BY <2>1, <2>2 DEF FetchLands
<1>5. /\ caches' \in [Queries -> CacheRecords] /\ caches'[q] = cache
      /\ \A p \in Queries : p # q => caches'[p] = caches[p]
  BY <1>2, <1>4
<1>6. waiting' = waiting /\ (\A c \in Calls : Marks(c)' <=> Marks(c))
  BY <1>1 DEF waiting, Marks
<1>7. \A f \in Fields : Moving(f)' <=> Moving(f)
  BY <1>1, <1>6 DEF Moving
<1>8. PageTyped'
  <2>1. PageTypeOK'
    BY <1>1, <1>3, <1>4, <1>5 DEF PageTyped, PageTypeOK, CacheRecords
  <2>2. \A p \in Queries : fetches'[p].stage = "read" => fetches'[p].row \in MemberRows
    BY <1>1, <1>3 DEF PageTyped
  <2>3. caches'["detail"].row # NoRow
    BY <1>1, <1>2, <1>4, <1>5 DEF PageTyped, Queries
  <2>4. QED
    BY <1>1, <1>6, <2>1, <2>2, <2>3 DEF PageTyped
<1>9. Settled'
  <2>. SUFFICES ASSUME NEW f \in Fields \ doubtful, NEW p \in Queries \ doubtful, ~Moving(f)
                PROVE  /\ caches'[p].row # NoRow /\ ~caches'[p].invalid
                            => caches'[p].row[f] = bridgeRow[f]
                       /\ fetches'[p].stage = "read" => fetches'[p].row[f] = bridgeRow[f]
    BY <1>1, <1>7 DEF Settled
  <2>1. /\ caches[p].row # NoRow /\ ~caches[p].invalid => caches[p].row[f] = bridgeRow[f]
        /\ fetches[p].stage = "read" => fetches[p].row[f] = bridgeRow[f]
    BY DEF PageInv, Settled
  <2>2. CASE p = q
    BY <1>1, <1>3, <1>4, <1>5, <2>1, <2>2
  <2>3. CASE p # q
    BY <1>3, <1>5, <2>1, <2>3
  <2>4. QED
    BY <2>2, <2>3
<1>10. Reloading'
  <2>1. CASE q = "detail"
    BY <1>4, <1>5, <2>1 DEF Reloading
  <2>2. CASE q # "detail"
    BY <1>1, <1>3, <1>5, <1>6, <2>2 DEF PageInv, Reloading, Queries
  <2>3. QED
    BY <2>1, <2>2
<1>11. Alone' /\ Backed'
  BY <1>1, <1>6 DEF PageInv, Alone, Backed
<1>12. Had'
  BY <1>1, <1>3 DEF PageInv, Had
<1>13. Shown'
  <2>. SUFFICES ASSUME NEW f \in Fields \ doubtful, NEW p \in Queries,
                       caches'[p].row # NoRow, caches'[p].row[f] \notin held[f]
                PROVE  \E d \in waiting : /\ calls[d].kind = f /\ f \in Optimistic
                                          /\ calls[d].before[p] # NoRow
    BY <1>1, <1>6 DEF Shown
  <2>1. caches[p].row # NoRow /\ caches[p].row[f] \notin held[f]
    BY <1>1, <1>4, <1>5 DEF PageInv, Had
  <2>2. QED
    BY <2>1 DEF PageInv, Shown
<1>14. QED
  BY <1>8, <1>9, <1>10, <1>11, <1>12, <1>13 DEF PageInv

\* The other page opened: a query that is marked, or has nothing, is fetched, and stops
\* being in doubt, for nothing it shows is taken for the bridge's.
LEMMA NavigateKeeps ==
  ASSUME PageInv, Navigate
  PROVE  PageInv'
<1>. DEFINE q == IF onPage = "user" THEN "list" ELSE "detail"
            asked == [stage |-> "asked", row |-> NoRow]
<1>1. /\ PageTyped /\ onPage' = (IF onPage = "user" THEN "manage" ELSE "user")
      /\ UNCHANGED <<bridgeRow, caches, calls, losses, held>>
  BY DEF PageInv, Navigate
<1>2. \/ /\ caches[q].row = NoRow \/ caches[q].invalid
         /\ fetches[q].stage = "no"
         /\ fetches' = [fetches EXCEPT ![q] = asked] /\ doubtful' = doubtful \ {q}
      \/ /\ ~(caches[q].row = NoRow \/ caches[q].invalid) \/ fetches[q].stage # "no"
         /\ fetches' = fetches /\ doubtful' = doubtful
  BY Zenon DEF Navigate
<1>3. fetches \in [Queries -> [stage : {"no", "asked", "read"}, row : MemberRows \union {NoRow}]]
  BY <1>1 DEF PageTyped, PageTypeOK
<1>4. q \in Queries /\ q \notin Fields /\ "detail" \in Queries
  BY FieldFacts DEF Queries
<1>5. asked \in [stage : {"no", "asked", "read"}, row : MemberRows \union {NoRow}]
      /\ asked.stage = "asked"
  OBVIOUS
<1>. HIDE DEF asked
<1>6. /\ fetches' \in [Queries -> [stage : {"no", "asked", "read"}, row : MemberRows \union {NoRow}]]
      /\ \A p \in Queries : fetches'[p].stage = "read" => fetches'[p] = fetches[p]
      /\ \A p \in Queries \ doubtful' : \/ p \notin doubtful
                                        \/ /\ caches[p].row = NoRow \/ caches[p].invalid
                                           /\ fetches'[p].stage = "asked"
      /\ \A f \in Fields : f \in doubtful' <=> f \in doubtful
      /\ doubtful' \subseteq doubtful
      /\ onPage # "user" /\ caches["detail"].invalid => fetches'["detail"].stage # "no"
  BY <1>2, <1>3, <1>4, <1>5
<1>7. waiting' = waiting /\ (\A c \in Calls : Marks(c)' <=> Marks(c))
  BY <1>1 DEF waiting, Marks
<1>8. \A f \in Fields : Moving(f)' <=> Moving(f)
  BY <1>1, <1>7 DEF Moving
<1>9. PageTyped'
  <2>1. PageTypeOK'
    BY <1>1, <1>6 DEF PageTyped, PageTypeOK
  <2>2. \A p \in Queries : fetches'[p].stage = "read" => fetches'[p].row \in MemberRows
    BY <1>1, <1>6 DEF PageTyped
  <2>3. QED
    BY <1>1, <1>7, <2>1, <2>2 DEF PageTyped
<1>10. Settled'
  <2>. SUFFICES ASSUME NEW f \in Fields \ doubtful', NEW p \in Queries \ doubtful', ~Moving(f)
                PROVE  /\ caches[p].row # NoRow /\ ~caches[p].invalid
                            => caches[p].row[f] = bridgeRow[f]
                       /\ fetches'[p].stage = "read" => fetches'[p].row[f] = bridgeRow[f]
    BY <1>1, <1>8 DEF Settled
  <2>1. f \in Fields \ doubtful
    BY <1>6
  <2>2. CASE p \notin doubtful
    BY <1>6, <2>1, <2>2 DEF PageInv, Settled
  <2>3. CASE p \in doubtful
    BY <1>6, <2>3
  <2>4. QED
    BY <2>2, <2>3
<1>11. Reloading'
  BY <1>1, <1>6 DEF Reloading
<1>12. Optimistic \subseteq Fields
  BY FieldFacts
<1>13. Alone' /\ Backed'
  BY <1>1, <1>6, <1>7, <1>12 DEF PageInv, Alone, Backed
<1>14. Had'
  BY <1>1, <1>6 DEF PageInv, Had
<1>15. Shown'
  BY <1>1, <1>6, <1>7 DEF PageInv, Shown
<1>16. QED
  BY <1>9, <1>10, <1>11, <1>13, <1>14, <1>15 DEF PageInv

LEMMA PageNextKeeps == PageInv /\ [PageNext]_pageVars => PageInv'
<1>. SUFFICES ASSUME PageInv, [PageNext]_pageVars PROVE PageInv'
  OBVIOUS
<1>1. ASSUME NEW kind \in ChangeKinds, NEW value \in 0..1, Mutate(kind, value)
      PROVE  PageInv'
  BY <1>1, MutateKeeps
<1>2. ASSUME NEW c \in Calls, Apply(c) \/ Confirmed(c) \/ Refused(c)
      PROVE  PageInv'
  BY <1>2, ApplyKeeps, ConfirmedKeeps, RefusedKeeps
<1>3. ASSUME NEW q \in Queries, FetchReads(q) \/ FetchLands(q)
      PROVE  PageInv'
  BY <1>3, FetchReadsKeeps, FetchLandsKeeps
<1>4. CASE Navigate
  BY <1>4, NavigateKeeps
<1>5. CASE UNCHANGED pageVars
  BY <1>5 DEF pageVars, PageInv, PageTyped, PageTypeOK, Settled, Reloading, Alone, Backed, Had,
              Shown, waiting, Moving, Marks
<1>6. QED
  BY <1>1, <1>2, <1>3, <1>4, <1>5 DEF PageNext

\* Once nothing is out no call is moving a field and none can back what is shown.
LEMMA PageInvIsHonest == PageInv => PageIsHonest
<1>. SUFFICES ASSUME PageInv, AtRest, NEW f \in Fields \ doubtful
              PROVE  /\ \A q \in Queries : caches[q].row # NoRow => caches[q].row[f] \in held[f]
                     /\ onPage = "user" /\ ~caches["detail"].failed =>
                          ("detail" \notin doubtful => caches["detail"].row[f] = bridgeRow[f])
                     /\ caches["list"].row # NoRow /\ ~caches["list"].invalid =>
                          ("list" \notin doubtful => caches["list"].row[f] = bridgeRow[f])
  BY Zenon DEF PageIsHonest
<1>1. waiting = {} /\ (\A q \in Queries : fetches[q].stage = "no") /\ Queries = {"detail", "list"}
  BY DEF AtRest, Queries
<1>2. ~Moving(f)
  BY <1>1 DEF Moving, Marks
<1>3. \A q \in Queries : caches[q].row # NoRow => caches[q].row[f] \in held[f]
  BY <1>1 DEF PageInv, Shown
<1>4. \A q \in Queries \ doubtful :
        caches[q].row # NoRow /\ ~caches[q].invalid => caches[q].row[f] = bridgeRow[f]
  BY <1>2 DEF PageInv, Settled
<1>5. caches["detail"].row # NoRow
  BY DEF PageInv, PageTyped
<1>6. onPage = "user" /\ ~caches["detail"].failed => ~caches["detail"].invalid
  BY <1>1 DEF PageInv, Reloading
<1>7. QED
  BY <1>1, <1>3, <1>4, <1>5, <1>6

\* Whatever calls and fetches overlap, are refused or lost, and in whatever order they
\* come back, for any number of calls: at rest neither cache shows a value the bridge
\* never had, and what is not marked for a reload is the bridge's own.
THEOREM PageHonest == PageSpec => [](PageTypeOK /\ PageIsHonest)
<1>1. PageInv => PageTypeOK /\ PageIsHonest
  BY PageInvIsHonest DEF PageInv, PageTyped
<1>2. QED
  BY <1>1, PageInitKeeps, PageNextKeeps, PTL DEF PageSpec
=============================================================================

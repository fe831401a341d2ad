-------------------------- MODULE UpstreamSnapshot --------------------------
(***************************************************************************)
(* The members page's copy of Wizarr and plex.tv: one sweep reads the four *)
(* lists side by side, each at a moment of its own, and stores what it     *)
(* read. The loop, an admin action and a first visit can all be sweeping.  *)
(***************************************************************************)
EXTENDS Naturals

CONSTANTS Feeds,        \* what a sweep reads: users, libraries, invitations, plex_access
          BestEffort,   \* those whose failure is read as "unknown" (plex_access)
          Visitors,     \* requests for the page that find nothing cached
          MaxVersion,   \* changes upstream, of each list
          MaxFetchFailures,
          Unread,       \* not read yet by this sweep, or nothing cached
          Unknown       \* could not be read

ASSUME SnapshotAssumption ==
  /\ BestEffort \subseteq Feeds /\ MaxVersion \in Nat /\ MaxFetchFailures \in Nat
  /\ Unread # Unknown /\ {Unread, Unknown} \intersect (0..MaxVersion) = {}

\* startLoops' timer, refreshAsync, and get() with nothing cached.
Fetchers == {"loop", "background"} \union Visitors

Versions == 0..MaxVersion

VARIABLES
  upstream,   \* how often each list has changed
  shown,      \* the cached value, or all Unread before the first
  fetching,   \* each sweep under way: what it has read of each list
  running,    \* the fetchers whose sweep is under way
  mishaps     \* failures so far

snapshotVars == <<upstream, shown, fetching, running, mishaps>>

Nothing == [l \in Feeds |-> Unread]
Views == [Feeds -> Versions \union {Unread, Unknown}]

SnapshotTypeOK ==
  /\ upstream \in [Feeds -> Versions]
  /\ shown \in Views
  /\ fetching \in [Fetchers -> Views]
  /\ running \subseteq Fetchers
  /\ mishaps \in 0..MaxFetchFailures

SnapshotInit ==
  /\ upstream = [l \in Feeds |-> 0]
  /\ shown = Nothing
  /\ fetching = [f \in Fetchers |-> Nothing]
  /\ running = {} /\ mishaps = 0

Starts(f) ==
  /\ f \notin running
  /\ running' = running \union {f}
  /\ fetching' = [fetching EXCEPT ![f] = Nothing]
  /\ UNCHANGED <<upstream, shown, mishaps>>

\* Mutant: the loop does not reschedule itself after a failure.
LoopRefreshesOnce == mishaps = 0 /\ Starts("loop")

\* The interval is over: the loop's next sweep, whatever became of the last one.
LoopRefreshes == Starts("loop")

\* An admin action that changed something upstream kicks a sweep, unless the last
\* one kicked is still running.
refreshAsync == Starts("background")

\* A page with nothing to show sweeps for itself.
get(v) == shown = Nothing /\ Starts(v)

\* One of the four answers has come. plex.tv's failure is an answer too.
Answered(f, l) ==
  /\ f \in running /\ fetching[f][l] = Unread
  /\ \/ fetching' = [fetching EXCEPT ![f][l] = upstream[l]] /\ UNCHANGED mishaps
     \/ /\ l \in BestEffort /\ mishaps < MaxFetchFailures
        /\ mishaps' = mishaps + 1
        /\ fetching' = [fetching EXCEPT ![f][l] = Unknown]
  /\ UNCHANGED <<upstream, shown, running>>

Over(f) == running' = running \ {f} /\ fetching' = [fetching EXCEPT ![f] = Nothing]

\* All four are in: the value is replaced, whichever sweep began first.
refresh(f) ==
  /\ f \in running
  /\ \A l \in Feeds : fetching[f][l] # Unread
  /\ shown' = fetching[f]
  /\ Over(f)
  /\ UNCHANGED <<upstream, mishaps>>

\* Wizarr fails: the sweep is dropped and the previous value keeps serving.
Fails(f) ==
  /\ f \in running /\ mishaps < MaxFetchFailures
  /\ \E l \in Feeds \ BestEffort : fetching[f][l] = Unread
  /\ mishaps' = mishaps + 1
  /\ Over(f)
  /\ UNCHANGED <<upstream, shown>>

\* Something changes upstream, by an admin's action or of itself.
Change(l) ==
  /\ upstream[l] < MaxVersion
  /\ upstream' = [upstream EXCEPT ![l] = @ + 1]
  /\ UNCHANGED <<shown, fetching, running, mishaps>>

SnapshotNext ==
  \/ LoopRefreshes \/ refreshAsync
  \/ \E v \in Visitors : get(v)
  \/ \E f \in Fetchers :
       refresh(f) \/ Fails(f) \/ \E l \in Feeds : Answered(f, l)
  \/ \E l \in Feeds : Change(l)

\* The loop's timer fires, and every call ends one way or the other.
SnapshotFairness ==
  /\ WF_snapshotVars(LoopRefreshes)
  /\ \A f \in Fetchers :
       /\ \A l \in Feeds : WF_snapshotVars(Answered(f, l))
       /\ WF_snapshotVars(refresh(f))

SnapshotSpec == SnapshotInit /\ [][SnapshotNext]_snapshotVars /\ SnapshotFairness

---------------------------------------------------------------------------
\* Properties.

\* Whatever order overlapping sweeps end in, the page comes to show the last of
\* the changes, once Wizarr answers again (UpstreamSnapshot.refresh, kept up by
\* the loop: an admin action's own refresh may have been a no-op).
PageSettles ==
  \A l \in Feeds : (upstream[l] = MaxVersion) ~> [](shown[l] = MaxVersion)
=============================================================================

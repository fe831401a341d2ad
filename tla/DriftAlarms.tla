---------------------------- MODULE DriftAlarms -----------------------------
(***************************************************************************)
(* The reconcile sweep's alarms: checkTierScopes compares Wizarr's cached  *)
(* library list with the tier rules and with Plex, checkVipAccess looks    *)
(* for standing grants that grant nothing, and each mails through a        *)
(* ChangeAlert that remembers the last set of problems it mailed.          *)
(***************************************************************************)
EXTENDS TierScope, Naturals

CONSTANTS FirstList,   \* the libraries to begin with, in Wizarr's cache and on Plex
          OtherLists,  \* what Plex's libraries may be changed to
          Vips,        \* members who may be given the tag
          MaxOutages   \* calls to Wizarr, plex.tv or the mail server that fail, or
                       \* that plex.tv answers without one of its servers

ASSUME AlarmAssumption ==
  FirstList \in Lists /\ OtherLists \subseteq Lists /\ MaxOutages \in Nat

Alarms == {"tierScope", "vipAccess"}
Quiet == {}

VARIABLES
  cached,     \* Wizarr's library list
  plex,       \* Plex's own
  tagged,     \* members tagged vip
  holding,    \* of the Vips, those with a record
  pass,       \* where the sweep is
  inHand,     \* the library list the sweep read
  last,       \* each ChangeAlert: the set it remembers, or Quiet
  outages,
  seen,       \* history: what each alarm's last check that could read found
  told        \* history: mails tried about that since it was first found

alarmVars == <<cached, plex, tagged, holding, pass, inHand, last, outages, seen, told>>
upstreamVars == <<cached, plex, tagged, holding>>

\* The mail each alarm sends.
mailOf(alarm) == IF alarm = "tierScope" THEN "tierScopeMail" ELSE "vipAccessMail"

Passes == {"idle", "tierScope", "sections", "vipAccess", "tierScopeMail", "vipAccessMail"}

AlarmTypeOK ==
  /\ cached \in Lists /\ plex \in Lists /\ inHand \in Lists
  /\ tagged \subseteq Vips /\ holding \subseteq Vips
  /\ pass \in Passes
  /\ DOMAIN last = Alarms /\ DOMAIN seen = Alarms
  /\ told \in [Alarms -> 0..2]
  /\ outages \in 0..MaxOutages

AlarmInit ==
  /\ cached = FirstList /\ plex = FirstList /\ inHand = FirstList
  /\ tagged = {} /\ holding = Vips
  /\ pass = "idle"
  /\ last = [a \in Alarms |-> Quiet]
  /\ seen = [a \in Alarms |-> Quiet]
  /\ told = [a \in Alarms |-> 0]
  /\ outages = 0

Outage == outages < MaxOutages /\ outages' = outages + 1

\* What the check found is noted; the count starts over when it is something else.
Notes(alarm, problems, mails) ==
  /\ seen' = [seen EXCEPT ![alarm] = problems]
  /\ told' = [told EXCEPT ![alarm] =
                LET before == IF problems = seen[alarm] THEN @ ELSE 0
                IN IF mails /\ before < 2 THEN before + 1 ELSE before]

\* Mutant: a recovery does not clear the alarm.
RaiseUncleared(alarm, problems, next) ==
  LET mails == problems # Quiet /\ problems # last[alarm] IN
  /\ last' = [last EXCEPT ![alarm] = IF problems = Quiet THEN @ ELSE problems]
  /\ pass' = IF mails THEN mailOf(alarm) ELSE next
  /\ Notes(alarm, problems, mails)

\* No problems clear the alarm. Others are remembered before they are mailed.
Raise(alarm, problems, next) ==
  LET mails == problems # Quiet /\ problems # last[alarm] IN
  /\ last' = [last EXCEPT ![alarm] = problems]
  /\ pass' = IF mails THEN mailOf(alarm) ELSE next
  /\ Notes(alarm, problems, mails)

\* The mail is accepted, or its failure is logged by guarded: either way the
\* sweep goes on and the set stays remembered.
fire ==
  /\ pass \in {"tierScopeMail", "vipAccessMail"}
  /\ pass' = IF pass = "tierScopeMail" THEN "vipAccess" ELSE "idle"
  /\ UNCHANGED outages \/ Outage
  /\ UNCHANGED <<upstreamVars, inHand, last, seen, told>>

reconcileStarts ==
  /\ pass = "idle"
  /\ pass' = "tierScope"
  /\ UNCHANGED <<upstreamVars, inHand, last, outages, seen, told>>

\* Wizarr's list is read; when it cannot be, nothing is known and the alarm stays.
LibrariesRead ==
  /\ pass = "tierScope"
  /\ \/ pass' = "sections" /\ inHand' = cached /\ UNCHANGED outages
     \/ pass' = "vipAccess" /\ Outage /\ UNCHANGED inHand
  /\ UNCHANGED <<upstreamVars, last, seen, told>>

\* Each broken tier with its reason, and each stale cache with its own.
problemsOf(list, live) ==
  {<<t, missingTitles(t, shareableLibraries(t, listed(list), list), list)>> :
     t \in tierScopeProblems(listed(list), list)}
    \union libraryCacheProblems(list, live)

\* Then Plex's. Where plex.tv does not answer, of all servers or of some, the cache
\* counts as current.
checkTierScopes ==
  /\ pass = "sections"
  /\ \E live \in liveSectionsOrNone(plex) :
       /\ IF live = liveSections(plex, Servers) THEN UNCHANGED outages ELSE Outage
       /\ Raise("tierScope", problemsOf(inHand, live), "vipAccess")
  /\ UNCHANGED <<upstreamVars, inHand>>

\* A standing grant without a record; nothing is asked when nobody is tagged.
checkVipAccess ==
  /\ pass = "vipAccess"
  /\ \/ Raise("vipAccess", tagged \ holding, "idle") /\ UNCHANGED outages
     \/ tagged # {} /\ Outage /\ pass' = "idle" /\ UNCHANGED <<last, seen, told>>
  /\ UNCHANGED <<upstreamVars, inHand>>

\* The process starts over: what was remembered is gone, and so is its history.
Restart ==
  /\ outages < MaxOutages /\ outages' = outages + 1
  /\ pass' = "idle"
  /\ last' = [a \in Alarms |-> Quiet]
  /\ seen' = [a \in Alarms |-> Quiet]
  /\ told' = [a \in Alarms |-> 0]
  /\ UNCHANGED <<upstreamVars, inHand>>

\* Outside: Plex's libraries are renamed, Wizarr rescans, a tag or a record comes or goes.
Rename(list) == plex # list /\ plex' = list /\ UNCHANGED <<cached, tagged, holding>>
Rescan == cached # plex /\ cached' = plex /\ UNCHANGED <<plex, tagged, holding>>
Tag(v) ==
  /\ tagged' = IF v \in tagged THEN tagged \ {v} ELSE tagged \union {v}
  /\ UNCHANGED <<cached, plex, holding>>
Record(v) ==
  /\ holding' = IF v \in holding THEN holding \ {v} ELSE holding \union {v}
  /\ UNCHANGED <<cached, plex, tagged>>

Outside ==
  /\ \/ \E list \in OtherLists : Rename(list)
     \/ Rescan
     \/ \E v \in Vips : Tag(v) \/ Record(v)
  /\ UNCHANGED <<pass, inHand, last, outages, seen, told>>

AlarmNext ==
  \/ reconcileStarts \/ LibrariesRead \/ checkTierScopes \/ checkVipAccess \/ fire
  \/ Restart \/ Outside

AlarmSpec == AlarmInit /\ [][AlarmNext]_alarmVars

---------------------------------------------------------------------------
\* Properties.

\* A problem set that stands is mailed about once: on the check that finds it,
\* again when it comes back after a check that found nothing, and not once per
\* sweep (ChangeAlert). A mail that failed was that once.
OneMailPerStanding ==
  \A a \in Alarms : told[a] = IF seen[a] = Quiet THEN 0 ELSE 1
=============================================================================

# Formal models of wizteros

wizteros sells access to a Plex fleet by subscription. Two servers do the work:
the **stripe-bridge** turns Stripe events into Wizarr invites, expiries and
revocations, and the **fleet-monitor** watches the NAS hosts that carry Plex and
keeps a ledger of what is played on them. The **admin-portal** is a React client
of both. This directory holds TLA+ models of the three, TLC configurations that
check them on small instances, and TLAPS proofs for every instance. Paths below
are relative to `src/apps/stripe-bridge/src` (bridge), `src/apps/fleet-monitor/src`
(monitor) or `src/apps/admin-portal/src` (portal).

1. [The system](#1-the-system): components, state, operations, what is hard
2. [The modules](#2-the-modules): which models what, and how it maps to code
3. [What is checked](#3-what-is-checked): runs, bounds, fairness
4. [What is proved](#4-what-is-proved): theorems and their arguments
5. [What the models disagree with](#5-what-the-models-disagree-with)
6. [Not modelled](#6-not-modelled)

## 1. The system

    Stripe --events--> webhook queue --> handlers --invites/expiries--> Wizarr --> Plex
                            |               |                             ^
                        SQLite store <------+---- reconcile loop ---------+
                            ^                     (sweeps, baseline, snapshot)
                            |
                        admin API <--- admin portal ---> monitor API
                                                             |
    hosts, docker, Plex servers <--ssh/http-- collector --> SQLite ledger

Both servers are single Node processes over one SQLite file each. Nothing runs
in parallel inside a process, but every `await` lets another handler, loop or
admin request in, a crash may fall anywhere, and every upstream call can fail or
succeed with its answer lost. The monitor's Plex rounds can also run in a second
process on the same file, started by hand.

### The bridge

| component | state it keeps | operations | hard behaviour | what makes it correct |
| --- | --- | --- | --- | --- |
| webhook queue and events (`webhook/webhookController.ts`, `webhook/handlers.ts`, `store/events.ts`) | the promise chain, `processed_events` | `webhook`, `serialQueue`, `handleEvent` | Stripe redelivers, duplicates and reorders; the mark comes after the work | an event is settled only after it was served; every event settles |
| invite issuance and delivery (`invites.ts`, `store/invites.ts`) | `session_invites` (code, emailed), the pending `customer_map` row | `issueInvite`, `deliverInvite` | mint and record, mail and mark are two writes each | one link per payment, mailed once per run that lost track |
| handlers and member access (`webhook/handlers.ts`, `members.ts`) | `customer_map` flags; Wizarr's records and invites | the five handlers | several customers per person, events out of order, records that vanish between a read and a call, retries that meet a changed world | who pays has a way in and is looked after; a VIP is left alone |
| duplicate subscriptions (`duplicates.ts`) | none | `retireDuplicates`, `cancelAndVoid` | list, then cancel; a retry may succeed in between | the person keeps their live subscription |
| reconcile loop (`reconcile.ts`, `sweeps.ts`, `loops.ts`) | none of its own | `reconcileOnce` and its sweeps | works on lists fetched before a webhook changed one | dunning flags and expiries settle; stamps are not overwritten |
| identity and links (`identity.ts`, `memberLinks.ts`) | `member_links`, invite codes, Wizarr's `used_by` | `identityFor`, `linkAddress`, `unlinkAddress` | stated links, links implied by redemptions, and chains of both | one person whichever address is asked about |
| tiers (`tiers.ts`) | none | `tierScopeProblems`, `resolveTierAccess`, `staleRecordIds` | libraries renamed upstream while Wizarr's cache keeps the old name | of the libraries plex.tv answered for, no alarm means that each tier's scope is exactly what Plex has of its promise |
| baseline invites (`baseline.ts`) | baseline rows | `rotateBaselineInvites` | mint, record, reap, each with an answer that may be lost; one broken tier must not empty the set | a tier keeps a usable invite for as long as a sound one lasts; every invite is reaped |
| upstream snapshot, change alerts (`snapshot.ts`, `changeAlert.ts`) | the cached snapshot, the last problem set | `get`, `refresh`, `refreshAsync`, `fire` | overlapping sweeps; the set is remembered before its mail | the page comes to show the last change; a standing problem is mailed once |
| admin actions (`admin/actions.ts`, `admin/billing.ts`) | tags, links, overrides | tag, ban, link, cancel, reset, reissue | run beside one another and a handler that has already read the tag; one call of many fails | a ban holds; a settled billing answer is true |
| customer rows (`store/customers.ts`, `store/overrides.ts`) | `customer_map`, one override an address | the upserts, `customerRow` | placeholders, several customers, spellings | no placeholder hides a customer |
| queries, roster (`roster.ts`, `admin/queries.ts`) | none | `assembleMembers`, `finishMember`, `getMember` | chains of links, people without an address | everyone is listed, and as the handlers treat them |
| mail, clients, ops | none | wording, HTTP | - | - |

### The monitor

| component | state it keeps | operations | hard behaviour | what makes it correct |
| --- | --- | --- | --- | --- |
| incidents (`incidents.ts`) | `check_streak`, `incidents` | `record`, `retireAbsent`, `uptimePercent` | streaks across rounds, restarts and retirements; a wall clock that steps back | an incident says what the checks say; an uptime is given only for a window that was watched |
| collector (`collector.ts`) | the round | `tick`, `collectHost`, `collectContainers` | jobs side by side, each its own session; answers that are bad or never come | silence closes nothing |
| play history (`plexSync/history.ts`) | `plex_plays`, `history_cursor` | `syncHistory`, `pageHistory` | paging by offset while rows arrive, late plays, passes that die, two passes on one cursor | no play is lost |
| inventory, enrichment (`plexSync/inventory.ts`, `plexSync/history.ts`) | `plex_items` | `syncLibrary`, `enrichItems`, `enrichSingly` | a library that changes while listed, partial failures, a key that stalls a batch | a clean run is exact; the rows return to the library |
| collector loops (`tasks.ts`, `retention.ts`, `collectorMain.ts`) | what is due, the prune threads | `every`, `runAll`, `joinPrunes` | a round longer than its interval; a stop or a failure beside a prune | no overlap, no drift, no exit inside SQLite |
| probes, transport (`probes/`, `transport/`) | none | ssh, http, parsing | a deadline racing an end; output cut or garbled anywhere | one result, which says what happened; only facts that were printed |
| ledger rule (`plays/ledger.ts`, `plexSync/`) | `plex_sections`, `plex_servers` | mark, purge, drop | rules change at a restart, passes read marks the last inventory left | an excluded library leaves nothing, no other play is lost |
| fleet state (`fleet.ts`, `store.ts`) | `samples`, the heartbeat | `latest`, `fleetView`, `prune` | one family silent beside others, clock set back | a silent family is marked as one |
| series (`series.ts`, `cpu.ts`) | none | rates, sums, thinning | counters that reset, partial readings | a chart's points were measured |
| play views (`plays/`) | none | overview, tops, histories, never played | viewings marked twice, items described late, retired, purged | the figures of a request agree |

### The portal

| component | state it keeps | operations | hard behaviour | what makes it correct |
| --- | --- | --- | --- | --- |
| income (`lib/income.ts`) | none | `toIncomeEvents`, `monthlySeries`, `currentIncome` | rebuilt from a log written for people | past months are what they were |
| member page (`pages/User/useMemberActions.ts`, `lib/memberQueries.ts`) | two cached queries | optimistic calls, invalidation | refusals, lost answers and fetches among several calls | a rejected change does not stay on screen |
| session (`lib/queryPersistence.ts`, `stores/authStore.ts`) | the query cache, the tab's storage | persist, restore, clear | a throttled write after a sign-out | signed out is gone |
| status, libraries (`lib/memberStatus.ts`, `lib/libraryAccess.ts`) | none | `deriveStatus`, `deriveProblems`, `buildServerAccess` | names of two ages | the page says what the bridge and Plex do, or an alarm says why not |
| rendering (`pages/`, `components/`) | form state | - | - | - |

The **libs** hold token checks, SQLite helpers and wire types and decide nothing
modelled here. `PROJECT.json` lists every component with its status and, under
`hazards`, what in this code can go wrong where a test would hardly reach.

## 2. The modules

| module | models | composed of |
| --- | --- | --- |
| `InviteDelivery` | webhook queue, processed mark, the two handlers that issue an invite, `issueInvite`, `deliverInvite` | - |
| `InviteOnce` | what that promises, abstractly | refined by `InviteDelivery` (`Promise`) |
| `MemberAccess` | one person's access: five handlers, duplicates, reconcile loop, Stripe, Wizarr, admin tag; the status and the problems the page derives | takes issuance as `InviteDelivery` shows it |
| `Identity` | `identityFor` and its helpers, as operators over one snapshot | - |
| `MemberLinks` | how links, invites and redemptions come to be | `Identity` |
| `Roster` | the members list over what `MemberLinks` reaches | `MemberLinks` |
| `AdminActions`, `AdminBilling` | concurrent admin requests about one member; their billing, call by call | - |
| `CustomerMap` | the customer rows, placeholders and overrides | - |
| `UpstreamSnapshot` | the page's copy of four upstream lists | - |
| `TierScope` | `tiers.ts`: tier rules, scopes and the two checks of them, as operators | - |
| `DriftAlarms` | the two sweeps that mail, and `ChangeAlert` | `TierScope` |
| `LibraryAccess` | what the page and the list say of each library | `DriftAlarms` |
| `BaselineInvites` | the nightly rotation: scope, mint, record, reap | `TierScope` |
| `IncomeBooks`, `MemberPage`, `SessionCache` | the portal's income, caches and session | - |
| `Incidents` | rounds, streaks, incidents, uptime | - |
| `PlexHistory`, `PlexInventory` | the history pass and its cursor; inventory and enrichment | - |
| `PlexPages`, `PlexLedger` | paging and parsing; the exclusion rule over the ledger | - |
| `CollectorTasks`, `Transport`, `Probes` | the collector's process; ssh and http; parsing and what is kept | - |
| `FleetViews`, `SeriesViews`, `PlayViews` | the dashboard, the charts, the play page | - |
| `*_proofs` | the theorems about the module named; `Bridge_proofs` about the parts of `MCBridge`, `Portal_proofs` about `SessionCache` and `MemberPage`, `Plex_proofs` and `Monitor_proofs` about the parts of `MCPlex` and `MCMonitor` | |
| `MC*` | a small instance for TLC | `MCBridge`, `MCPlex` and `MCMonitor` hold several modules |

**Parts.** `MCBridge`, `MCPlex` and `MCMonitor` extend several modules and hold a
variable `part`, chosen at the start: a behaviour is of one part, so the parts'
states add up instead of multiplying. Where two parts do meet in the code, the
module takes the other's effect as its own action (a tag set, a checkout made
meanwhile, a list renamed), so nothing rests on the parts being apart.

**Grain.** A step is the code between two awaits, or between two durable writes
where a crash may fall in between. A synchronous SQLite transaction is one step.
An action is named for its function, or for the moment of the function it covers
(`SnapshotRead`, `BindIssuance`). Definitions whose comment starts with
`Mutant:` are deliberately wrong forms of the definition below them; no
specification uses them, and `PROJECT.json` says which property each breaks.

### InviteDelivery

`line` is `serialQueue`'s chain (its head is the handler at work) and
`pc[d]` where delivery `d`'s handler stands: snapshot and tag read, renewal,
scope, minting, binding (`session_invites`), pending row, mailing, emailed mark,
the rest of the handler, processed mark. A checkout that names nobody ends where
the handler finds no address. `bound`, `emailed`, `row` and
`processed` are the store; `minted` and `records` are Wizarr's; `mails` is what
SMTP accepted. A handler may throw at any stage, the answer of `createInvite` or
of `sendInvite` may be lost after the call took effect, and the process may die,
which empties `line` and keeps every write. `mintDoubt`, `mailDoubt`, `excused`
and `sinceBan` are history: no action reads them.

### MemberAccess

`sub` and `invoices` are Stripe's; `owed` is the set of events Stripe has had no
200 for, taken in any order. A handler is `job`: its stage, what its snapshot
held and which of those record ids still exist (`valid`), and what it still has
to disable or stamp. A call on a record that is gone throws
(`CallOnGoneRecord`), and Stripe redelivers. `loop` is `reconcileOnce`, cut at
its fetches and at each stamp.

Abstractions, each a choice about data:
- `rec[s]` is none, grace (an expiry from before the checkout), unlimited or
  window (an expiry the payments set). Dates are not counted: a window lapses
  when nobody pays for it, or while the payment that would extend it is unhandled.
- `EmailMatches` says whether the person watches under the billing address. If
  not, only the invite stored against the customer leads to their records.
- The tag sits on one address. That every address of a person carries the same
  tag decision is what `MemberLinks` is about.
- A disabled or expired record leaves Wizarr's list. That is Wizarr's behaviour,
  taken from how the code treats it.
- The tier paid for resolves to a scope. A scope problem aborts the handler and
  alerts: an outage, as far as this module goes.

### Identity and MemberLinks

A snapshot holds Wizarr's users, who redeemed which invite, the stated links and
the invite on each customer row. `identityFor` answers by address, then by link,
then by invite, and collects addresses with one step along the links each way.
`MemberLinks` reaches snapshots by any history of links, unlinks, invites,
redemptions under any account, and lost records. A record has an address, a name,
both or neither.

### TierScope and BaselineInvites

A library is an id on a server, enabled or not in Wizarr, checkable when Wizarr
knows its section id; its name is a title behind no prefix, an ordering one or
the private one. A name comes with a list, and there are two: `plex`, which
renames change, and `cache`, Wizarr's, which follows only when an operator
rescans. plex.tv answers for any set of the servers or not at all
(`liveSectionsOrNone`): a library of a server it leaves out is `Unanswered`, which
is not stale. The tier rules are `TIER_RULES`; the folding of prefixes and case is
done by the choice of names.

`BaselineInvites` is one night after another. `night` is where the rotation
stands: the list read, the tiers left to mint, the rows left to reap against the
invitations listed. An invite is known by its tier and its age in nights, as a
tier gets one a night at most. `createInvite` may fail with the invite made,
which leaves one that no row knows; `deleteInvitation` may fail with the invite
gone; the process may die at any await, or be down at the hour. Nights are a day
apart, and whether an invite of exactly `ExpiresDays` has expired when the
rotation looks is open, the same minute deciding it. `sound` is history. That an
unowned invite vanishes on its expiry abstracts one nobody can use any more.

### Incidents

A round stamps the clock and owes two jobs, the host's check and its docker
endpoint's; each commits one session (`Session`: every check folded into its
streak, incidents opened or closed, absent containers retired) or observes
nothing. The clock may step back. `log` and `sinceBack` are history.

### PlexHistory and PlexInventory

A history pass (`BeginPass`, `KeepPlays`) reads from `cursor - Overlap`, one page per
session, each committing its plays and its newest `viewedAt` together. The
server's ledger only grows, and a play may arrive up to `Late` ticks after it
was viewed. `BeginPass` reads the cursor at the moment the pass stamps itself; the
request that lies between them in the code takes less than a tick.

An inventory pages section after section with its round's stamp, then retires
the rows with an older one. Stamps are renumbered when a round begins, keeping
their order, so four are enough. Enrichment asks for a batch of the played items
without a row, and for each alone when the batch stalls.

`PlexPages` is `pageAll` and the row guards over every listing of three rows a
server might send, each with fields left out or garbled (`Junk`); `PlexLedger`
takes the marks an inventory leaves (`excludedSections`), the purge and the plays
a pass drops, over rules that change at a restart and rounds by hand.

### Roster, AdminActions, AdminBilling, CustomerMap

`Roster` gives no actions: `roster` is `assembleMembers` over the snapshot that
`MemberLinks` has reached, and `getMember` over the same, so the page and the list
are compared on every one. A record without address and name makes no entry of its
own (`localAccounts`). `AdminActions` holds a few requests, each with its
stage and the ids its snapshot held; `source`, `standing`, `allowed` and `passed`
are history, and say which links a ban could not have known of. `AdminBilling` is
`flagSubscriptions`: addresses, customers, subscriptions, one call a step, each of
which may fail, while checkouts go on and Stripe ends what it ends. `CustomerMap`
keeps the rows in `rowid` order; an address is a mailbox and a
spelling, compared as `lower()` compares them.

### UpstreamSnapshot, DriftAlarms, LibraryAccess

A sweep of `UpstreamSnapshot` reads each list at a moment of its own, and stores
them together; versions stand for content. `DriftAlarms` moves Plex's list and
Wizarr's cached one (`FirstList`, `OtherLists`), takes plex.tv away and brings it
back, restarts the bridge, and counts what was mailed since a check was last
quiet. `LibraryAccess` reads both lists for every share Plex could give.

### IncomeBooks, MemberPage, SessionCache

`IncomeBooks` writes the log as the bridge does (signup, restored access, tier
reset, cancellation, ban, payments) and keeps beside it what each member paid when
each month ended; the page's operators read only the log and the members list.
`untold` marks a member the log has not told everything of, which `BooksBalance`
does not speak of; a run does not follow them further (`StoriesTold`).
`MemberPage` has two cached queries of one row, calls of four kinds with their
optimistic values and put-backs, and the fetches that land among them.
`SessionCache` has the memory, the storage, and the copies that throttled writers
still hold, each known by its writer's generation.

### CollectorTasks, Transport, Probes

`CollectorTasks` is the process: the vitals loop with its phases, the prune
threads by the round that began them, the other loop, the signal and main's exit.
`Transport` races a run or a request with its deadline. `Probes` takes three
machines, lets a script's output lose sections, rows or tokens, and keeps what the
collector keeps; a file is its rows, a row its number tokens. Of the containers a
listing lacks, `retireAbsent` forgets those with an open incident, and which those
are is `Incidents`' to say: any are.

### FleetViews, SeriesViews, PlayViews

What the pages compute, held against history the store does not have: when each
family was really read (`quiet`, `idle`), what the machine really did (`log`),
which rows mark the end of one viewing (`Viewing`). A row of `FleetViews` carries a
level where a line is drawn at it: the disk is over its share or not, the load is
as many cores as it would fill, and a host's cores are those the page still sees.
`PlayViews` runs over every
ledger six rows can make with their items described, stubbed, retired or purged.

## 3. What is checked

| run | instance | shows |
| --- | --- | --- |
| `invite_delivery` | one payer, a checkout, an invoice and a checkout that names nobody, two open requests, one fault | one link per operation; redeliveries add nothing that a cut-off run does not account for; nothing settled unserved; at most one link after a ban; every event settles; the whole implements `InviteOnce` |
| `member_access` | two customers, one server, one renewal each, one fault | through any order of subscribe, renew, fail, recover, cancel and retire, who pays keeps a way in, and reads as paying |
| `member_access_loop` | one customer, the loop, a tag, one fault | the sweep leaves a VIP alone, settles the dunning flag and boxes unlimited records |
| `baseline_invites` | bronze and youth, two libraries on two servers, three names, two renames, one fault, two days (the default) | a tier keeps an owned, unexpired invite while a sound night's lasts; every row is reaped in time; orphans only from faults; of what plex.tv answered for, no sound row is reported and no alarm means exact scopes |
| `bridge` | nine parts: three addresses; two requests; three plans of three customers; two feeds; two lists of three libraries, one of which takes another's name, moving apart; two payers with two spellings; one income story; two calls; two accounts | the eleven properties of the admin side and the portal, below |
| `incidents` | host, docker, one container, five rounds, one step back | incidents are what the checks say; uptime only over watched windows; outages add up |
| `plex` | history: three plays, pages of one, two passes. Inventory: two sections, a stalling item, one round by hand. Pages: every listing of three rows. Ledger: two rules, two plays | nothing is left behind the cursor; a listing is paged whole; passes are exact and obey the rule; every play and every item arrives in the end |
| `monitor` | six parts: two probes and seven ticks; four runs or requests; three machines, one damaged output; two cores, a load and a disk, one step back; four readings; six plays and four queries | the grid and the exit; what is read, told, charted and counted |
| `checkout_retry_lockout`, `sweep_overwrites_expiry`, `container_returns`, `income_loses_payer` | end in a violation | see [section 5](#5-what-the-models-disagree-with) |

Properties of `bridge`: `HeldRecordsAreThePersons` and `RosterIsTrue` (members),
`BanHolds` (requests side by side), `BillingIsTrue`, `PageSettles` (snapshot, with
fairness), `OneMailPerStanding` and `LibrariesAreTold` (the two lists),
`NoStalePlaceholder`, `BooksBalance`, `PageIsHonest`, `SignedOutIsGone`. A name
defined as a conjunction (`RosterIsTrue`, `MachinesAreRead`, `PassesAreExact`,
`EverythingArrives`, `PlaysAddUp`, `FleetIsTold`, `ChartsAreTrue`,
`RedeliveriesAddNothing`, `OutagesAddUp`) is one promise in several parts; each
part has its own comment where it is defined.

**Why the bounds are enough.** Two requests make the queue's order matter, and a
redelivery needs only one event. One fault makes a retry; in `MemberAccess` the
retry then meets every change of the world. Two customers are what a duplicate and
its sibling are; their third would be one more of either. Three addresses are the
shortest chain a link could form. Two admin requests are a ban and what it races.
Three plans put one subscription at each of: found, added meanwhile, another
address. Four rows of log hold a signup, a move, a loss and a return, over three
months. Four rounds at threshold two are the shortest outage that opens and closes, and a
fifth sees another open after it.
Overlap two and lateness one leave a pass exactly one tick, the tightest the
assumption allows; bronze and youth break for different reasons, so one can be
broken while the other is not, and two renames break and heal a tier or break
both; pages of one put a commit between any two plays. Two sections show one
failing beside one that does not. Seven ticks at an interval of two hold a round
that overruns two others. Six plays are a viewing marked twice, a rewatch, the
same film elsewhere, an episode and an excluded track. Every counter that bounds a
run (`MaxFaults`, `MaxFailures`, `MaxInvoices`, `MaxBacklog`, `MaxTags`, `MaxLinks`,
`MaxBillingFailures`, `MaxVersion`, `MaxFetchFailures`, `MaxOutages`, `MaxInvites`,
`MaxRowids`, `MaxRows`, `MaxMonth`, `MaxCalls`, `MaxLosses`, `MaxGeneration`, `MaxTime`,
`MaxRounds`, `MaxBack`, `MaxPlays`, `MaxStops`, `MaxChanges`, `MaxByHand`,
`MaxRenames`, `MaxLedger`, `MaxUpsets`, `MaxAsked`, `MaxRound`, `MaxDamage`,
`MaxNow`, `MaxSetBack`, `MaxTicks`) is named and guards the action it counts.

**Constraints** leave out what the unguarded bounds would repeat. `Upsets`
(`member_access`): the renewals of both customers, or of one beside a fault, and not
all three; `member_access_loop`, with one customer, has no such limit. `HostIsSteady`
(`incidents`): the checks of the host come out as its first one did, while the
endpoint's vary; both follow the same streak rules and neither reads the other's rows.
`SteppedBackOnce`: once the clock was set back it is not followed to its bound
again. `LastReopens`: the fifth round begins only where an incident has closed.
`MintedInOrder` (`invite_delivery`): the codes are minted in the order of their names;
every behaviour is such a one but for what its codes are called, and fairness, which
says nothing of which code is minted, is not cut short by it. `StoriesTold` and a charted log whose first round is not a reboot leave out
histories no property speaks of. The theorems of section 4 have none of these.

**Symmetry** is used for the two customers of `member_access` and for the two
libraries of `baseline_invites`, each with its server; neither run has a liveness
property.

**Deadlock** is checked except where the system really stops: `member_access`
(every customer's subscription may be over and every invoice spent), its lockout
run, the two incident runs (the rounds and the clock are bounded), and the runs in
parts, some of which end (a process that has exited, requests answered, a clock or
a log at its bound).

**Fairness**, and why the code justifies it:
- `InviteDelivery`: weak fairness of each handler's steps, since a promise
  settles; strong fairness of redelivering an event that is not marked, since
  Stripe retries an unanswered event but finds the bridge free only again and
  again. No fault, member or admin is forced.
- `MemberAccess`: weak fairness of handling (the same) and of the loop, whose
  timer is set again whenever a pass settles (`loops.ts:67`).
- `UpstreamSnapshot` (in `MCBridge`): weak fairness of the loop's refresh, of each
  list's answer and of storing what was read. Failures are bounded; visitors and
  admin actions owe nothing.
- `PlexHistory`: weak fairness of the loop's pass. The pass by hand owes nothing.
- `PlexInventory`: weak fairness of the loop's round, and strong fairness of a
  round that takes the inventory, which `PLEX_LIBRARY_INTERVAL` brings again and
  again. The round by hand owes nothing.

**Carve-outs** a reader should know:
- `VipLeftAlone` speaks of a VIP tag set while no handler and no sweep was
  running: one that is past its read of the tag cannot see it.
- `UnlimitedIsBoxed` is checked for one customer under the billing address. With
  several, the sweep goes by the newest row and can miss a record held under
  another address (`reconcile.ts:57`).
- `PaidMemberHasAWayIn` is checked with records on covered servers only in the
  passing runs. With a record on a server the tier leaves out it fails: section 5.
- `NothingLeftBehind`, `PassesAreExact` and `EverythingArrives` rest on
  `Late <= Overlap` and on a pass being over within `Overlap - Late`.
- `OfferedUntilExpiry` counts from the last night a tier was whole and its minting
  met no fault. A tier broken for longer than `baselineExpiresDays` has no invite.
- `ScopeCheckIsExact` speaks of the libraries plex.tv vouches for: those Wizarr
  lists, with a section id, on a server in plex.tv's answer. Of a new section nobody
  scanned yet, of a library without a section id, of a server the answer leaves out
  (`tiers.ts:281`) and of all of them while plex.tv cannot be reached (`sweeps.ts:143`:
  "reported as healthy") the checks' silence says nothing, although a scope may be
  stale there. Enabled libraries only: another is in no scope.
- `PassesAreExact` excepts inventories that an item left the library during, and
  those with another round beside them; `EverythingArrives` shows both are repaired.
- `BanHolds` lets through a link that was out before the ban and a reissue past its
  check; `BillingIsTrue` a subscription added while the others were flagged.
- `BooksBalance` speaks of a member whose whole story is in the log; what puts a
  member among `untold` is listed where the module does so, each with its line.
- `PageIsHonest` excepts downloads toggled again before the answer, a tag call whose
  answer was lost, and a fetch that was out while its query was marked.
- `LibrariesAreTold` excepts the libraries the cache check would name, those
  without a section id, which it cannot check, and those of a server that share
  their name with another one there, as a name is all that the page compares.
- `OutagesAddUp` counts downtime only while the clock does not go back.
- `SilenceIsSaid` (in `FleetIsTold`) gives the page the ticks the clock was set back
  by: for that long a silence may go unmarked, since the rows say no better.
- `ListedAsHandled` (in `RosterIsTrue`) speaks of snapshots whose links agree
  (`linksAgree`); `EveryoneIsListed` of records with an address or a name.

## 4. What is proved

TLAPS proves these for every value of the constants that satisfies the named
`ASSUME` of the module.

**`InviteDelivery_proofs`** (assumes `ShapeAssumption`). `TypeCorrect`,
`OneLink` (`OneLinkPerOperation`), `Served` (`SettledMeansServed`) and
`Implements` (`ImplementsInviteOnce`) all follow from one inductive invariant,
`IInv`. What goes out is decided many steps before it does, so the
property alone is not inductive: `QueueInv` says that only the head of the line
is past waiting, so no two handlers are at work; `IssuanceInv` that a mailed
operation is bound and that codes of different operations differ; `StageInv`
what each stage knows (while minting the operation is unbound, while binding the
code is minted and nobody's, from then on the code held is the bound one, after
the mail it went out). There is one lemma per action. The refinement maps
binding to `Issue`, SMTP's acceptance to `Send`, a decision that no link is due
to `Excuse`, the mark to `SettleEvent`, and every other step to a stutter.
`NothingAdded` (`RedeliveriesAddNothing`) and `BannedOnce`
(`AtMostOneLinkAfterBan`) need a second invariant beside it, `AInv`, which counts:
the mails of an operation are the marked one, one being marked and those in doubt
(`MailCount`); the codes nothing records are those in doubt and those about to be
recorded (`OrphanCount`, on finite sets and their cardinalities); a run that mails
has its payer's row under the link it mails (`Listing`); and once
a banned member has been sent a link, no run of theirs is past its read of the tag
(`BanClock`).

**`MemberAccess_proofs`** (assumes `AccessAssumption`). `VipSpared`
(`VipLeftAlone`, an action property) follows `grant`, the tag set while nothing
ran: whatever a handler or a sweep read since says VIP (`Granted`). `PayerIsSubscribed`
(`PayerReadsAsPaying`) rests on `Paying`: as long as no tag was ever
set, a member with a live subscription has a newest row that reads as subscribed,
or a renewal that would make it so is still owed or in hand. `Known` says which
customers Stripe has events for, and that one whose deletion is owed is gone for
good (`Terminal`). `TypeCorrect` is the type invariant.

**`Incidents_proofs`** (assumes `IncidentsAssumption`). A session treats each
target in one of three ways (`SessionEffect`): checked, retired or untouched. On
that, `TypeCorrect`; `Observed` (`UptimeIsObserved`) from an invariant that the
log from the streak's `since` on is unbroken and ends at its `last`; and
`HistoryDecides` (`IncidentsMatchHistory`) from an invariant that the streak's
counters are the lengths of the log's final runs and that the incident is open
exactly when the log confirms the target down. The clock needs no assumption: a
step back is a gap. `OutagesSum` (`OutagesAddUp`) is about a fold over the
incidents, which no definition by cases can reach: `Ledger` says that they are in
order and apart and that the downtime kept beside them is their sum, a lemma on
`FoldLeft` over an appended or replaced last element doing the rest, and
`OpenSince` since when each has been open. The induction over naturals it needs
is `WFMin`, the least counterexample, as the library's induction theorems take
an operator. `ListingsClose` (`ClosedByListings`) is an action property of one
session.

**`BaselineInvites_proofs`** (assumes `ScopeAssumption`, `BaselineAssumption`).
`Offered` (`OfferedUntilExpiry`) needs to know which invite it is:
`OfferInv` says that a tier sound `n` nights ago still has the one aged `n`. It is
kept while minting because a tier that is whole on the list read is never among
the broken, whatever plex.tv answers (`WholeIsScoped`), so it is still to be
minted or has been (`NightInv`); and while reaping because what is due is at
least `ExpiresDays` old. `Reaped` (`ReapedInTime`) rests on `RowAge`, which
follows a row's age through the night: before the rotation, before it is judged,
after. `Exact` (`ScopeCheckIsExact`) takes any list and any servers missing from
plex.tv's answer, and compares the tier rules as written with the promise as stated,
library by library, among those the answer vouches for. `TypeCorrect` needs `RowAge`, as the type
bounds the ages. `OrphansCounted` (`OrphansComeFromFaults`) counts the invites no
row knows (`UnownedCount`): a fault makes one, and nothing else does.

**`Bridge_proofs`** holds a section for each part of `MCBridge` it reaches, and
`BridgeHolds` puts them side by side.
- `MemberLinks` and `Roster` (assume `IdentityAssumption`): `Stars` (links form
  stars) is inductive with the type invariant, as `linkAddress` refuses any link
  that would continue one. From it, with no induction left, `OnePerson` (the store
  answers one person for all their addresses): every address has one owner, the
  owner owns itself, so one step along the links in each direction gathers the
  owner's whole star whichever address it starts at. `HeldAreOwn`
  (`HeldRecordsAreThePersons`) follows by the three kinds of evidence, and
  `MembersAreListed` (`RosterIsTrue`) compares the list with the page: a record is
  in the list under an address exactly when `identityFor` gives it to that address,
  and a person without an address is in it by their record. `TypeCorrect` is the
  type invariant.
- `DriftAlarms`: `MailedOnce` (`OneMailPerStanding`). `Alarmed` adds that the set
  remembered is the set last found, whichever sweep found it.
- `LibraryAccess` (assumes `AccessAssumption`): `LibrariesAreTold` holds of every
  two lists and every share, with no induction; the proof is inside
  `BridgeHolds`. The attempt found an exception the property did not name: two
  libraries of a server with one name, one of them granted. It is now written in
  the property, and the instance has such a pair.
- `AdminBilling` (assumes `BillingAssumption`): `BillingTold` (`BillingIsTrue`).
  `Swept` follows a customer through the calls: found, listed, and each of their
  subscriptions then set to end, in hand, begun since or ended; `OneAtATime` keeps
  two requests' tallies apart; `Unfailing` says that an answer which claims
  something was given with nothing failed.
- `AdminActions` (assumes `AdminAssumption`): `BanStands` (`BanHolds`). `BansStand`
  ties a standing ban to the tag; `Covered` says that while the tag is set every
  link there is is one the ban is allowed to miss, because a reissue must have
  passed its check before (`passed`); `Sourced` and `Cleared` that a record left is
  either through such a link or in the ban's own list.
- `CustomerMap` (assumes `CustomerAssumption`): `CustomersAnswer`
  (`NoStalePlaceholder`). `Placed` is what the table is between two writes: one row
  a key, a placeholder keyed by its own address, no placeholder beside a customer
  of the same address (`Apart`). Each upsert is shown to keep it by what it
  deletes before it writes.

**`Portal_proofs`** (assumes `SessionAssumption`, `PageAssumption`). `SignedOut`
(`SignedOutIsGone`) is not inductive: what is in memory and in the storage got
there from a fetch that was out and from copies that waited. `KeptOwn` holds those
to the account too: a fetch is the account's, and so is each copy of the writer in
use, while a copy of an earlier writer may be anybody's because it will not be
stored. That no writer is ahead of the generation is what lets a clearing make all
of them earlier ones (`ClearKeeps`). `SessionTyped` is the type invariant. `PageHonest`
(`PageIsHonest`) speaks of the moment all is answered, and what the page then
holds was decided by calls and fetches that overlapped: `Settled` says that a field
no optimistic call is out for is the bridge's, in every cache not marked and every
fetch that has read it; `Reloading` that a marked open page is being fetched or a
call will ask for it; `Alone` and `Backed` that what a call would put back is the
bridge's as long as calls for the field never overlapped; `Had` and `Shown` that
what is shown was once the bridge's, or a call is out which puts such a value back.

**`Monitor_proofs`** has a section for four of the parts of `MCMonitor`, and
`MonitorHolds` puts them side by side: a step of one leaves the others' variables
alone.

`CollectorTasks` (assumes `TasksAssumption`): `GridKept` (`OnTheGrid`)
follows `due` through a round: it is the round's own multiple of the interval from
its beginning to its end and the next one's while asleep, and as a sleep that is
over ends before the clock moves, a round that begins late begins where the one
before it ended (`Grid`). `ExitIsSafe` (`NoExitInsideSqlite`) needs only `Joined`:
once main waits, the signal is up, so no loop begins another prune, and every
thread there is was in the set main waits for. `TasksTyped` is the type invariant.

`Transport` (assumes `TransportAssumption`): `AsksAreTold` (`ResultsAreTold`).
`Raced` and `Fetched` say, stage by stage, what the race has come to: a run is
told as late only when its deadline came first, an answer is told as good only
when it came before any deadline with a status and a body that are.

`Probes` (assumes `ProbesAssumption`): `ProbesTold` (`ProbesTellTheTruth`). Its
first half is about the parsers alone. `Lessens` relates a damaged text to the
whole one: as many rows, the same heads, each token kept, spoilt or cut off with
the rest of its row. Every parser is monotonic in it (one lemma each:
`StatLessens` to `InotifyLessens`), so what is printed is a subset of the host's
readings (`SamplesAreHosts`), however often a line is torn. inotify's parser is
monotonic only because its script prints a key once, as the last good row of a key
wins; the assumption says so. The second half is the invariant `ProbesInv`: a
container's three gauges come from one listing (`ContainersRead`), which a later
listing replaces whole or not at all; the host's check is of an earlier round
while this round's vitals are to come, and a good one left a reading that neither
the slow tier nor the containers can overwrite (`HostChecked`).

`FleetViews` (assumes `FleetAssumption`: the ages the page judges by are within
what is retained, as three vitals intervals and a day are
within a week): `FleetTold`
(`FleetIsTold`). However often the clock is set back, a family's newest stamp is
between the moment it was really read and that moment moved on by the ticks the
clock lost, and so is the heartbeat of the last round (`Timed`). `FreshestIs` and
`StalestIs` say what the two extremes of the page's fold are (over `Least` and
`Greatest`, proved once), `HeardIs` and `AheadIs` when a family can be dated and
when all that is dated lies ahead, and `WhatIsSilent` draws the mark from them. What
is shown and what warns needs the types alone (`WhatIsShown`).

**`Plex_proofs`** (assumes `HistoryAssumption`, `InventoryAssumption`,
`LedgerAssumption`, `PagesAssumption`) has a section for each part of `MCPlex`. It
begins with paging itself. A listing in a total order is paged by rank, a row's rank
being how many rows come before it; ranks are distinct (`RanksAreDistinct`), so a page of as
many rows as are left holds a row of every rank in its range, by counting an
injection between finite sets (`PagesLeaveNoGap`). For the history the order is by
time and then by place, and a play that arrives while it is paged only moves later
ranks up (`PlacesGrow`).
- `PlexHistory`: `NothingLeft` (`NothingLeftBehind`), and the part of `PassesExact`
  (`PassesAreExact`) about the history (`SyncIsComplete`). A pass moves the cursor over plays it never saw, so the
  property needs five facts of each pass under way (`PassInv`): it has not lasted
  longer than `Overlap - Late` (`InTime`); what it has paged past is stored, of
  what was there when it began (`KeptSoFar`); what it does not ask for is stored or
  behind the first backfill (`NoneBefore`); what came in since was viewed no longer
  ago than `Late` before it began (`NewOnesAreRecent`); and what it counts as there
  was there (`HeldIsThere`). When it commits a page, a play left behind the new
  cursor is of one of these kinds, or on a later page and so no older than the
  newest on this one. `HistoryIsTyped` is the type invariant.
- `PlexInventory`: `CleanRunIsExact`, another part of it. `AloneInv` follows a round that
  pages with no other beside it: every item it has paged past has its stamp
  (`PassedAreSeen`), whatever is added meanwhile and until one is removed, and an
  item with its stamp is on the server (`SeenAreThere`). What it retires at the end
  is then what the server no longer has.
- `PlexLedger`: `RuleKept` (`LedgerKeepsRule`), the third. `PassObeys` says of a pass that is
  alone that what it has read is stored but for what its marks exclude
  (`ReadIsStored`), and that what it added names no excluded library
  (`AddedIsKept`). The purge's half needs only the types: it goes by what it marks.
- `PlexPages`: `PagingIsWhole` (`PagedWhole`). The invariant is short (`PagesInv`:
  what is kept is what the rows up to `offset` parse to, and a pager that ended is at
  the listing's end); what it takes is that parsing page by page is parsing at once
  (`ParsingInPages`). `parseItems` and `parseHistory` are folds, and the library's
  fold is a `CHOOSE` of a function over sets of places. Such a function exists
  (`JoinsExist`) and is unique as far as its parts agree (`JoinsAgree`), each by a
  least counterexample among the naturals (`LeastNatural`), which needs no induction
  theorem; the joined parts are then shown to grow by a page at a time
  (`JoinedInPages`). `BestMediaIsBest` follows `bestMedia`'s fold the same way.

**Only model-checked**: liveness (`EveryEventSettles`, `DunningFlagSettles`,
`UnlimitedIsBoxed`, `EverythingArrives`, `PageSettles`), as TLAPS
has no rules for fairness and `ENABLED` here; `PaidMemberHasAWayIn`, which holds of
the passing instances and not of every one, as section 5 shows; and
`BooksBalance`, `ChartsAreTrue` and `PlaysAddUp`, which compare filtered, sorted and
summed sequences with their definitions: the facts about `SelectSeq` and `SortSeq`
that a proof would rest on are inductions over their recursive definitions.

## 5. What the models disagree with

Four runs end in a counterexample, each to a sentence of the repository:

- `checkout_retry_lockout`: `resetExistingRecords` (`webhook/handlers.ts:226`)
  runs on every delivery of a checkout from a fresh snapshot. A retry that comes
  after the link was redeemed disables the new records along with one on a
  server the tier leaves out, and mails nothing, the link being marked emailed.
  The member pays and has no way in. `tiers.ts:373` promises only a gap until
  the invite is redeemed.
- `sweep_overwrites_expiry`: the sweep stamps, one await after another, records
  it read as unstamped; a renewal may have stamped them meanwhile.
  `reconcile.ts:32`: "Records that already carry an expiry are never touched".
- `container_returns`: `retireAbsent` (`incidents.ts:304`) drops the streak only
  of targets with an open incident. A container that failed once and was then
  missing comes back one check from an incident.
- `income_loses_payer`: a member from before the log whose card fails once is put
  into the states the log is replayed to, as one who does not pay, and so is left out
  of the early members of every later month (`lib/income.ts:387`), though they pay.
  `lib/income.ts:421`: "A member the log never saw sign up counts from the date they
  were invited"

Met while modelling, without a run of their own. Of the bridge:

- a member banned while a link is being mailed keeps that link
  (`AtMostOneLinkAfterBan` bounds it to one);
- an invoice handled after its subscription's deletion sets the subscribed flag
  again (`webhook/handlers.ts:433`); a sibling in dunning does not count as live
  when a duplicate dies (`webhook/handlers.ts:554`); a retry that succeeds between
  listing and cancelling is cancelled (`duplicates.ts:47`);
- stated links chained with implied ones (`identity.ts:118`) can give two addresses
  of one person different answers, and the roster lists a record twice where stated
  and implied links disagree;
- with checkouts of two customers alternating at one address, the row that answers
  is the one inserted last, not that of the newest checkout
  (`store/customers.ts:25`), and a pending invite is written on one row only;
- `honoredExpiryDays` snaps the baseline's two days to seven; `baseline.ts:122` says
  one broken tier "can never empty the baseline set", which holds of the other
  tiers, but a tier broken for longer than `baselineExpiresDays` is left without one;
- a stored customer hides unmapped Stripe customers of the same address from
  `flagSubscriptions`; a cancellation with no snapshot yet covers stored links only;
- a record without address and name makes no entry of its own (`roster.ts:248`), and
  one that redeemed a payer's invite is missing from the members list altogether
  where another record holds the payer's own address;
- a reissue whose rescope fails midway leaves a minted link nobody was told of;
- an outage of plex.tv clears the tier alarm, so a standing problem mails again;
- `refreshAsync` during an older sweep starts none: the page is stale till the next.

Of the monitor:

- an outage open across a step back of the clock may be scored as up
  (`incidents.ts:383`); a malformed docker row makes its container absent from the
  listing, so its incident closes as removed;
- the cursor can move back while a pass pages through its overlap, which no play is
  lost by; a 200 without a page in it ends a listing as if complete;
- `retireUnseenItems` (`plays/ledger.ts:549`) goes by the stamp, and an upsert writes
  its own stamp over a newer one, so beside a round by hand the round with the later
  stamp retires items both of them listed, until the next inventory;
- a folder no longer excluded regains only the plays within the overlap; plays of an
  excluded library without a section on their row survive a purge that comes before
  their item's row (`plays/ledger.ts:370`); a history pass that ends well clears the
  error an inventory left;
- a failed prune ends the whole collector process;
- after the clock was set back, frozen fast readings beside an older slow family
  read as fresh until the clock has caught up (`fleet.ts:120` speaks of such rows as
  of unknown age, which holds only where no older family is left to speak for the host);
- `downsample` yields up to one point more than it is asked for; two ticks that both
  lack a CPU field pair as idle; never-played reads the plays as stored, marked
  twice or not.

Of the portal:

- a "Canceled" row of a duplicate's or a sibling's subscription counts the member as
  gone and drops them from past months; a renewal noted for a banned member makes
  their later cancellation a second loss; an early member who cancels vanishes from
  past months, and one who is reissued moves to the new `invited_at`;
- the downloads toggle stays open while its call is out, so two refused overlapping
  toggles can leave a rejected value on the list until it reloads; a fetch in flight
  when its query is marked lands stale and is taken for fresh
  (`lib/memberQueries.ts:105`);
- a late 401 of an earlier session signs the next one out; an account changed by
  another tab while this one is unloaded is not looked at;
- a server shared whole whose libraries plex.tv does not enumerate reads as shared
  on the member page and as empty on the list.

## 6. Not modelled

Left out because nothing in it is a decision a model could get wrong:

- **Rendering** (`pages/`, `components/`, `pages/Design`): components, form state,
  charts and styles. They show what the modules compute.
- **Wording**: mails, alerts, log lines, the detail of log rows beyond what
  `IncomeBooks` reads back out of it.
- **Parsing of requests and answers**, beyond the probes and the pages: schema
  guards, wire types, tokens and signatures are functions of one request.
- **Digits.** A number token of a probe's output is whole or spoilt: one cut in the
  middle of its digits, which parses as another number, is not modelled.
- **Order and search** on the play page, and `added_at`.
- **Migrations**, which run before anything else can.
- **Ops commands** (`ops/commands.ts`): one-shot calls of operations modelled
  where they belong.
- **Logging that fails**: `recordEvent` never throws, so a row of the log may be
  missing; the models write every row.

Taken as one step where the code has more: `restoreClient` and the hydration after
it; a Plex page's answer and the session that keeps it; a synchronous SQLite
transaction always.

What would come next, if the code grows that way: the type invariants of the
inventory and the ledger as theorems, and `PagesSpec` shown to implement the paging
by rank that `PlexHistory` and `PlexInventory` take as one step.

----------------------------- MODULE MCMonitor ------------------------------
(***************************************************************************)
(* The fleet monitor beside its incidents and its Plex passes, part by     *)
(* part: a behaviour is of one part from its start, so the parts' states   *)
(* add up and none multiplies another's.                                   *)
(***************************************************************************)
EXTENDS CollectorTasks, Transport, Probes, FleetViews, SeriesViews, PlayViews

VARIABLE part

\* The wire: a script ends well, fails by itself, or ssh fails, for a reason it names
\* or one it does not.
Ends(code, stderr) == [code |-> code, stderr |-> stderr]
MCExits == {Ends(0, "none"), Ends(1, "none"), Ends(255, "timed_out"), Ends(255, "banner")}

\* The probes: a machine with every file and containers of each kind, one of them
\* without a name; the same with some files changed, gone or empty; and one whose
\* script prints nothing.
File(head, fields) == [head |-> head, fields |-> fields]
MCFiles ==
  [stat |-> <<File("cpu", <<4, 0, 2, 9>>)>>,
   meminfo |-> <<File("MemTotal", <<16>>), File("Dirty", <<1>>)>>,
   netdev |-> <<File("eth0", <<7, 0, 0, 0, 0, 0, 0, 0, 5>>), File("tun", <<7, 0, 0, 0, 0, 0, 0, 0, 5>>)>>,
   loadavg |-> <<File("", <<1, 2, 3, 4, 5>>)>>, uptime |-> <<File("", <<88, 3>>)>>, gpu |-> <<File("", <<3, 6>>)>>,
   df |-> <<File("volume1", <<8, 6, 2, 75>>)>>, hwmon |-> <<File("coretemp", <<41>>)>>,
   inotify |-> <<File("max_user_instances", <<8>>), File("instances_in_use", <<4>>)>>]
MCOtherFiles ==
  [stat |-> <<File("cpu", <<5, 1, 2, 9>>)>>, netdev |-> <<File("eth0", <<9, 0, 0, 0, 0, 0, 0, 0, 6>>)>>, gpu |-> <<>>,
   inotify |-> <<File("max_user_instances", <<0>>), File("instances_in_use", <<4>>)>>]
Container(name, up, check) == [name |-> name, running |-> up, check |-> check]
MCMachines ==
  {[files |-> MCFiles,
    containers |-> {Container("plex", TRUE, "healthy"), Container("web", TRUE, "none"), Container("", TRUE, "none")}],
   [files |-> MCOtherFiles, containers |-> {Container("plex", FALSE, "healthy")}],
   [files |-> <<>>, containers |-> {Container("plex", TRUE, "unhealthy"), Container("web", TRUE, "none")}]}

\* The page: two cores, one of which may go, the load, and a disk of the slow tier.
MCFamily == ("cpu0" :> "cpu") @@ ("cpu1" :> "cpu") @@ ("load" :> "load") @@ ("disk" :> "disk")

\* The charts: a reading as it should be, an empty one, one out of range, one partial.
Reading(all, left, share, missing) == [total |-> all, free |-> left, ratio |-> share, missing |-> missing]
MCReadings ==
  {Reading(8, 3, 50, {}), Reading(0, 0, 150, {"user", "tun"}), Reading(8, 9, -5, {"idle", "eth"}),
   Reading(8, 5, 20, {"free", "user"})}

\* The play page: a film marked twice within a viewing and seen again later, the same
\* film on the other server in another quality, an episode without a title of its own,
\* and a track of an excluded library.
Row(host, id, k, kind, title, account, at) ==
  [host |-> host, id |-> id, key |-> k, kind |-> kind, title |-> title, account |-> account, at |-> at]
First == Row("h1", 1, 1, "movie", 5, 1, 10)
Again == Row("h1", 2, 1, "movie", 5, 1, 12)
Later == Row("h1", 3, 1, "movie", 5, 1, 16)
There == Row("h2", 1, 1, "movie", 5, 2, 12)
Show == Row("h1", 4, 2, "episode", 0, 1, 13)
Song == Row("h1", 5, 3, "track", 7, 2, 14)
MCRows == {First, Again, Later, There, Show, Song}
MCViewing == (First :> 1) @@ (Again :> 1) @@ (Later :> 2) @@ (There :> 3) @@ (Show :> 4) @@ (Song :> 5)
Item(kind, title, year, parent, group, quality, runtime) ==
  [kind |-> kind, title |-> title, year |-> year, parent |-> parent, group |-> group, quality |-> quality,
   runtime |-> runtime, present |-> TRUE]
At(host, k) == [host |-> host, key |-> k]
MCDescribed ==
  (At("h1", 1) :> Item("movie", 5, 2, 0, 0, "4k", 4)) @@ (At("h2", 1) :> Item("movie", 5, 2, 0, 0, "sd", 4))
    @@ (At("h1", 2) :> Item("episode", 6, 0, 8, 9, "1080p", 2)) @@ (At("h1", 4) :> Item("episode", 6, 0, 8, 9, "720p", 2))
    @@ (At("h1", 3) :> Item("track", 7, 0, 9, 3, None, 1))
Query(days, host, kind, quality) == [days |-> days, host |-> host, kind |-> kind, quality |-> quality]
MCQueries ==
  {Query(0, None, None, None), Query(6, "h1", "movie", "4k"), Query(4, None, None, "other"),
   Query(0, "typo", None, None)}
MCExcludedItems == {At("h1", 3)}
MCHosts == <<"h1", "h2">>

---------------------------------------------------------------------------

Parts == {"tasks", "transport", "probes", "fleet", "series", "plays"}

MonitorInit ==
  /\ part \in Parts
  /\ TasksInit /\ TransportInit /\ ProbesInit /\ FleetInit /\ SeriesInit
  /\ PlaysInit

onPage == <<fleetVars, seriesVars, playVars>>
onWire == <<transportVars, probeVars>>

MonitorNext ==
  /\ UNCHANGED part
  /\ \/ /\ part = "tasks" /\ TasksNext
        /\ UNCHANGED <<onWire, onPage>>
     \/ /\ part = "transport" /\ TransportNext
        /\ UNCHANGED <<tasksVars, probeVars, onPage>>
     \/ /\ part = "probes" /\ ProbesNext
        /\ UNCHANGED <<tasksVars, transportVars, onPage>>
     \/ /\ part = "fleet" /\ FleetNext
        /\ UNCHANGED <<tasksVars, onWire, seriesVars, playVars>>
     \/ /\ part = "series" /\ SeriesNext
        /\ UNCHANGED <<tasksVars, onWire, fleetVars, playVars>>
     \/ /\ part = "plays" /\ PlaysNext
        /\ UNCHANGED <<tasksVars, onWire, fleetVars, seriesVars>>

monitorVars == <<part, tasksVars, onWire, onPage>>

MonitorSpec == MonitorInit /\ [][MonitorNext]_monitorVars

\* What is known of a machine is what it said: an ssh or http call is told once, with
\* what came of it, and a script's output, garbled or cut at any line, is read for
\* exactly the facts it still carries.
MachinesAreRead == ResultsAreTold /\ ProbesTellTheTruth

\* Every part's state is well-typed.
MonitorTypeOK ==
  /\ TasksTypeOK /\ TransportTypeOK /\ ProbesTypeOK 
  /\ FleetTypeOK /\ SeriesTypeOK /\ PlaysTypeOK
=============================================================================

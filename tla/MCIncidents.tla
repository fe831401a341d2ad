---------------------------- MODULE MCIncidents -----------------------------
(***************************************************************************)
(* One host, its docker endpoint, and one container.                       *)
(***************************************************************************)
EXTENDS Incidents

\* Host and endpoint are checked alike and neither reads the other's rows: it is enough
\* that the endpoint's checks vary.
HostIsSteady == \A i \in 1..Len(log[Host]) : log[Host][i].mark = log[Host][1].mark

\* A clock that stepped back is not followed to its bound again.
SteppedBackOnce == back > 0 => clock < MaxTime

\* The last round is for an incident that follows another: it begins only where one
\* has closed.
LastReopens == rounds = MaxRounds => \E t \in Targets : outages[t] # <<>> /\ ~isOpen(t)
=============================================================================

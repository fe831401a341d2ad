SPECIFICATION Spec
CONSTANTS
  Host = Host
  Docker = Docker
  Containers = {k1}
  Threshold = 2
  Gap = 1
  MaxTime = 2
  MaxRounds = 5
  MaxBack = 1
  None = None
CONSTRAINTS
  HostIsSteady
  SteppedBackOnce
  LastReopens
INVARIANTS
  IncidentsMatchHistory
  UptimeIsObserved
  OutagesAddUp
PROPERTY ClosedByListings
CHECK_DEADLOCK FALSE

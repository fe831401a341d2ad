SPECIFICATION MonitorSpec
CONSTANTS
  Jobs = {j1, j2}
  Interval = 2
  SlowEvery = 2
  MaxTime = 7
  Exits <- MCExits
  Statuses = {200, 302, 500}
  MaxAsked = 4
  Machines <- MCMachines
  Reasons = {"spawn_error", "timeout"}
  MaxRound = 2
  MaxDamage = 1
  Metrics = {"cpu0", "cpu1", "load", "disk"}
  MetricFamily <- MCFamily
  SlowMetrics = {"disk"}
  DiskMetric = "disk"
  LoadMetric = "load"
  CoreMetrics = {"cpu0", "cpu1"}
  DiskLevels = {0, 1}
  LoadLevels = {1}
  Mortal = {"cpu1"}
  StaleAfter = 0
  MetricsStaleAfter = 0
  Window = 1
  Retention = 2
  MaxNow = 3
  MaxSetBack = 1
  NoTime = NoTime
  MaxPoints = 2
  MaxTicks = 3
  Gaps = {1, 2}
  Readings <- MCReadings
  LogRows <- MCRows
  Viewing <- MCViewing
  Described <- MCDescribed
  ExcludedItems <- MCExcludedItems
  FleetHosts <- MCHosts
  AskedQueries <- MCQueries
  DayMax = 2
  WeekMax = 5
  Week = 2
  Month = 4
  PlaysPage = 2
  TopCount = 2
  PlaysNow = 17
  None = None
INVARIANTS
  OnTheGrid
  NoExitInsideSqlite
  MachinesAreRead
  FleetIsTold
  ChartsAreTrue
  PlaysAddUp
CHECK_DEADLOCK FALSE

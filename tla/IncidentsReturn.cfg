SPECIFICATION Spec
CONSTANTS
  Host = Host
  Docker = Docker
  Containers = {k1}
  Threshold = 2
  Gap = 2
  MaxTime = 4
  MaxRounds = 4
  MaxBack = 0
  None = None
PROPERTY ReturnsClean
CHECK_DEADLOCK FALSE

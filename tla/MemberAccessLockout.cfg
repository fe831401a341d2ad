SPECIFICATION Spec
CONSTANTS
  Customers = {c1}
  Servers = {s1, s2}
  Covered = {s1}
  Before = {s1, s2}
  EmailMatches = TRUE
  Reconciles = FALSE
  MaxInvoices = 0
  MaxBacklog = 2
  MaxTags = 0
  MaxFaults = 1
  None = None
INVARIANT PaidMemberHasAWayIn
CHECK_DEADLOCK FALSE

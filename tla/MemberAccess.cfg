SPECIFICATION Spec
CONSTANTS
  Customers = {c1, c2}
  Servers = {s1}
  Covered = {s1}
  Before = {}
  EmailMatches = TRUE
  Reconciles = FALSE
  MaxInvoices = 1
  MaxBacklog = 3
  MaxTags = 0
  MaxFaults = 1
  None = None
CONSTRAINT Upsets
SYMMETRY MCSymmetry
INVARIANTS
  PaidMemberHasAWayIn
  PayerReadsAsPaying
CHECK_DEADLOCK FALSE

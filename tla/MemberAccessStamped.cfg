SPECIFICATION Spec
CONSTANTS
  Customers = {c1}
  Servers = {s1}
  Covered = {s1}
  Before = {}
  EmailMatches = TRUE
  Reconciles = TRUE
  MaxInvoices = 1
  MaxBacklog = 2
  MaxTags = 0
  MaxFaults = 0
  None = None
PROPERTY SweepKeepsExpiries

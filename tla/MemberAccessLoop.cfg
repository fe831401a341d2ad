SPECIFICATION FairSpec
CONSTANTS
  Customers = {c1}
  Servers = {s1}
  Covered = {s1}
  Before = {}
  EmailMatches = TRUE
  Reconciles = TRUE
  MaxInvoices = 1
  MaxBacklog = 3
  MaxTags = 1
  MaxFaults = 1
  None = None
PROPERTIES
  VipLeftAlone
  DunningFlagSettles
  UnlimitedIsBoxed

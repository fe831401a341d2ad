SPECIFICATION Spec
CONSTANTS
  l1 = l1
  l2 = l2
  s1 = s1
  s2 = s2
  Tiers = {"bronze", "youth"}
  Libraries = {l1, l2}
  Enabled = {l1, l2}
  Checkable = {l1, l2}
  ServerOf <- MCServerOf
  Retired = {}
  Names <- MCNames
  FourK = {"4k family"}
  Allowlist = {"4k family"}
  NoServer = NoServer
  Gone = Gone
  Unanswered = Unanswered
  Unreachable = Unreachable
  ExpiresDays = 2
  MaxRenames = 2
  MaxFaults = 1
SYMMETRY Alike
INVARIANTS
  OfferedUntilExpiry
  ReapedInTime
  OrphansComeFromFaults
  ScopeCheckIsExact

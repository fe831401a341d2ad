SPECIFICATION BridgeSpec
CONSTANTS
  a1 = a1
  a2 = a2
  a3 = a3
  r1 = r1
  r2 = r2
  r3 = r3
  local = local
  nameless = nameless
  NoName = NoName
  Addresses = {a1, a2, a3}
  Records = {r1, r2, r3, local, nameless}
  EmailOf <- MCEmailOf
  Codes = {c1, c2}
  NoAddress = NoAddress
  NoCode = NoCode
  NoRecord = NoRecord
  Rank <- MCRank
  UsernameOf <- MCUsernameOf
  Ids = {i1, i2, i3, i4}
  OnCovered = {i1, i3, i4}
  Asked = {i1, i2}
  Held = {i2, i3}
  Requests = {q1, q2}
  MaxLinks = 2
  MaxFailures = 1
  b1 = b1
  b2 = b2
  u1 = u1
  u2 = u2
  u3 = u3
  p1 = p1
  p2 = p2
  p3 = p3
  Emails = {b1, b2}
  Customers = {u1, u2, u3}
  EmailAt <- MCEmailAt
  Plans = {p1, p2, p3}
  PayerOf <- MCPayerOf
  Early = {p1, p3}
  MaxBillingFailures = 2
  Feeds = {"users", "plex_access"}
  BestEffort = {"plex_access"}
  Visitors = {v1}
  MaxVersion = 1
  MaxFetchFailures = 1
  Unread = Unread
  Unknown = Unknown
  l1 = l1
  l2 = l2
  l3 = l3
  s1 = s1
  s2 = s2
  Tiers = {"bronze", "youth"}
  Libraries = {l1, l2, l3}
  Enabled = {l1, l2, l3}
  Checkable = {l1, l2, l3}
  ServerOf <- MCServerOf
  Retired = {}
  Names <- MCNames
  FourK = {"4k family"}
  Allowlist = {"4k family"}
  NoServer = NoServer
  Gone = Gone
  Unanswered = Unanswered
  Unreachable = Unreachable
  FirstList <- MCFirstList
  OtherLists <- MCOtherLists
  Vips = {m1}
  MaxOutages = 2
  Payers = {w1, w2}
  Mailboxes = {x1, x2}
  Spellings = {"lower", "Mixed"}
  MaxInvites = 2
  MaxRowids = 5
  Subscribers = {m2}
  Price <- MCPrice
  MaxRows = 4
  MaxMonth = 3
  MaxCalls = 2
  MaxLosses = 1
  NoRow = NoRow
  Accounts = {A1, A2}
  Nobody = Nobody
  MaxGeneration = 3
CONSTRAINT StoriesTold
INVARIANTS
  HeldRecordsAreThePersons
  RosterIsTrue
  BanHolds
  BillingIsTrue
  OneMailPerStanding
  LibrariesAreTold
  NoStalePlaceholder
  BooksBalance
  PageIsHonest
  SignedOutIsGone
PROPERTIES
  PageSettles
CHECK_DEADLOCK FALSE

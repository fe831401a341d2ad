SPECIFICATION PlexSpec
CONSTANTS
  Excluded <- MCExcluded
  Unparsed <- MCUnparsed
  HistoryRows = 1
  Overlap = 2
  Lookback = 1
  Late = 1
  MaxPlays = 3
  MaxTime = 3
  MaxStops = 1
  NoCursor = NoCursor
  Shelves <- MCShelves
  Stalled <- MCStalled
  LibraryPage = 1
  Batch = 2
  MaxChanges = 2
  MaxFaults = 1
  MaxByHand = 1
  NoRow = NoRow
  Rows <- MCListing
  MaxRows = 3
  PageSize = 2
  Locations <- MCLocations
  Rules <- MCRules
  Titles <- MCTitles
  LedgerOverlap = 1
  LedgerPage = 1
  MaxLedger = 2
  MaxUpsets = 1
INVARIANTS
  NothingLeftBehind
  PagedWhole
PROPERTIES
  PassesAreExact
  EverythingArrives
CHECK_DEADLOCK FALSE

SPECIFICATION FairSpec
CONSTANTS
  e1 = e1
  e2 = e2
  e3 = e3
  checkout = checkout
  unnamed = unnamed
  invoice = invoice
  payer = payer
  c1 = c1
  c2 = c2
  c3 = c3
  Events <- MCEvents
  Operations <- MCOperations
  OperationOf <- MCOperationOf
  OwnerOf <- MCOwnerOf
  Checkouts = {checkout, unnamed}
  Nameless = {unnamed}
  Members = {payer}
  Deliveries = {d1, d2}
  Codes = {c1, c2, c3}
  NoEvent = NoEvent
  NoCode = NoCode
  MaxFaults = 1
CONSTRAINT MintedInOrder
INVARIANTS
  OneLinkPerOperation
  RedeliveriesAddNothing
  SettledMeansServed
  AtMostOneLinkAfterBan
PROPERTIES
  ImplementsInviteOnce
  EveryEventSettles

SPECIFICATION FairSpec
CONSTANTS
  b1 = b1
  b2 = b2
  b3 = b3
  s1 = s1
  s2 = s2
  Clients <- TwoClients
  Callers <- FourCallers
  Paged <- Batches
  ClientOf <- Users
  Concurrency <- Permits
  Workers = 2
  MaxPages = 2
INVARIANTS
  TypeOK
  PagesWithinLimit
  PermitsConserved
  ListingsAreComplete
PROPERTIES
  EveryCallerEnds

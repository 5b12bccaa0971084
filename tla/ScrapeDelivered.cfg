\* Is everything in the queue after a success?
SPECIFICATION Spec
CONSTANTS
  rA = rA
  rB = rB
  b1 = b1
  b2 = b2
  Static = Static
  RegionRoles <- OneRegion
  Batches <- OneBatch
  DiscoveryRR <- OneRegion
  StaticRR <- OneRegion
  MaxInvocations = 1
  MessageCounts = {0, 3}
  SendLimit = 2
INVARIANTS
  SuccessIsDelivered
CHECK_DEADLOCK FALSE

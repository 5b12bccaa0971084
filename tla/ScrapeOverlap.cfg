\* Is an invocation alone in its environment?
SPECIFICATION Spec
CONSTANTS
  rA = rA
  rB = rB
  b1 = b1
  b2 = b2
  Static = Static
  RegionRoles <- TwoRegions
  Batches <- OneBatch
  DiscoveryRR <- TwoRegions
  StaticRR <- OnlyB
  MaxInvocations = 2
  MessageCounts = {1}
  SendLimit = 2
INVARIANTS
  NoOverlappingExecution
CHECK_DEADLOCK FALSE

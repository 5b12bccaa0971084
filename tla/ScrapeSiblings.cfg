\* Sibling batches and liveness: one region-role with both kinds of jobs and
\* two batches, so that a batch outlives the failure of the other.
SPECIFICATION FairSpec
CONSTANTS
  rA = rA
  rB = rB
  b1 = b1
  b2 = b2
  Static = Static
  RegionRoles <- OneRegion
  Batches <- TwoBatches
  DiscoveryRR <- OneRegion
  StaticRR <- OneRegion
  MaxInvocations = 2
  MessageCounts = {0, 1}
  SendLimit = 2
INVARIANTS
  OrphansComeFromFailures
  StaticAfterBatches
PROPERTIES
  InvocationEnds
  FailureIsReported
\* Once every invocation has ended and no call is under way, nothing moves.
CHECK_DEADLOCK FALSE

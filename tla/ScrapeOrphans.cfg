\* Safety and refinement: two invocations of two region-roles, one with
\* discovery jobs and one with static jobs, so that orphans of the first run
\* beside the second; three messages take two sends.
SPECIFICATION Spec
CONSTANTS
  rA = rA
  rB = rB
  b1 = b1
  b2 = b2
  Static = Static
  RegionRoles <- TwoRegions
  Batches <- OneBatch
  DiscoveryRR <- OnlyA
  StaticRR <- OnlyB
  MaxInvocations = 2
  MessageCounts = {3}
  SendLimit = 2
INVARIANTS
  TypeOK
  SuccessIsComplete
  EachMessageHandedOnce
PROPERTIES
  ImplementsContract
\* Once every invocation has ended and no call is under way, nothing moves.
CHECK_DEADLOCK FALSE

SPECIFICATION Spec
CONSTANTS
  Requests <- SomeRequests
  Times <- ThreeTimes
INVARIANTS
  TimestampIsNewest

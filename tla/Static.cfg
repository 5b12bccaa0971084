SPECIFICATION Spec
CONSTANTS
  Requests <- SomeRequests
  Times <- ThreeTimes
INVARIANTS
  TypeOK
  ValuesAreExact
  OrderedAnswersAreStamped

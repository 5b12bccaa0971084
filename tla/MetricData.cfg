SPECIFICATION Spec
CONSTANTS
  Limit = 2
  TaskLists <- Lists
  Times <- TwoTimes
INVARIANTS
  TypeOK
  ResultsAreTheirTasks
  MessagesAreExact
  RaisesOnDuplicates

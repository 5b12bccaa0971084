SPECIFICATION DSpec
CONSTANTS
  Dims <- TwoPatterns
  Names <- TwoNames
  Values <- TwoValues
  NumResources = 2
  Fixed <- Lower
  WasFixed <- Lowered
  Jobs <- AllJobs
  TagValues <- OneTag
  Arns <- AllArns
  Early <- OnlyFirst
  Late <- OnlySecond
  Instance <- OnFirst
INVARIANTS
  DTypeOK
  AnswersAreSound
  MostSpecificWins
  SkipsAreJustified
  SortedAnswersAreComplete
  RequestsAreIndependent
  ReportedResourcesMatch
  KeyErrorsAreRaces

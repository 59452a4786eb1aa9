SPECIFICATION FairSpec
CHECK_DEADLOCK FALSE
CONSTANTS
  None = none
  Files <- SmallFiles
  Garbage <- OldRecords
  Needles <- SomeIds
  Points <- SomePoints
  IntHalf = 8
  Capacity = 2
INVARIANTS
  IdAnswersAreRight
  TreeHoldsEveryRecord
  TreeIsOrdered
PROPERTIES
  QueriesEnd

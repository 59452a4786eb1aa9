SPECIFICATION FairSpec
CHECK_DEADLOCK FALSE
CONSTANTS
  w1 = w1
  w2 = w2
  None = none
  NoJob = nojob
  Directory = directory
  Workers <- TwoWorkers
  Tree <- SmallTree
  Typed <- ThreeLines
  Options <- ThreadCounts
  Needle = 1
  Capacity = 2
  NBits = 2
  Chunk = 2
INVARIANTS
  TypeOK
  BitsAreConserved
  OutputIsSequential
PROPERTIES
  ScreenNeverGoesBack
  EveryJobIsFinished

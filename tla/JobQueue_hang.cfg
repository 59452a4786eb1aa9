SPECIFICATION FairSpec
CHECK_DEADLOCK FALSE
CONSTANTS
  w1 = w1
  w2 = w2
  h1 = h1
  Main = main
  NoThread = nobody
  NoJob = none
  Workers <- TwoWorkers
  Helpers <- NoHelpers
  JoinsHelpers = FALSE
  Capacity = 1
  MaxJobs = 1
  MaxSpurious = 0
PROPERTIES
  ProgramEnds

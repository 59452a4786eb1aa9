SPECIFICATION FairSpec
CHECK_DEADLOCK FALSE
CONSTANTS
  w1 = w1
  w2 = w2
  h1 = h1
  Main = main
  NoThread = nobody
  NoJob = none
  Workers <- TwoWorkers
  Helpers <- OneHelper
  JoinsHelpers = TRUE
  Capacity = 2
  MaxJobs = 4
  MaxSpurious = 1
INVARIANTS
  TypeOK
  RingHoldsTheBacklog
  DestroyedMeansDrained
  NoLostWakeup
PROPERTIES
  NoUseAfterFree
  ImplementsFifo
  DestroyReturns
  ProgramEndsUnlessTwoQueue

SPECIFICATION FilesSpec
CHECK_DEADLOCK FALSE
CONSTANTS
  h1 = h1
  h2 = h2
  Handlers <- TwoHandlers
  Names <- ThreeNames
  PathOf <- ThreePaths
  Blocks = 2
  Absent = absent
  NoThread = nobody
  MaxVersion = 1
  MayVanish = FALSE
INVARIANTS
  OnlyCompleteFilesAreServed

SPECIFICATION PeersSpec
CHECK_DEADLOCK FALSE
CONSTANTS
  h1 = h1
  h2 = h2
  Handlers <- TwoHandlers
  Names <- TwoNames
  PathOf <- OnePath
  Blocks = 2
  Absent = absent
  NoThread = nobody
  MaxVersion = 1
  MayVanish = TRUE
  Asked = h1
  OldLengths <- NoneOrWhole
INVARIANTS
  OnlyLongerCopiesMismatch
  FilesAreWhole
PROPERTIES
  EveryRequestIsAnswered

SPECIFICATION FairSpec
CHECK_DEADLOCK FALSE
CONSTANTS
  c1 = c1
  c2 = c2
  c3 = c3
  None = none
  Missing = missing
  Clients <- ThreeRuns
  User <- Ann
  Password <- Secret
  Dir <- Home
  Blocks <- TwoFiles
  OneAtATime = TRUE
  MaxGets <- Gets
  MaxCrashes = 1
INVARIANTS
  TypeOK
  AnswersBelongToTheRequest
  FilesAreTheServers
PROPERTIES
  RequestsEnd

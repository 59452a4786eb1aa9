SPECIFICATION FairSpec
CHECK_DEADLOCK FALSE
CONSTANTS
  HeapStart = 16
  Step = 8
  Word = 4
  MinAllocation = 50
  PerChunk = 2
  NumSizes = 4
  Sizes <- NodesOnly
  NodeSize = 16
  TopBit = 2
  BufferSize = 2
  Inputs <- FewInputs
  MaxReads = 5
INVARIANTS
  TypeOK
  TreeHoldsTheLiveNodes
  HeapIsSound
PROPERTIES
  ImplementsQueue
  ProgramEnds

CONSTANTS
  None = None
  MaxDeltas = 3
  MaxSources = 1
  ChunkCap = 1
  StreamCap = 1
SPECIFICATION LiveSpec
INVARIANTS
  ChainTypeOK
  TokensInOrder
  CompleteIsComplete
  OkIsDone
PROPERTIES
  ReaderEnds
  RequestAnswered

CONSTANTS
  None = None
  ChunkMaxLen = 2
  ChunkMinLen = 2
  ChunkOverlapLen = 1
  WholeLen = 2
  StopWords = {"the"}
  p1 = p1
  p2 = p2
  Pages = {p1, p2}
  Contents <- MCContents
  InitialDisks <- MCInitialDisks
  Queries <- MCQueries
  Searchers = {s1}
  Warmup = warmup
  i1 = i1
  i2 = i2
  Ingesters = {i1, i2}
  k1 = k1
  k2 = k2
  Conversations = {k1, k2}
  Topic <- MCTopic
  MaxResults = 1
  MaxChanges = 2
  MaxCrashes = 1
SYMMETRY Symmetry
SPECIFICATION Spec
INVARIANTS
  VaultTypeOK
  ServedWasCurrent
  MatchesAreServed
  IngestedIsListed
  MemoriesDistinct

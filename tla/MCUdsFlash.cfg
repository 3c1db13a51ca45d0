SPECIFICATION FairSpec
CONSTANTS
  N = 6
  Number <- MCNumber
  Size <- MCSize
  NoEraseMaxBlock = 1
  Cal = 5
  CounterMod = 3
  MaxPatchRetries = 3
  TableSize = 2
  MaxBlockLengths = {2, 3, 8}
  PatchChunkSize <- MCPatchChunkSize
  MaxRuns = 3
INVARIANTS
  TypeOK
  OkMeansFlashed
  FullInv
  CleanRunSucceeds
  NothingTwice
PROPERTIES
  FingerprintFirst
  RunEnds
  ImplementsPromise
CHECK_DEADLOCK FALSE

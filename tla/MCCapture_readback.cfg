SPECIFICATION Spec
CONSTANTS
  NTracks = 2
  MaxLen = 4
  Len <- MCLen
  Tail <- MCTail
  Chunk = 2
  CheckpointSectors = 3
  RetryLimit = 1
  Discs = {1}
  Options <- QuickOptions
  SilentWrites = FALSE
  MaxRuns = 2
  MaxFaults = 1
INVARIANTS
  EndReadbackDone
CHECK_DEADLOCK FALSE

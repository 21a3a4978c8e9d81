SPECIFICATION FairSpec
CONSTANTS
  NTracks = 2
  MaxLen = 4
  Len <- MCLen
  Tail <- MCTail
  Chunk = 2
  CheckpointSectors = 3
  RetryLimit = 1
  Discs = {1}
  Options <- LiveOptions
  SilentWrites = FALSE
  MaxRuns = 4
  MaxFaults = 3
PROPERTIES
  RunEnds
  ResumeFinishes
CHECK_DEADLOCK FALSE

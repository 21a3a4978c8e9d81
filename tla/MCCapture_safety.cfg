SPECIFICATION Spec
CONSTANTS
  NTracks = 2
  MaxLen = 4
  Len <- MCLen
  Tail <- MCTail
  Chunk = 2
  CheckpointSectors = 3
  RetryLimit = 1
  Discs = {1, 2}
  Options <- SafetyOptions
  SilentWrites = FALSE
  MaxRuns = 3
  MaxFaults = 3
INVARIANTS
  TypeOK
  CheckpointSound
  Resumable
  ManifestComplete
  DmaExclusive
  StopKeepsPrefix
PROPERTIES
  CommitMonotone
  VerifyReadOnly
CHECK_DEADLOCK FALSE

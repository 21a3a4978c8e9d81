SPECIFICATION Spec
CONSTANTS
  NTracks = 2
  MaxLen = 4
  Len <- MCLen
  Tail <- MCTail
  Chunk = 2
  CheckpointSectors = 3
  RetryLimit = 1
  Discs = {1}
  Options <- SilentOptions
  SilentWrites = TRUE
  MaxRuns = 3
  MaxFaults = 2
INVARIANTS
  VerifiedClaim
  ExportVerified
CHECK_DEADLOCK FALSE

SPECIFICATION FairSpec
CONSTANTS
  Blocks = {1, 2}
  Values = {0, 1}
  LastPhase = 1
  CacheSlots = 1
  TicketMax = 2
  MaxRounds = 2
  MaxFaults = 2
INVARIANTS
  TypeOK
  AckedDurable
  CommitOwned
  CacheFresh
PROPERTIES
  ReadCurrent
  HeldAnswered
  CardKept
CHECK_DEADLOCK FALSE

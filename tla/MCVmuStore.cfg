SPECIFICATION Spec
CONSTANTS
  Blocks = {1, 2}
  Data = {0, 1, 2}
  MaxFaults = 4
INVARIANTS
  TypeOK
  JournalSound
  ReadsDurable
PROPERTIES
  AtomicBlocks

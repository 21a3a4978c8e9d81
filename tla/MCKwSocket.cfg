SPECIFICATION FairSpec
CONSTANTS
  GenCount = 2
  RxMax = 2
  CreditBatch = 2
  RxCap = 1
  TxCap = 1
  QueueMax = 2
  UpMax = 2
  MaxPeer = 3
  MaxPut = 2
  MaxLives = 3
  MaxResets = 1
INVARIANTS
  CreditConserved
  OwnStream
PROPERTIES
  Arrives
CHECK_DEADLOCK FALSE

SPECIFICATION Spec
CONSTANTS
  GenCount = 4
  RxMax = 2
  CreditBatch = 2
  RxCap = 1
  TxCap = 1
  QueueMax = 6
  UpMax = 2
  MaxPeer = 1
  MaxPut = 1
  MaxLives = 5
  MaxResets = 0
INVARIANT OwnStream
CHECK_DEADLOCK FALSE

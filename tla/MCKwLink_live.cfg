CONSTANTS
  SeqCount = 4
  Poll = 1
  PayloadMax = 2
  Hints = {2}
  MaxHostPayloads = 2
  MaxBridgePayloads = 5
  MaxFaults = 2
SPECIFICATION FairSpec
INVARIANTS InOrder AckedDelivered
PROPERTY AllArrive
CHECK_DEADLOCK FALSE

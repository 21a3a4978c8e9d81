CONSTANTS
  SeqCount = 4
  Poll = 1
  PayloadMax = 2
  Hints = {0, 2}
  MaxHostPayloads = 2
  MaxBridgePayloads = 3
  MaxFaults = 2
SPECIFICATION WiredSpec
INVARIANT AckedDelivered
CHECK_DEADLOCK FALSE

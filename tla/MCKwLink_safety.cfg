CONSTANTS
  SeqCount = 4
  Poll = 1
  PayloadMax = 2
  Hints = {0, 2}
  MaxHostPayloads = 2
  MaxBridgePayloads = 3
  MaxFaults = 2
SPECIFICATION Spec
INVARIANTS TypeOK AckedDelivered FirstFits
CHECK_DEADLOCK FALSE

CONSTANTS
  Packets = {p1}
  QueueLimit = 1
  TxTimes = {1}
  Latencies = {0}
  MaxVersion = 6
SPECIFICATION Spec
INVARIANT RefusedOnlyWhenFull
CHECK_DEADLOCK FALSE

CONSTANTS
  Packets = {p1, p2}
  QueueLimit = 2
  TxTimes = {1, 2}
  Latencies <- MCLatencies
  MaxVersion = 4
SPECIFICATION FairSpec
INVARIANTS TypeOK QueueCoversFlight AQueueExact DueOrdered
PROPERTIES ImplementsFifo AQueueDrains
CHECK_DEADLOCK FALSE

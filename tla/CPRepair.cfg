CONSTANTS
  Switches = {"s1", "s2", "s3"}
  Controllers = {"c1"}
  Hosts = {"h2"}
  Links = {"c1s1", "s1s2", "s2s3", "s1s3", "s2h2"}
  Ends <- RingEnds
  Failable = {"s1s2"}
  MaxVersion = 2
  MaxBusy = 0
  MaxLoss = 1
  MaxPackets = 14
  Timers = {"routing"}
  Versioned = TRUE
SPECIFICATION FairSpec
PROPERTIES RoutesConverge
CHECK_DEADLOCK FALSE

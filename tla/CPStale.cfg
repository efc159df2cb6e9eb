CONSTANTS
  Switches = {"s1", "s2"}
  Controllers = {"c1"}
  Hosts = {"h2"}
  Links = {"c1s1", "s1s2", "s2h2"}
  Ends <- HostLineEnds
  Failable = {"s1s2"}
  MaxVersion = 2
  MaxBusy = 1
  MaxLoss = 0
  MaxPackets = 14
  Timers = {"routing"}
  Versioned = FALSE
SPECIFICATION FairSpec
PROPERTY StaleRulesLeave
CHECK_DEADLOCK FALSE

CONSTANTS
  Switches = {"s1", "s2"}
  Controllers = {"c1"}
  Hosts = {"h2"}
  Links = {"c1s1", "s1s2", "s2h2"}
  Ends <- HostLineEnds
  Failable = {"s1s2"}
  MaxVersion = 3
  MaxBusy = 14
  MaxLoss = 1
  MaxPackets = 14
  Timers = {"switch_info"}
  Versioned = TRUE
SPECIFICATION FairSpec
INVARIANTS TypeOK NewsIsTrue ViewTruth
PROPERTIES ViewConverges ImplementsView
CHECK_DEADLOCK FALSE

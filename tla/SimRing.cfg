CONSTANTS
  Switches = {"s1", "s2", "s3"}
  Controllers = {"c1"}
  Hosts = {"h1", "h2"}
  Links = {"c1s1", "s1s2", "s2s3", "s1s3", "s1h1", "s2h2"}
  Ends <- MCEnds
  Failable = {"s1s2", "s2h2"}
  MaxVersion = 3
  MaxBusy = 1
  MaxLoss = 0
  MaxPackets = 14
  Timers = {}
  Versioned = TRUE
SPECIFICATION SimulationSpec
INVARIANTS GraphIsNetwork QuietRoutesWork QuietCheckPasses CountsConnected
CHECK_DEADLOCK FALSE

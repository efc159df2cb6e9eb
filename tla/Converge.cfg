CONSTANTS
  Switches = {"s1", "s2", "s3"}
  Controllers = {"c1", "c2"}
  Hosts = {"h1", "h2"}
  Links = {"c1s1", "s1s2", "s2s3", "s1s3", "s2c2", "s1h1", "s2h2"}
  Ends <- MCEnds
  Failable = {"s1s2", "s2c2"}
  MaxVersion = 4
  MaxBusy = 0
  MaxLoss = 2
  MaxPackets = 14
  Timers = {}
  Versioned = TRUE
  LastController = "c2"
SPECIFICATION ExperimentFairSpec
INVARIANTS ExperimentTypeOK GraphIsNetwork FreshStart RepetitionConverges QuietCheckPasses
PROPERTIES RepetitionEnds
CHECK_DEADLOCK FALSE

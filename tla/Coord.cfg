CONSTANTS
  Switches = {"s1", "s2"}
  Controllers = {"c1", "c2"}
  Hosts = {}
  Links = {"c1s1", "s1s2", "s2c2"}
  Ends <- MCEnds
  Rtt = 1
  Failable = {"s1s2"}
  MaxVersion = 2
  MaxPid = 3
  MaxDrops = 1
SPECIFICATION FairSpec
INVARIANTS TypeOK DelayBounded ViewsAgree
PROPERTIES ImplementsBroadcast EveryoneHears
CHECK_DEADLOCK FALSE

CONSTANTS
  Switches = {"s1", "s2", "s3", "s4"}
  Controllers = {"c4"}
  Hosts = {"h1", "h2", "h3", "h5"}
  Links = {"s1s2", "s2s3", "s3s4", "s1s4", "s2s4", "a", "b", "c", "d", "e"}
  Ends <- MCEnds
  MaxLoad = 3
  Vertices <- MCVertices
  HostOrders <- MCHostOrders
  Views <- MCViews
  MaxRuns = 2
SPECIFICATION Spec
INVARIANT PathsArrive
CHECK_DEADLOCK FALSE

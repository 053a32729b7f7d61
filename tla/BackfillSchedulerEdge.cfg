SPECIFICATION Spec
CHECK_DEADLOCK FALSE
CONSTANTS
  Requests = {"r1", "r2"}
  Demand <- MCDemandEdge
  SeriesKeys = {"s1"}
  Owners = {"a", "b"}
  Cells = {"x", "y"}
  Concurrency = {1}
  MaxFaults = 1
INVARIANT LeftEdgeDropsOlder

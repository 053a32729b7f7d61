SPECIFICATION FairSpec
CHECK_DEADLOCK FALSE
CONSTANTS
  Requests = {"r1", "r2", "r3"}
  Demand <- MCDemand
  SeriesKeys = {"s1", "s2"}
  Owners = {"a", "b"}
  Cells = {"x", "y"}
  Concurrency = {1, 2}
  MaxFaults = 1
INVARIANTS SchedulerInv EveryParentHasAPath CancelledIsUnwanted  AlwaysWoken
PROPERTIES BackgroundYields Answered

SPECIFICATION Spec
CONSTANTS
  Markets = {"spot", "futures"}
  MaxPrice = 5
  Quantities = {1, 2}
  SnapshotLimit = 2
  MaxLevels = 3
  MaxBuffered = 2
  MaxUpdatesPerDelta = 2
  MaxBufferedUpdates = 3
  BidTicks = {1, 2, 4}
  AskTicks = {5}
  MovingBids = {1, 2, 3, 4}
  MovingAsks = {3, 4, 5}
  MaxUpdates = 4
  InitialBook <- MCInitialBook
  MovingLevels <- MCMovingLevels
INVARIANTS SyncInv NoFalseLevels SeedRangeComplete

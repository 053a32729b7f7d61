SPECIFICATION Spec
CONSTANTS
  MaxPrice = 5
  Quantities = {1}
  Markets = {"futures"}
  SnapshotLimit = 1
  MaxLevels = 2
  MaxBuffered = 2
  MaxUpdatesPerDelta = 2
  MaxBufferedUpdates = 3
  BidTicks = {3, 4}
  AskTicks = {5}
  MovingBids = {1, 2, 3, 4}
  MovingAsks = {}
  MaxUpdates = 6
  InitialBook <- MCInitialBook
  MovingLevels <- MCMovingLevels
PROPERTY TrustedDepthKept

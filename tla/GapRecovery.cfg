SPECIFICATION FairSpec
CONSTANTS
  Lanes = {"trades", "klines", "provider"}
  MaxKey = 5
  Reach <- MCReach
  SeenSize = 2
  MaxBuffered = 2
  MaxRepair = 2
  MaxFailures = 1
  Cancellable = {"provider"}
INVARIANTS TypeOK NoSilentHole FilledIsDelivered GapHasRepair StoppedIsFinal
PROPERTIES  GapIsDecided

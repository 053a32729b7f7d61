SPECIFICATION FairSpec
CHECK_DEADLOCK FALSE
CONSTANTS
  a = a
  b = b
  Clients = {a, b}
  Shapes <- MCShapes
  Owner = a
  Commands = 2
  Events = 3
  CheckpointEvery = 2
  QueueSize = 2
  PauseOnLoss = TRUE
  MaxRetries = 1
  MaxReads = 1
  MaxFaults = 1
  MaxRestarts = 1
INVARIANTS SessionInv RecoveryReproduces ToldIsDurable NobodyIsForgotten
PROPERTIES NotStarved

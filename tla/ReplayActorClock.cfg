SPECIFICATION Spec
CHECK_DEADLOCK FALSE
CONSTANTS
  a = a
  b = b
  Clients = {a, b}
  Owner = a
  Shapes <- MCShapes
  Commands = 1
  Events = 2
  CheckpointEvery = 2
  QueueSize = 1
  PauseOnLoss = TRUE
  MaxRetries = 0
  MaxReads = 0
  MaxFaults = 0
  MaxRestarts = 1
INVARIANTS SessionSurvives

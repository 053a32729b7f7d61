SPECIFICATION Spec
CHECK_DEADLOCK FALSE
CONSTANTS
  Consumers = {c1, c2}
  QueueSize = 1
  MaxDeltas = 1
  MaxBreaks = 0
  MaxFailures = 0
  MaxDenials = 0
  MaxGenerations = 1
PROPERTY LeaseHasActor

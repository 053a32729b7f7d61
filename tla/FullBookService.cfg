SPECIFICATION FairSpec
CHECK_DEADLOCK FALSE
CONSTANTS
  Consumers = {c1, c2}
  QueueSize = 2
  MaxDeltas = 4
  MaxBreaks = 1
  MaxFailures = 1
  MaxDenials = 1
  MaxGenerations = 2
INVARIANTS TypeOK BookIsUnbroken HubIsHonest 
PROPERTY ResyncBegins

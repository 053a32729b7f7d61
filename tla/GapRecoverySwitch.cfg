SPECIFICATION Spec
CONSTANTS
  Lanes = {"trades"}
  MaxKey = 5
  Reach <- MCReach
  SeenSize = 2
  MaxBuffered = 2
  MaxRepair = 2
  MaxFailures = 1
  Cancellable = {"trades"}
INVARIANT NoSilentHole

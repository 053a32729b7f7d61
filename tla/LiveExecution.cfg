SPECIFICATION Spec
CHECK_DEADLOCK FALSE
CONSTANTS
  Orders = {o1, o2}
  NoOrder = none
  Notional <- MCNotional
  Price = 60
  MaxOrderNotional = 100
  MaxNotional = 100
  MaxUnresolved = 2
  MaxCancels = 1
  MaxReconciles = 2
  MaxEpoch = 1
  MaxModeChanges = 2
  MaxReceipts = 3
  MaxCrashes = 1
SYMMETRY Symmetry
INVARIANTS ExecutionInv OpenIsCounted EnvelopeHolds SentIsConfirmed LedgersAgree
PROPERTIES ActsInEpoch ImplementsExposure

SPECIFICATION FairSpec
CHECK_DEADLOCK FALSE
CONSTANTS
  Events = {e1, e2}
  BrowserFirst = {e2}
  MaxAttempts = 2
  Retain = 1
  Faulty = {e2}
  MaxRestarts = 1
INVARIANTS  AttemptsBounded  ReceiptIsHeard
PROPERTIES DecidedIsFinal 

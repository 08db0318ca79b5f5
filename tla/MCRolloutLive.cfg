SPECIFICATION RFairSpec
CONSTANTS
  Jobs = {r1}
  Rollouts = {r1}
  Verifiers = {r1}
  Workers = {w1}
  BadPayload = {}
  MaxAttempts = 2
  Slots = 1
  MaxFaults = 2
  MaxLost = 1
  NoWorker = NoWorker
  NoCall = NoCall
PROPERTIES UncancelledRunsSettle
CHECK_DEADLOCK FALSE

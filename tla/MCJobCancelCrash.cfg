SPECIFICATION FairSpec
CONSTANTS
  Jobs = {r1}
  Rollouts = {r1}
  Workers = {w1}
  BadPayload = {}
  MaxAttempts = 1
  Slots = 1
  MaxFaults = 1
  NoWorker = NoWorker
PROPERTIES RunningJobsSettle
CHECK_DEADLOCK FALSE

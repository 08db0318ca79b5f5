SPECIFICATION RSpec
CONSTANTS
  Jobs = {r1}
  Rollouts = {r1}
  Verifiers = {}
  Workers = {w1, w2}
  BadPayload = {}
  MaxAttempts = 2
  Slots = 2
  MaxFaults = 1
  MaxLost = 1
  NoWorker = NoWorker
  NoCall = NoCall
SYMMETRY Symmetry
INVARIANTS RTypeOK TokenMapExact RunFollowsJob
PROPERTIES CancelsHold FinishedRunsNotRestarted
CHECK_DEADLOCK FALSE

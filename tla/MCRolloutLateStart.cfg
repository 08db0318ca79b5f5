SPECIFICATION RSpec
CONSTANTS
  Jobs = {r1}
  Rollouts = {r1}
  Verifiers = {r1}
  Workers = {w1, w2}
  BadPayload = {}
  MaxAttempts = 1
  Slots = 1
  MaxFaults = 0
  MaxLost = 1
  NoWorker = NoWorker
  NoCall = NoCall
PROPERTIES CancelledRunNeverStarts
CHECK_DEADLOCK FALSE

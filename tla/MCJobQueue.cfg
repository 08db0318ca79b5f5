SPECIFICATION Spec
CONSTANTS
  Jobs = {r1, r2}
  Rollouts = {r1, r2}
  Workers = {w1, w2}
  BadPayload = {r2}
  MaxAttempts = 2
  Slots = 1
  MaxFaults = 3
  NoWorker = NoWorker
SYMMETRY Symmetry
INVARIANTS QInv ExclusiveWithoutFaults ExecutionsBounded
PROPERTIES CancelLeavesNothingNew ImplementsContract
CHECK_DEADLOCK FALSE

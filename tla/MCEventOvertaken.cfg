SPECIFICATION Spec
CONSTANTS
  p1 = p1
  p2 = p2
  c1 = c1
  Publishers <- TwoPublishers
  Clients <- OneClient
  RingSize = 4
  Capacity = 4
  Limit = 4
  WireSize = 1
  MaxEvents = 3
  Together <- Undisturbed
INVARIANTS
  NothingInBetweenIsLost
CHECK_DEADLOCK FALSE

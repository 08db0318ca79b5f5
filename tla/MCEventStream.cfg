SPECIFICATION FairSpec
CONSTANTS
  p1 = p1
  p2 = p2
  c1 = c1
  Publishers <- TwoPublishers
  Clients <- OneClient
  RingSize = 2
  Capacity = 1
  Limit = 1
  WireSize = 1
  MaxEvents = 3
  Together <- Disturbed
INVARIANTS
  TypeOK
  NothingElseIsLost
  RingIsEndOfLog
PROPERTIES
  DeliversInOrder
  ClientsCatchUp
CHECK_DEADLOCK FALSE

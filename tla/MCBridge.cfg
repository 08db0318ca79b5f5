SPECIFICATION FairSpec
CONSTANTS
  k1 = k1
  k2 = k2
  Main = Main
  NoCall = NoCall
  Calls <- TwoCalls
  Timed <- OneCall
  Streaming <- OneCall
  Droppable <- OneCall
  Garbled = {1}
  Faults <- Disturbed
INVARIANTS
  TypeOK
  CallsAccounted
  OneChild
  EventsBeforeAnswer
PROPERTIES
  DiedMeansReplaced
  CallsEnd
CHECK_DEADLOCK FALSE

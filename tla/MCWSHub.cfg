SPECIFICATION FairSpec
CONSTANTS
  c1 = c1
  c2 = c2
  Clients = {c1, c2}
  MaxMessages = 3
  BroadcastCap = 1
  SendCap = 1
CHECK_DEADLOCK FALSE
INVARIANTS
  OpenWhileServing
PROPERTIES
  ImplementsStream
  NobodyHangs
  HubForgets

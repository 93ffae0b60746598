SPECIFICATION Spec
CONSTANTS
  c1 = c1
  c2 = c2
  Clients = {c1, c2}
  MaxMessages = 1
  BroadcastCap = 1
  SendCap = 1
CHECK_DEADLOCK FALSE
INVARIANTS
  NoSendOnClosed

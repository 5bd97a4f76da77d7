\* Sequential calls; a node may close a connection cleanly.
CONSTANTS
  Addresses = {a1}
  Requests = {r1, r2}
  MaxSockets = 2
  Sequential = TRUE
  CleanClose = TRUE
  NoSock = NoSock
SPECIFICATION Spec
PROPERTIES EveryRequestAnswered
CHECK_DEADLOCK FALSE

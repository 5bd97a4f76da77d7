\* Two calls may overlap on the cached socket.
CONSTANTS
  Addresses = {a1}
  Requests = {r1, r2}
  MaxSockets = 2
  Sequential = FALSE
  CleanClose = FALSE
  NoSock = NoSock
SPECIFICATION Spec
INVARIANTS ReplyGoesToItsRequest
CHECK_DEADLOCK FALSE

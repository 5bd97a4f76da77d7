\* Calls may overlap on one socket; nodes never close cleanly (a broken
\* connection raises an error event).
CONSTANTS
  Addresses = {a1}
  Requests = {r1, r2, r3}
  MaxSockets = 3
  Sequential = FALSE
  CleanClose = FALSE
  NoSock = NoSock
SPECIFICATION Spec
PROPERTIES EveryRequestAnswered
\* The page idles once its calls are made.
CHECK_DEADLOCK FALSE

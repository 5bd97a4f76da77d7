\* One address, three calls, up to three WebSockets; the caller waits for
\* each call to end (like the getting_status flag of main.js); nodes may
\* close connections cleanly.
CONSTANTS
  Addresses = {a1}
  Requests = {r1, r2, r3}
  MaxSockets = 3
  Sequential = TRUE
  CleanClose = TRUE
  NoSock = NoSock
SPECIFICATION Spec
SYMMETRY RequestSymmetry
INVARIANTS TypeOK ReplyGoesToItsRequest
\* The page idles once its calls are made, or waits on a hung call.
CHECK_DEADLOCK FALSE

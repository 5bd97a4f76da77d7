\* The user changes a file input again before the first read completes.
CONSTANTS
  Files = {f1, f2}
  None = None
  Undef = Undef
  MaxChanges = 3
  MaxClicks = 1
  DaemonReliable = TRUE
SPECIFICATION Spec
INVARIANTS DataMatchesSelection
CHECK_DEADLOCK FALSE

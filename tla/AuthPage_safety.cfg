\* Two files, four input changes, two clicks; the daemon may be
\* unreachable or fail.  No symmetry: the refinement includes liveness.
CONSTANTS
  Files = {f1, f2}
  None = None
  Undef = Undef
  MaxChanges = 4
  MaxClicks = 2
  DaemonReliable = FALSE
SPECIFICATION Spec
INVARIANT TypeOK
PROPERTY ImplementsAuthExchange
\* After a successful POST the page is gone; with the bounds spent the
\* page idles.
CHECK_DEADLOCK FALSE

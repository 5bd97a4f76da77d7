\* Roster of three servers, threshold two (spec 8's scenario), one of
\* which returns an inconsistent proof; two attempts; up to two crashes,
\* one more than the n - threshold failures the protocol tolerates.
CONSTANTS
  Servers = {0, 1, 2}
  Threshold = 2
  Faulty = {2}
  MaxAttempts = 2
  MaxCrashes = 2
SPECIFICATION Spec
INVARIANTS TypeOK DoneOnlyWithThisAttemptsProofs
PROPERTY ImplementsDagaAuth
\* An authentication stops once Done, or Failed with its attempts spent.
CHECK_DEADLOCK FALSE

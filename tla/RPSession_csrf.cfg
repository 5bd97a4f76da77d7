\* Two tabs, three sessions, three sign-ins; the attacker lures the
\* browser to the callback once.
CONSTANTS
  User = User
  Attacker = Attacker
  Anon = Anon
  None = None
  Tabs = {t1, t2}
  MaxSessions = 3
  MaxLogins = 3
SPECIFICATION Spec
SYMMETRY TabSymmetry
INVARIANT TypeOK
\* With its session ids and sign-ins spent the browser stops.
CHECK_DEADLOCK FALSE

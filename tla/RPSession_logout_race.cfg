\* Two tabs: a sign-in callback awaits the token endpoint while the other
\* tab logs out.
CONSTANTS
  User = User
  Attacker = Attacker
  Anon = Anon
  None = None
  Tabs = {t1, t2}
  MaxSessions = 2
  MaxLogins = 1
SPECIFICATION Spec
INVARIANTS LogoutSticks
CHECK_DEADLOCK FALSE

CONSTANTS
  Tabs = {t1, t2}
  Calls = {c1, c2}
  Emails = {e1}
  Passwords = {p1, p2}
  MaxUsers = 2
  MaxSecrets = 2
  None = None
SYMMETRY Symmetry
SPECIFICATION Spec
INVARIANT EnabledIsProved

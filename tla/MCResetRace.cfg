CONSTANTS
  Users = {u1}
  Requests = {r1, r2}
  Passwords = {p1, p2}
  Secrets = {s1, s2}
  InitialPassword = p1
  NoSecret = NoSecret
  LockoutThreshold = 5
  LockoutMinutes = 1
  MaxSessions = 2
  MaxClock = 0
SYMMETRY Symmetry
SPECIFICATION Spec
INVARIANT NoSessionOutlivesReset

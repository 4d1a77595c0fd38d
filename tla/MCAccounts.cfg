CONSTANTS
  Users = {u1}
  Requests = {r1, r2}
  Passwords = {p1, p2}
  Secrets = {s1}
  InitialPassword = p1
  NoSecret = NoSecret
  LockoutThreshold = 3
  LockoutMinutes = 1
  MaxSessions = 2
  MaxClock = 1
SYMMETRY Symmetry
SPECIFICATION Spec
INVARIANT TypeOK
INVARIANT StateIsAudited
INVARIANT SessionEndsAudited
 
 
 
PROPERTY KickedUnlessRaced

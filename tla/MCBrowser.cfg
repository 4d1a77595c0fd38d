CONSTANTS
  Users = {u1}
  Calls = {c1, c2}
  None = None
  Over = Over
  TTL = 2
  Cap = 3
  MaxSessions = 2
  MaxClock = 4
SPECIFICATION TimedSpec
INVARIANT TypeOK
INVARIANT CountdownIsTheLock
INVARIANT SlidingWindow
PROPERTY RevokedForGood
PROPERTY ArmedSessionEnds

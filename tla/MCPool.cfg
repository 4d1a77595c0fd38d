CONSTANTS
  Conns = {k1, k2, k3}
  Requests = {r1, r2, r3}
  MaxLogins = 2
  None = None
SPECIFICATION FairSpec
INVARIANT TypeOK
INVARIANT NothingLeaks
INVARIANT NeverStuck
PROPERTY EveryRequestEnds

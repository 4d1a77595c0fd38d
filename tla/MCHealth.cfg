CONSTANTS
  Users = {u1, u2}
  Items = {i1, i2}
  Requests = {r1, r2}
  Statuses = {weak, ok}
  Alerting = {weak}
  MaxReports = 2
  MaxClock = 1
  None = None
SYMMETRY Symmetry
SPECIFICATION Spec
INVARIANT TypeOK
 
INVARIANT ReadsAreOneReport
INVARIANT NeverOlder
 

CONSTANTS
  Users = {admin, user}
  Admins = {admin}
  Viewers = {user}
  Writers = {w1, w2}
  LIMIT = 1
  MaxEntries = 3
  MaxClock = 1
  MaxStack = 3
  None = None
SYMMETRY Symmetry
SPECIFICATION Spec
INVARIANT TypeOK
INVARIANT NothingSkipped
INVARIANT NothingRepeated
INVARIANT ReadsAreRecorded

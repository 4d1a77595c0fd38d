CONSTANTS
  Users = {u1, u2}
  Requests = {r1, r2, r3, r4}
SYMMETRY Symmetry
SPECIFICATION Spec
CHECK_DEADLOCK FALSE
INVARIANT TypeOK
INVARIANT RowsHaveBlobs
INVARIANT OrphansHaveACause
INVARIANT DisclosuresAreLogged
 

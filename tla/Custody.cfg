SPECIFICATION MCSpec
CONSTANTS
  Member = {m1, m2}
  Invite = {i1, i2}
  None = None
  MaxKeys = 2
  MaxFlights = 2
SYMMETRY MCSymmetry
CHECK_DEADLOCK FALSE
INVARIANT AnOwnerRemains
PROPERTY CopiesGoForAReason

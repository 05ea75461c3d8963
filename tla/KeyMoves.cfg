SPECIFICATION MCFairSpec
CONSTANTS
  Upload = {u1}
  Pass = {p1, p2}
  Reader = {}
  Link = {l1}
  Practice = Practice
  None = None
  MaxKey = 2
  MaxUploadBytes = 1
  MaxRequestBytes = 2
  MaxRequestFiles = 2
  MaxStorageBytes = 2
CHECK_DEADLOCK FALSE
INVARIANT NothingStranded
PROPERTIES NothingBecomesUnopenable KeepsCustody LeftoversReclaimed

SPECIFICATION MCSpec
CONSTANTS
  Upload = {u1, u2}
  Pass = {p1}
  Reader = {r1}
  Link = {l1}
  Practice = Practice
  None = None
  MaxKey = 2
  MaxUploadBytes = 2
  MaxRequestBytes = 4
  MaxRequestFiles = 2
  MaxStorageBytes = 3
CHECK_DEADLOCK FALSE
INVARIANT RefusalsAreUndone
PROPERTY LinksWithinQuota

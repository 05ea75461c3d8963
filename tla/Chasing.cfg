SPECIFICATION MCSpec
CONSTANTS
  Client = {k1, k2}
  Request = {r1, r2}
  Run = {x1, x2}
  None = None
  Cadences = {1}
  PartsOfDay = 2
  MaxClock = 2
  MaxActs = 1
SYMMETRY MCSymmetry
CHECK_DEADLOCK FALSE
INVARIANTS SaidIsSent TooSoonOnlyUnknowing OneNoticeADay

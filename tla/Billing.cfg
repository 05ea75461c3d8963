SPECIFICATION BillingSpec
CONSTANTS
  Sub = {s1, s2}
  Check = {c1}
  None = None
  Grace = 1
  MaxTime = 3
  MaxEvents = 4
SYMMETRY MCSymmetry
CHECK_DEADLOCK FALSE
INVARIANTS Converged EndedStaysEnded

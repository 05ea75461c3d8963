SPECIFICATION Spec
CONSTANTS
  Call = {c1, c2}
  Client = {k1, k2}
  Name = {n1, n2}
  Listed = {n1}
  Address = {a1}
  Company = {o1, o2}
  None = None
  MaxGrant = 2
  MaxToken = 3
  MaxFaults = 1
SYMMETRY MCSymmetry
CHECK_DEADLOCK FALSE
INVARIANTS NotLockedOut TokensKeepTheirCompany OneNameOneClient

SPECIFICATION SignupSpec
CONSTANTS
  Applicant = {a1, a2}
  SignupForm = {f1}
  Name = {n1}
  MaxTenants = 2
  MaxStops = 0
INVARIANT AddressesAreForLife
CHECK_DEADLOCK FALSE

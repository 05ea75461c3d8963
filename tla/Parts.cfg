SPECIFICATION PartsSpec
CONSTANTS
  File = {f1, f2}
  SizeOf <- MCSize
  Reader = {b1}
  Press = {a1, a2}
  Overhead = 1
  MaxBytes = 3
  Visits = 2
  MaxPicks = 2
  MaxRows = 1
  Person = {a1, a2}
  Client = {k1}
  Upload = {u1}
  Opener = {a1, a2}
  MaxPractices = 3
  MaxKeys = 4
  MaxCrashes = 1
  Document = {a1, a2}
  Copy = {copy}
  Kinds = {"backup", "fleet", "export"}
  MaxMoves = 1
  MaxLosses = 1
  Tenant = {t1, t2, t3}
  Request = {a1, a2}
  MaxOpen = 2
  MaxHandles = 2
  MaxChanges = 1
  NoTenant = NoTenant
  Applicant = {a1, a2}
  SignupForm = {a1, a2}
  Name = {n1}
  MaxTenants = 2
  MaxStops = 1
  Books <- MCBooks
  Letters <- MCLetters
INVARIANTS ReloadMeansStored VerifiedIsWhole ExportIsWhole AnsweredByItsOwn SignupsGetFreshAddresses WrittenIsRead
PROPERTY OpeningLosesNothing
SYMMETRY MCSymmetry
CHECK_DEADLOCK FALSE

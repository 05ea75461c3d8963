SPECIFICATION MCSpec
CONSTANTS
  Request = {r1, r2}
  Item = {i1, i2}
  Label <- MCLabels
  Fold <- MCFold
  Note = {NoNote}
  NoNote = NoNote
  Post = {a1, a2}
  Form = {f1, f2}
  Page = {v1}
  None = None
INVARIANTS PositionsCount CheckedCoversFiles
PROPERTIES AddingRepeatsNothing HistoryTellsOfChecks
SYMMETRY MCSymmetry
CHECK_DEADLOCK FALSE

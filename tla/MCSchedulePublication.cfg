SPECIFICATION Spec
CONSTANTS
  e1 = e1
  e2 = e2
  h1 = h1
  h2 = h2
  Employees = {e1, e2}
  Days = {d1}
  Templates = {t1}
  Hours = {h1, h2}
  Managers = {m1}
  Publishers = {p1}
  MAX_EDITS = 2
  MAX_PUBLICATIONS = 2
  None = None
SYMMETRY MCSymmetry
INVARIANTS
  TypeOK
  SnapshotIsWhatTheyWereTold
  NobodyIsToldTwice
  RowsPointAtTemplates

SPECIFICATION Spec
CONSTANTS
  None = None
  k1 = k1
  k2 = k2
  i1 = i1
  i2 = i2
  i3 = i3
  b1 = b1
  y1 = y1
  y2 = y2
  Clerks = {k1, k2}
  Invoices = {i1, i2, i3}
  Total <- MCTotal
  Years = {y1, y2}
  Bills = {b1}
  Accounts = {1, 2}
  Figures = {2}
  NUMBERING_ATTEMPTS = 2
SYMMETRY MCSymmetry
INVARIANTS
  TypeOK
  NumberedWithoutHoles
  PaidMeansMoved
  NeverOverdrawn
  BalanceAddsUp
PROPERTIES
  ClosedStaysClosed
  ImplementsBook

SPECIFICATION Spec
CONSTANTS
  None = None
  c1 = c1
  c2 = c2
  r1 = r1
  r2 = r2
  h1 = h1
  h2 = h2
  d1 = d1
  d2 = d2
  Companies = {c1, c2}
  Requests = {r1, r2}
  Calls = {h1}
  Deliveries = {d1}
  Days <- AcrossWindows
  Settings = {15}
  MaxAttempts = 1
  MaxLost = 1
  FilingMayFail = TRUE
SYMMETRY MCSymmetry
INVARIANTS
  TypeOK
  FiledMeansExecuted
  FiledAsPriced
PROPERTIES
  ImplementsLedger

SPECIFICATION FairSpec
CONSTANTS
  None = None
  c1 = c1
  c2 = c2
  r1 = r1
  r2 = r2
  h1 = h1
  h2 = h2
  d1 = d1
  d2 = d2
  Companies = {c1}
  Requests = {r1, r2}
  Calls = {h1}
  Deliveries = {d1}
  Days <- BetweenPaydays
  Settings = {15, 20}
  MaxAttempts = 2
  MaxLost = 1
  FilingMayFail = FALSE
INVARIANTS
  AckedMeansFiled
PROPERTIES
  ExecutedIsEventuallyFiled

SPECIFICATION Spec
CONSTANTS
  None = None
  c1 = c1
  c2 = c2
  a1 = a1
  a2 = a2
  m1 = m1
  m2 = m2
  m3 = m3
  m4 = m4
  m5 = m5
  d1 = d1
  d2 = d2
  Movements = {m1, m2, m3, m4, m5}
  BookedAt <- MCBookedAt
  Accounts = {a1, a2}
  Companies = {c1}
  Events = {1, 2, 3}
  Reported <- MCReported
  Figureless = {}
  Deliveries = {d1}
  MaxAttempts = 2
  MaxLost = 2
  AnnouncingMayFail = FALSE
INVARIANTS
  AckedMeansMirrored
PROPERTIES
  BalanceNeverWindsBack
CHECK_DEADLOCK FALSE

CONSTANTS
  u1 = u1
  c3 = c3
  u2 = u2
  k2 = k2
  b2 = b2
  f1 = f1
  f2 = f2
  m1 = m1
  m2 = m2
  c1 = c1
  c2 = c2
  t1 = t1
  k1 = k1
  q1 = q1
  o1 = o1
  e1 = e1
  b1 = b1
  Ids <- MCIds
  Requests = {r1, r2}
  Established <- MCEstablished
  MaxRecords = 11
  None = None
  NotYet = NotYet
  Gone = Gone
SPECIFICATION Spec
CHECK_DEADLOCK FALSE
SYMMETRY MCSymmetry
INVARIANT RelationsHold
PROPERTY DeletionStaysInside

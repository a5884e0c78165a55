CONSTANTS
  o1 = o1
  o2 = o2
  h1 = h1
  h2 = h2
  p1 = p1
  p2 = p2
  Orders = {o1, o2}
  Handlers = {}
  Pollers = {p1, p2}
  Workers <- MCTwoWorkers
  Signature <- MCIdentical
  NoOrder = NoOrder
  Nobody = Nobody
  Payloads = {}
  PollRejects = TRUE
  MayExpire = FALSE
  MayDelete = TRUE
  MaxFaults = 1
SPECIFICATION Spec
CHECK_DEADLOCK FALSE
SYMMETRY MCPollerSymmetry
PROPERTY ImplementsLifecycle

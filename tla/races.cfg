CONSTANTS
  o1 = o1
  o2 = o2
  h1 = h1
  h2 = h2
  p1 = p1
  p2 = p2
  Orders = {o1}
  Handlers = {h1, h2}
  Pollers = {p1}
  Workers <- MCOneWorkers
  Signature <- MCDistinct
  NoOrder = NoOrder
  Nobody = Nobody
  Payloads = {"success", "pending", "failed"}
  PollRejects = FALSE
  MayExpire = FALSE
  MayDelete = TRUE
  MaxFaults = 1
SPECIFICATION Spec
CHECK_DEADLOCK FALSE
SYMMETRY MCHandlerSymmetry
INVARIANT TypeOK
INVARIANT SuccessIsReal
INVARIANT ExpenseIsReal
INVARIANT Evidence
INVARIANT LinkIsSound
INVARIANT FailedIsReal
INVARIANT SuccessIsBooked
INVARIANT PurchaseHasOrder

CONSTANTS
  o1 = o1
  h1 = h1
  h2 = h2
  p1 = p1
  Orders = {o1}
  Handlers = {h1, h2}
  Pollers = {p1}
  Workers <- MCWorkers
  Signature <- MCSignature
  NoOrder = NoOrder
  Nobody = Nobody
  Payloads = {"success", "failed"}
  PollRejects = FALSE
  MayExpire = TRUE
  MayDelete = FALSE
  MayChange = TRUE
  MaxFaults = 1
SPECIFICATION BillSpec
CHECK_DEADLOCK FALSE
SYMMETRY MCHandlerSymmetry
INVARIANT BillTypeOK
INVARIANT SuccessIsReal
INVARIANT FailedIsReal
INVARIANT SuccessIsBooked
PROPERTY ChangedIsRefused

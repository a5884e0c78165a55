CONSTANTS
  o1 = o1
  h1 = h1
  h2 = h2
  p1 = p1
  Orders = {o1}
  Handlers = {h1}
  Pollers = {p1}
  Workers <- MCWorkers
  Signature <- MCSignature
  NoOrder = NoOrder
  Nobody = Nobody
  Payloads = {}
  PollRejects = FALSE
  MayExpire = FALSE
  MayDelete = FALSE
  MayChange = FALSE
  MaxFaults = 0
SPECIFICATION BillSpec
CHECK_DEADLOCK FALSE
INVARIANT PaymentIsKnown

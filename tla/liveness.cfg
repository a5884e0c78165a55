CONSTANTS
  o1 = o1
  o2 = o2
  h1 = h1
  h2 = h2
  p1 = p1
  p2 = p2
  Orders = {o1}
  Handlers = {h1}
  Pollers = {p1}
  Workers <- MCOneWorkers
  Signature <- MCDistinct
  NoOrder = NoOrder
  Nobody = Nobody
  Payloads = {"success", "pending", "failed", "unknown"}
  PollRejects = FALSE
  MayExpire = TRUE
  MayDelete = FALSE
  MaxFaults = 1
SPECIFICATION FairSpec
CHECK_DEADLOCK FALSE
PROPERTY EventuallySettled
PROPERTY EventuallyBooked

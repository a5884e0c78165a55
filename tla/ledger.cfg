CONSTANTS
  Requests = {r1, r2, r3}
  Ids = {1, 2}
  Amounts = {1, 2}
  MaxFaults = 1
SPECIFICATION Spec
CHECK_DEADLOCK FALSE
SYMMETRY MCSymmetry
INVARIANT RowLagsByHooks
INVARIANT BalanceIsTotal
PROPERTY UpdateRepairs

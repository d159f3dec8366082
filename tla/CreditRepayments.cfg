SPECIFICATION Spec
CONSTANTS
  Clients = {c1, c2}
  Resellers = {r1}
  Accounts = {a1}
  Repayments = {p1, p2}
  MaxOrders = 2
  Amounts = {1, 2}
  Limits = {1}
  MaxUsed = 0
  DirectOrders = TRUE
  None = None
SYMMETRY Symmetry
CHECK_DEADLOCK FALSE
INVARIANT PaidIsBacked

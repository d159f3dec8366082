SPECIFICATION Spec
CONSTANTS
  Clients = {c1}
  Resellers = {r1, r2}
  Accounts = {a1, a2}
  Repayments = {p1, p2}
  MaxOrders = 2
  Amounts = {1, 2}
  Limits = {1}
  MaxUsed = 2
  DirectOrders = FALSE
  None = None
SYMMETRY Symmetry
CHECK_DEADLOCK FALSE
INVARIANTS CreditExact RepaymentsAddUp
PROPERTIES OrdersWithinLimit OldestFirst

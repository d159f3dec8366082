SPECIFICATION Spec
CONSTANTS
  Clients = {c1, c2}
  Orders = {o1}
  Intents = {"paystack", "flutterwave"}
  GatewayOf <- SameName
  MaxReferences = 1
  Payments = {p1, p2}
  Lines = {l1}
  Requests <- Splits
  Amounts = {}
  StartPoints = 1
  MaxPoints = 0
  InOrder = FALSE
  Crashes = TRUE
  None = None
SYMMETRY Symmetry
INVARIANT PaidIsReceived
INVARIANT CapturedIsReceived
PROPERTY FulfilledIsPaid
CHECK_DEADLOCK FALSE

SPECIFICATION Spec
CONSTANTS
  Clients = {c1}
  Orders = {o1, o2}
  Intents = {"paystack", "flutterwave", "moniepoint"}
  GatewayOf <- SameName
  MaxReferences = 1
  Payments = {p1, p2, p3}
  Lines = {l1}
  Requests <- Tills
  Amounts = {1}
  StartPoints = 1
  MaxPoints = 2
  InOrder = TRUE
  Crashes = FALSE
  None = None
SYMMETRY Symmetry
CHECK_DEADLOCK FALSE
INVARIANTS PaidIsCaptured PaymentsFollowIntents IntentsFollowProvider CancelledHoldsNothing

SPECIFICATION FairSpec
CONSTANTS
  Clients = {c1, c2}
  Orders = {o1}
  Intents = {"paystack", "flutterwave"}
  GatewayOf <- SameName
  MaxReferences = 1
  Payments = {p1}
  Lines = {l1}
  Requests <- Cards
  Amounts = {}
  StartPoints = 1
  MaxPoints = 0
  InOrder = TRUE
  Crashes = FALSE
  None = None
PROPERTY CaptureIsSeen
CHECK_DEADLOCK FALSE

CONSTANTS
  Clients = {c1, c2}
  Locations = {p1, p2}
  Orders = {o1}
  Levels = {l1, l2}
  Reservations = {r1, r2}
  Transfers = {t1}
  Quantities = {1}
  Corrections = {1}
  MaxStock <- OneAtP1
  Routes <- FromP1ToP2
  p1 = p1
  p2 = p2
  VariantNull = FALSE
  None = None
SPECIFICATION FairSpec
PROPERTIES CompletedWasApproved HandlersReturn
CHECK_DEADLOCK FALSE
INVARIANT StockConserved

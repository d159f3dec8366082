CONSTANTS
  Clients = {c1}
  Locations = {p1, p2}
  Orders = {o1}
  Levels = {l1, l2}
  Reservations = {r1, r2}
  Transfers = {t1}
  Quantities = {1, 2}
  Corrections <- PlusMinus
  MaxStock <- UpToTwo
  Routes <- AllRoutes
  p1 = p1
  p2 = p2
  VariantNull = TRUE
  None = None
SPECIFICATION Spec
SYMMETRY Symmetry
INVARIANTS StockPlaced ReservedMatches OneRowPerLocation
PROPERTY TransferWithinAvailable

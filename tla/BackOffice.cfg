SPECIFICATION Spec
CONSTANTS
  Services = {"imports", "payables", "finance", "agreements", "requests", "freight", "events",
              "catalog", "register", "session"}
  Clients = {c1, c2}
  Shipments = {s1}
  Lines = {d1, d2, d3}
  Receipts = {r1, r2}
  Products = {g1, g2}
  g1 = g1
  g2 = g2
  Drafts <- MCDrafts
  Bodies <- MCBodies
  Costs = {1}
  MaxCosts = 3
  Invoices = {r1, r2}
  Payments = {d1, d2, d3}
  Totals = {2}
  Amounts = {1, 2}
  Clerks = {k1}
  Recipients = {q1, q2, q3}
  q1 = q1
  q2 = q2
  q3 = q3
  Agreed = {q1, q2}
  Bills = {d1, d2, d3}
  PoolTotals = {1}
  Whole = 1000
  Tolerance = 1
  Splits <- MCSplits
  Markup = 1
  Fee = 1
  Sums <- MCSums
  MaxServed = 4
  Tickets = {t1}
  Actors = {r1, r2}
  Parcels = {r1, r2}
  Carriers = {k1, k2}
  Verified = {k1}
  Numbers = {r1, r2}
  Furthest = 2
  InTransit = 2
  Servers = {r1, r2}
  Messages = {m1, m2, m3}
  m1 = m1
  m2 = m2
  m3 = m3
  Events = {e1}
  e1 = e1
  EventOf <- MCEventOf
  Prefetch = 2
  MaxFaults = 3
  Editors = {k1}
  Deals = {s1}
  Rates = {1, 2, 3}
  Safe = {1, 2}
  MonthLength = 2
  YearLength = 4
  LastDay = 6
  EndDates = {1, 5}
  Items = {f1, f2}
  f1 = f1
  f2 = f2
  ScopeOf <- MCScopeOf
  FacetValues = {"1", "2"}
  Explicit <- MCExplicit
  Definable = {"concentration", "season"}
  Goods = {g1}
  MaxUnits = 2
  Discounts = {2}
  CreditLimit = 1
  MaxDrafts = 1
  Checks = {c1, c2}
  None = None
SYMMETRY Symmetry
INVARIANTS StockIsReceived LandedWithinTotal ReceiptMatchesShipment PayablesAgree BooksBalance PaidIsBanked FourEyes StatusIsReported HandledOnce NothingLost PastRatesKept FacetsFollowColumns OrdersAddUp SignedOutLeaves
PROPERTIES CloseIsComplete LockHolds
CHECK_DEADLOCK FALSE

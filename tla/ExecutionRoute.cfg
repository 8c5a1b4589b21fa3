CONSTANTS
  Providers = {p1, p2}
  Accounts = {a1, a2}
  Keys = {k1, k2}
  None = None
  MaxGeneration = 3
  Brokers = {"alpaca", "tiger", "ibkr", "longport", "futu", "schwab"}
  Clients = {c1, c2}
  Manuals = {m1}
  NoOrder = NoOrder
  Qty = 2
  MaxRevision = 2
  Plans = {e1, e2}
  Processes = {s1, s2}
  Users = {"research", "monitor"}
  Budget = 2
  MaxCycle = 1
SYMMETRY RouteSymmetry
SPECIFICATION MCSpec
INVARIANTS RouteTruthful AdaptersTruthful ResearchSideTruthful
PROPERTIES OrdersInSelection
CHECK_DEADLOCK TRUE

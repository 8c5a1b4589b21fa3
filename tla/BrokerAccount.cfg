CONSTANTS
  p1 = p1
  p2 = p2
  stock = stock
  NoClient = NoClient
  Plans = {p1, p2}
  Symbols = {stock}
  SymbolOf <- TradesStock
  Qty = 2
SPECIFICATION Spec
INVARIANTS OneDispatch LedgerTruthful NeverShort OneOwner OverMeansOver
PROPERTIES HistoryKept DispatchAuthorized RoundTrips
SYMMETRY PlanSymmetry

CONSTANTS
  p1 = p1
  p2 = p2
  stock = stock
  NoClient = NoClient
  Plans = {p1}
  Symbols = {stock}
  SymbolOf <- TradesStock
  Qty = 1
SPECIFICATION LiveSpec
PROPERTIES PlanResolves

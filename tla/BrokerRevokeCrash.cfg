CONSTANTS
  p1 = p1
  p2 = p2
  stock = stock
  NoClient = NoClient
  Plans = {p1}
  Symbols = {stock}
  SymbolOf <- TradesStock
  Qty = 2
SPECIFICATION Spec
INVARIANTS RevokedStaysDead

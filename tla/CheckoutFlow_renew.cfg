SPECIFICATION Spec
CONSTANTS
  f1 = f1
  p1 = p1
  p2 = p2
  Flows = {f1}
  Tab <- OneTab
  Products = {p1, p2}
  Wanted <- BatchOrder
  MaxOrders = 2
  MaxKeys = 2
  Budget = 1
  MayRefuse = {}
  NoFlow = NoFlow
INVARIANT BatchScreensAnswer
CHECK_DEADLOCK FALSE

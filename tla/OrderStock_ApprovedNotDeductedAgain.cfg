CONSTANTS
  p1 = p1
  p2 = p2
  Orders = {o1}
  Products = {p1, p2}
  Approvers = {a1, a2}
  Rejecters = {j1}
  StockAdmins = {}
  Carts <- MCCarts
  Quantities = {2, 3}
  MaxFaults = 1
  MaxEdits = 0
SPECIFICATION Spec
PROPERTIES ApprovedNotDeductedAgain
CHECK_DEADLOCK FALSE

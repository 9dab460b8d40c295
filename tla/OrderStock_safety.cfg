CONSTANTS
  p1 = p1
  p2 = p2
  Orders = {o1, o2}
  Products = {p1, p2}
  Approvers = {a1, a2}
  Rejecters = {j1}
  StockAdmins = {s1}
  Carts <- MCCarts
  Quantities = {2}
  MaxFaults = 1
  MaxEdits = 1
SPECIFICATION Spec
SYMMETRY MCSymmetry
INVARIANTS
  TypeOK
  StockNeverNegative
  ApprovedWasDeducted
  DeductedOncePerLoss
  PendingUntouched
  NoStandstill
PROPERTIES
  DeductionWhole
  LedgerSpec
CHECK_DEADLOCK FALSE

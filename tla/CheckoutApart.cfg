CONSTANTS
  RequestIds = {r1, r2}
  Calls = {k1, k2}
  CartIds = {c1, c2}
  OrderIds = {o1, o2}
  Shops = {s1, s2}
  Receipts = {x1}
  MaxQuantity = 3
  maxRedemptions = 1
  None = None
SYMMETRY MCSymmetry
SPECIFICATION MCApart
INVARIANT DuplicatesGetTheirOrder
CHECK_DEADLOCK FALSE

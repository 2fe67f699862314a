CONSTANTS
  RequestIds = {r1, r2}
  Calls = {k1, k2}
  CartIds = {c1, c2}
  OrderIds = {o1, o2, o3}
  Shops = {s1}
  Receipts = {x1, x2}
  MaxQuantity = 1
  maxRedemptions = 1
  None = None
SYMMETRY MCSymmetry
SPECIFICATION CheckoutSpec
PROPERTY PlacesOnce
CHECK_DEADLOCK FALSE

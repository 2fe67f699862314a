CONSTANTS
  RequestIds = {r1, r2, r3}
  Calls = {k1, k2}
  CartIds = {c1, c2}
  OrderIds = {o1, o2, o3}
  Shops = {s1, s2}
  Receipts = {x1}
  MaxQuantity = 1
  maxRedemptions = 1
  None = None
SYMMETRY MCSymmetry
SPECIFICATION CheckoutSpec
INVARIANT OneOrderEach ClaimsHaveOwners RedemptionsCounted CartsSoldTogether
CHECK_DEADLOCK FALSE

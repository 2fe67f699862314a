CONSTANTS
  Orders = {o1}
  fulfilment <- MCDelivery
  Couriers = {c1}
  Sides = {"CUSTOMER", "BUSINESS", "ADMIN"}
  Movers = {m1, m2}
  MaxVersion = 5
  Nobody = Nobody
SYMMETRY MCSymmetry
SPECIFICATION MovesSpec
INVARIANT UniqueVersions LegalHistory
PROPERTY MoveAndEvent ImplementsLog
CHECK_DEADLOCK FALSE

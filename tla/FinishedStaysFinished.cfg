CONSTANTS
  Orders = {o1}
  fulfilment <- MCDelivery
  Couriers = {c1}
  Sides = {"CUSTOMER", "BUSINESS", "ADMIN"}
  Movers = {m1, m2}
  MaxVersion = 3
  Nobody = Nobody
SYMMETRY MCSymmetry
SPECIFICATION MovesSpec
CHECK_DEADLOCK FALSE
PROPERTY FinishedStaysFinished

CONSTANTS
  Orders = {o1}
  fulfilment <- MCDelivery
  paymentFlow = {}
  Couriers = {c1, c2}
  Sides = {"BUSINESS"}
  Movers = {m1, m2}
  MaxVersion = 5
  Nobody = Nobody
SYMMETRY MCSymmetry
SPECIFICATION FulfilmentSpec
INVARIANT ShopOrCourier CourierAgrees
PROPERTY AnsweredStaysAnswered
CHECK_DEADLOCK FALSE

CONSTANTS
  Orders = {o1, o2}
  fulfilment <- MCDelivery
  paymentFlow = {o2}
  Couriers = {c1}
  Sides = {"BUSINESS"}
  Movers = {m1}
  MaxVersion = 5
  Nobody = Nobody
SPECIFICATION FulfilmentSpec
INVARIANT CouriersCarryOne
CHECK_DEADLOCK FALSE

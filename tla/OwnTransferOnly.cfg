CONSTANTS
  Orders = {o1}
  fulfilment <- MCDelivery
  paymentMethod <- MCTransfer
  due <- MCDue
  Receipts = {x1, x2}
  first = x1
  second = x2
  image <- MCImage
  checkout <- MCCheckout
  Couriers = {c1, c2}
  Sides = {"BUSINESS"}
  Movers = {m1}
  MaxVersion = 4
  Requests = {r1}
  MaxPayVersion = 3
  Nobody = Nobody
SPECIFICATION PaymentsSpec
INVARIANT OwnTransferOnly
CHECK_DEADLOCK FALSE

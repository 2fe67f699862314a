CONSTANTS
  Orders = {o1}
  fulfilment <- MCDelivery
  paymentMethod <- MCTransfer
  due <- MCDue
  Receipts = {x1, x2, x3}
  first = x1
  second = x2
  image <- MCImage
  checkout <- MCCheckout
  Couriers = {c1}
  Sides = {"BUSINESS"}
  Movers = {m1}
  MaxVersion = 6
  Requests = {r1, r2}
  MaxPayVersion = 3
  Nobody = Nobody
SYMMETRY MCSymmetry
SPECIFICATION PaymentsSpec
INVARIANT PaidStages ColumnsAgree EvidenceKept AuditTellsAll
PROPERTY KeepsPromise ConfirmedAsShown
CHECK_DEADLOCK FALSE

CONSTANTS
  Orders = {o1}
  fulfilment <- MCDelivery
  paymentFlow = {o1}
  Couriers = {c1, c2}
  Sides = {"BUSINESS", "CUSTOMER"}
  Movers = {m1}
  MaxVersion = 7
  Nobody = Nobody
SPECIFICATION FairSpec
INVARIANT RunMatchesOrder VersionOrderIsMoveOrder OfferedHasSomebody
PROPERTY FinishedStaysFinished LeftRunIsHistory OfferIsAnswered ImplementsMoves
CHECK_DEADLOCK FALSE

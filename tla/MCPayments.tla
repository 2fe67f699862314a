------------------------------ MODULE MCPayments ------------------------------
(* Instances of Payments for TLC: one delivery paid by transfer, its goods *)
(* and its delivery fee.                                                   *)
EXTENDS Payments, TLC

CONSTANTS first, second   \* receipts of two pictures, and

MCDelivery == [o \in Orders |-> "DELIVERY"]
MCTransfer == [o \in Orders |-> "SINPE_MOVIL"]
MCDue == [o \in Orders |-> {"MERCHANT_ORDER", "COURIER_COLLECTION"}]
MCCheckout == [o \in Orders |-> first]
\* every receipt but the first shows the same picture.
MCImage == [x \in Receipts |-> IF x = first THEN first ELSE second]
MCSymmetry == Permutations(Requests)

\* The behaviours of PaymentsSpec whose every step satisfies PayeeStays.
MCPayeeStays == PaymentsInit /\ [][PaymentsNext /\ PayeeStays]_paymentVars
=============================================================================

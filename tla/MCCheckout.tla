------------------------------ MODULE MCCheckout ------------------------------
(* Instances of Checkout for TLC: two or three calls of one customer.      *)
EXTENDS Checkout, TLC

MCSymmetry == Permutations(Calls) \cup Permutations(RequestIds)
                \cup Permutations(CartIds) \cup Permutations(OrderIds)

\* Placements that keep out of each other's way: the behaviours of CheckoutSpec in
\* which PlacesApart always holds.
MCApart == CheckoutInit /\ [][CheckoutNext /\ PlacesApart']_checkoutVars
=============================================================================

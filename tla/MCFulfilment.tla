---------------------------- MODULE MCFulfilment ----------------------------
(* Instances of Fulfilment for TLC: one order, whose run is fought over. *)
EXTENDS Fulfilment, TLC

MCDelivery == [o \in Orders |-> "DELIVERY"]
MCSymmetry == Permutations(Movers) \cup Permutations(Couriers)
=============================================================================

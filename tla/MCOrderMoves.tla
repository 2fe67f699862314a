---------------------------- MODULE MCOrderMoves ----------------------------
(* Instances of OrderMoves for TLC: one order, on which every request      *)
(* meets the others.                                                       *)
EXTENDS OrderMoves, TLC

MCDelivery == [o \in Orders |-> "DELIVERY"]
MCSymmetry == Permutations(Movers)
=============================================================================

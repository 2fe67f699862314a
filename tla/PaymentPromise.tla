---------------------------- MODULE PaymentPromise ----------------------------
(***************************************************************************)
(* What the separate payments promise the parties of an order, however     *)
(* their requests and its moves interleave: a leg is settled once and for  *)
(* good, never while the order stands called off, and the order reaches a  *)
(* stage only with the legs of that stage settled.                         *)
(***************************************************************************)
EXTENDS OrderState

CONSTANTS Orders,   \* the orders
          Legs,     \* their obligations: <<order, purpose>>
          needs     \* needs[o][to]: the legs owed before o reaches to

VARIABLES settledLegs,   \* the legs nobody owes any more
          stage          \* where each order stands

promiseVars == <<settledLegs, stage>>

PromiseInit == /\ settledLegs \subseteq Legs
               /\ stage = [o \in Orders |-> "PENDING"]

Settle(l) == /\ l \in Legs \ settledLegs
             /\ stage[l[1]] \notin {"CANCELLED", "REJECTED"}
             /\ settledLegs' = settledLegs \cup {l}
             /\ UNCHANGED stage

Reach(o, to) == /\ needs[o][to] \subseteq settledLegs
                /\ stage' = [stage EXCEPT ![o] = to]
                /\ UNCHANGED settledLegs

PromiseNext == \/ \E l \in Legs : Settle(l)
               \/ \E o \in Orders, to \in OrderStatuses : Reach(o, to)

PromiseSpec == PromiseInit /\ [][PromiseNext]_promiseVars
=============================================================================

----------------------------- MODULE OrderState -----------------------------
(***************************************************************************)
(* The order state machine of packages/shared/src/order-state.ts: the      *)
(* statuses, who may make which move, and which statuses are final.  Every *)
(* handler that moves an order asks canTransition first, so every module   *)
(* about orders extends this one.                                          *)
(***************************************************************************)

OrderStatuses == {"PENDING", "ACCEPTED", "PREPARING", "READY",
                  "OUT_FOR_DELIVERY", "COMPLETED", "CANCELLED", "REJECTED"}

\* SYSTEM is in the source's list of actors but makes no move of the table.
OrderActors == {"CUSTOMER", "BUSINESS", "COURIER", "ADMIN"}

FulfilmentKinds == {"DELIVERY", "PICKUP"}

TERMINAL_STATUSES == {"COMPLETED", "CANCELLED", "REJECTED"}

isTerminalStatus(status) == status \in TERMINAL_STATUSES

(***************************************************************************)
(* TRANSITIONS, one row per entry of the table: the status it leaves, the  *)
(* status it reaches, the actors it is for and the fulfilments it is for.  *)
(***************************************************************************)
Move(from, to, by, fulfilment) ==
  [from |-> from, to |-> to, by |-> by, fulfilment |-> fulfilment]

TRANSITIONS ==
  {Move("PENDING", "ACCEPTED", {"BUSINESS", "ADMIN"}, FulfilmentKinds),
   Move("PENDING", "REJECTED", {"BUSINESS", "ADMIN"}, FulfilmentKinds),
   Move("PENDING", "CANCELLED", {"CUSTOMER", "ADMIN"}, FulfilmentKinds),
   Move("ACCEPTED", "PREPARING", {"BUSINESS", "ADMIN"}, FulfilmentKinds),
   Move("ACCEPTED", "CANCELLED", {"CUSTOMER", "BUSINESS", "ADMIN"}, FulfilmentKinds),
   Move("PREPARING", "READY", {"BUSINESS", "ADMIN"}, FulfilmentKinds),
   Move("PREPARING", "CANCELLED", {"BUSINESS", "ADMIN"}, FulfilmentKinds),
   Move("READY", "OUT_FOR_DELIVERY", {"BUSINESS", "COURIER", "ADMIN"}, {"DELIVERY"}),
   Move("READY", "COMPLETED", {"BUSINESS", "COURIER", "ADMIN"}, {"PICKUP"}),
   Move("READY", "CANCELLED", {"BUSINESS", "ADMIN"}, FulfilmentKinds),
   Move("OUT_FOR_DELIVERY", "COMPLETED", {"COURIER", "ADMIN"}, FulfilmentKinds),
   Move("OUT_FOR_DELIVERY", "CANCELLED", {"ADMIN"}, FulfilmentKinds)}

canTransition(from, to, actor, fulfilment) ==
  \E t \in TRANSITIONS :
    /\ t.from = from /\ t.to = to
    /\ actor \in t.by
    /\ fulfilment \in t.fulfilment

=============================================================================

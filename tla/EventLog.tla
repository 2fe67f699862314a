------------------------------ MODULE EventLog ------------------------------
(***************************************************************************)
(* What the outbox_event table promises the readers of an order's events,  *)
(* whoever moves the order and however their statements interleave: the    *)
(* log only grows, a version of an order is claimed once, and every event  *)
(* is a move its actor may make.  It does not promise that consecutive     *)
(* versions chain, that versions are consecutive, or that versions grow in *)
(* the order of the moves.                                                 *)
(***************************************************************************)
EXTENDS OrderState, Naturals

CONSTANTS Orders, fulfilment, MaxVersion

VARIABLE outbox

OutboxRow == [order : Orders, version : 1..MaxVersion,
              from : OrderStatuses \cup {"CREATED"}, to : OrderStatuses,
              actor : OrderActors]

PlacedEvent(o) == [order |-> o, version |-> 1, from |-> "CREATED", to |-> "PENDING",
                   actor |-> "CUSTOMER"]

\* The table's moves, and the guarded self-delivery the table leaves out.
LegalMove(from, to, actor, o) ==
  \/ canTransition(from, to, actor, fulfilment[o])
  \/ /\ from = "OUT_FOR_DELIVERY" /\ to = "COMPLETED"
     /\ actor = "BUSINESS" /\ fulfilment[o] = "DELIVERY"

Record(e) ==
  /\ e \in OutboxRow
  /\ LegalMove(e.from, e.to, e.actor, e.order)
  /\ \A f \in outbox : f.order = e.order => f.version # e.version
  /\ outbox' = outbox \cup {e}

LogInit == outbox = {PlacedEvent(o) : o \in Orders}
\* The witness is sought in the new log rather than in all of OutboxRow.
LogNext == \E e \in outbox' : Record(e)
LogSpec == LogInit /\ [][LogNext]_outbox

=============================================================================

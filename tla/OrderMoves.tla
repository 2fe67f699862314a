----------------------------- MODULE OrderMoves -----------------------------
(***************************************************************************)
(* How an order's status moves: orders.advance, orders.cancel and the      *)
(* self-delivery moves through applyMove, admin.cancelOrder, and the two   *)
(* handlers that write the order's courier.                                *)
(*                                                                         *)
(* D1 has no transaction that spans a read and a write.  A handler is a    *)
(* sequence of statements, each atomic, and every other request runs       *)
(* between two of them.  A mover is one such request: it reads the order,  *)
(* reserves a version with a compare-and-set, and writes the move in a     *)
(* batch that is NOT conditional on that version.                          *)
(*                                                                         *)
(* The delivery row of the order, its offers, and the statements of these  *)
(* handlers that touch them are in Fulfilment, which instantiates this     *)
(* module; the payment stages and the express quota that may still refuse  *)
(* a move after the read are Abandon here.                                 *)
(***************************************************************************)
EXTENDS OrderState, Naturals

CONSTANTS Orders,       \* order ids
          fulfilment,   \* the fulfilment of each order, fixed when placed
          Couriers,     \* accounts that may carry a delivery
          Sides,        \* the other callers of orders.advance and orders.cancel
          Movers,       \* concurrent requests that move an order
          MaxVersion,   \* bound: no version above this one is reserved
          Nobody        \* null: an order without courier, an idle mover's order

\* A caller is a courier, named, or one of the sides of the order.
Callers == Couriers \cup {"CUSTOMER", "BUSINESS", "ADMIN"}

ASSUME OrderMovesAssumption ==
  /\ fulfilment \in [Orders -> FulfilmentKinds]
  /\ MaxVersion \in Nat \ {0}
  /\ Nobody \notin Orders \cup Callers
  /\ Sides \subseteq {"CUSTOMER", "BUSINESS", "ADMIN"}
  /\ Couriers \cap {"CUSTOMER", "BUSINESS", "ADMIN"} = {}

VARIABLES order,      \* the order table: status, version, courierUserId
          timeline,   \* the order_event table
          outbox,     \* the outbox_event table
          mover       \* the requests in flight

moveVars == <<order, timeline, outbox, mover>>

\* What the outbox promises its readers; MovesSpec implements it.
Log == INSTANCE EventLog
  WITH Orders <- Orders, fulfilment <- fulfilment, MaxVersion <- MaxVersion, outbox <- outbox

-----------------------------------------------------------------------------
actorFor(caller) == IF caller \in Couriers THEN "COURIER" ELSE caller

OrderRow == [status : OrderStatuses, version : 1..MaxVersion,
             courier : Couriers \cup {Nobody}]

\* CREATED is the from of the row that place writes, where it is null.
TimelineRow == [order : Orders, from : OrderStatuses \cup {"CREATED"},
                to : OrderStatuses, actor : OrderActors]

(***************************************************************************)
(* pc is "idle", then after the read "read", then "reserved" once the      *)
(* version is taken; "adminRead" is admin.cancelOrder after its read, and  *)
(* "claimOut" startSelfDelivery of an order that is out already, which     *)
(* claims the run and moves no status.  seen and base are the status and   *)
(* version of the row it read, self the selfDelivery argument of applyMove.*)
(***************************************************************************)
MoverRow == [pc : {"idle", "read", "adminRead", "claimOut", "reserved"},
             order : Orders \cup {Nobody}, caller : Callers \cup {Nobody},
             seen : OrderStatuses, base : 1..MaxVersion, to : OrderStatuses,
             self : {"no", "start", "complete"}]

Idle == [pc |-> "idle", order |-> Nobody, caller |-> Nobody, seen |-> "PENDING",
         base |-> 1, to |-> "PENDING", self |-> "no"]

\* place writes the order, its first timeline row and its first event.
Placed(o) == [order |-> o, from |-> "CREATED", to |-> "PENDING", actor |-> "CUSTOMER"]
MovesInit ==
  /\ order = [o \in Orders |-> [status |-> "PENDING", version |-> 1, courier |-> Nobody]]
  /\ timeline = {Placed(o) : o \in Orders}
  /\ outbox = {Log!PlacedEvent(o) : o \in Orders}
  /\ mover = [m \in Movers |-> Idle]

-----------------------------------------------------------------------------
(***************************************************************************)
(* The first statement of a handler: reachableOrder reads the row, and the *)
(* checks before the next await are decided on what it returned.           *)
(***************************************************************************)
Remember(m, pc, o, caller, to, self) ==
  mover' = [mover EXCEPT ![m] =
              [pc |-> pc, order |-> o, caller |-> caller, seen |-> order[o].status,
               base |-> order[o].version, to |-> to, self |-> self]]

\* Mutant: the move is not looked up in the table.
ReadToMoveUnchecked(m, o, caller, to) ==
  /\ mover[m].pc = "idle"
  /\ caller \in Couriers => order[o].courier = caller
  /\ Remember(m, "read", o, caller, to, "no")
  /\ UNCHANGED <<order, timeline, outbox>>

\* orders.advance and orders.cancel.  A courier moves only the order it carries.
ReadToMove(m, o, caller, to) ==
  /\ mover[m].pc = "idle"
  /\ caller \in Couriers => order[o].courier = caller
  /\ canTransition(order[o].status, to, actorFor(caller), fulfilment[o])
  /\ Remember(m, "read", o, caller, to, "no")
  /\ UNCHANGED <<order, timeline, outbox>>

\* startSelfDelivery: the shop takes the order out itself.
ReadToStartSelf(m, o) ==
  /\ mover[m].pc = "idle"
  /\ fulfilment[o] = "DELIVERY" /\ order[o].status = "READY"
  /\ Remember(m, "read", o, "BUSINESS", "OUT_FOR_DELIVERY", "start")
  /\ UNCHANGED <<order, timeline, outbox>>

ReadToClaimOut(m, o) ==
  /\ mover[m].pc = "idle"
  /\ fulfilment[o] = "DELIVERY" /\ order[o].status = "OUT_FOR_DELIVERY"
  /\ Remember(m, "claimOut", o, "BUSINESS", "OUT_FOR_DELIVERY", "start")
  /\ UNCHANGED <<order, timeline, outbox>>

\* completeSelfDelivery: the move the table does not give the business.
ReadToCompleteSelf(m, o) ==
  /\ mover[m].pc = "idle"
  /\ fulfilment[o] = "DELIVERY" /\ order[o].status = "OUT_FOR_DELIVERY"
  /\ Remember(m, "read", o, "BUSINESS", "COMPLETED", "complete")
  /\ UNCHANGED <<order, timeline, outbox>>

\* Mutant: the update does not ask for the version that was read.
ReserveBlind(m) ==
  /\ mover[m].pc = "read"
  /\ order[mover[m].order].version < MaxVersion
  /\ order' = [order EXCEPT ![mover[m].order].version = @ + 1]
  /\ mover' = [mover EXCEPT ![m].pc = "reserved"]
  /\ UNCHANGED <<timeline, outbox>>

\* The compare-and-set: version + 1 where version is still the one read.
Reserve(m) ==
  LET o == mover[m].order IN
  /\ mover[m].pc = "read"
  /\ order[o].version = mover[m].base
  /\ order[o].version < MaxVersion
  /\ order' = [order EXCEPT ![o].version = @ + 1]
  /\ mover' = [mover EXCEPT ![m].pc = "reserved"]
  /\ UNCHANGED <<timeline, outbox>>

\* No row matched: "El pedido cambio mientras lo mirabas".
LoseReservation(m) ==
  /\ mover[m].pc = "read"
  /\ order[mover[m].order].version # mover[m].base
  /\ mover' = [mover EXCEPT ![m] = Idle]
  /\ UNCHANGED <<order, timeline, outbox>>

\* Mutant: the event names the version that was read.
MoveEventStale(m) ==
  [order |-> mover[m].order, version |-> mover[m].base, from |-> mover[m].seen,
   to |-> mover[m].to, actor |-> actorFor(mover[m].caller)]

\* The event of a reserved move: the version its compare-and-set returned.
MoveEvent(m) ==
  [order |-> mover[m].order, version |-> mover[m].base + 1, from |-> mover[m].seen,
   to |-> mover[m].to, actor |-> actorFor(mover[m].caller)]

\* Mutant: the status is written only where it is still the one read, and the
\* event is written all the same (the alternative applyMove's comment rejects).
CommitMoveWhere(m) ==
  LET e == MoveEvent(m) IN
  /\ mover[m].pc = "reserved"
  /\ order' = [order EXCEPT ![e.order].status = IF @ = e.from THEN e.to ELSE @]
  /\ timeline' = timeline \cup
       {[order |-> e.order, from |-> e.from, to |-> e.to, actor |-> e.actor]}
  /\ outbox' = outbox \cup {e}
  /\ mover' = [mover EXCEPT ![m] = Idle]

\* The batch: status where id, the timeline row and the outbox row.
CommitMove(m) ==
  LET e == MoveEvent(m) IN
  /\ mover[m].pc = "reserved"
  /\ order' = [order EXCEPT ![e.order].status = e.to]
  /\ timeline' = timeline \cup
       {[order |-> e.order, from |-> e.from, to |-> e.to, actor |-> e.actor]}
  /\ outbox' = outbox \cup {e}
  /\ mover' = [mover EXCEPT ![m] = Idle]

(***************************************************************************)
(* A request ends without its move: the delivery gate, the express quota   *)
(* or the payment stage refuses it after the read, its batch fails, it had *)
(* no status to move, or the Worker dies between two statements.           *)
(***************************************************************************)
Abandon(m) ==
  /\ mover[m].pc # "idle"
  /\ mover' = [mover EXCEPT ![m] = Idle]
  /\ UNCHANGED <<order, timeline, outbox>>

\* admin.cancelOrder reads, asks the table as ADMIN, ...
AdminRead(m, o) ==
  /\ mover[m].pc = "idle"
  /\ canTransition(order[o].status, "CANCELLED", "ADMIN", fulfilment[o])
  /\ Remember(m, "adminRead", o, "ADMIN", "CANCELLED", "no")
  /\ UNCHANGED <<order, timeline, outbox>>

\* ... and writes the status and a timeline row: no version, no outbox row.
AdminCancel(m) ==
  LET o == mover[m].order IN
  /\ mover[m].pc = "adminRead"
  /\ order' = [order EXCEPT ![o].status = "CANCELLED"]
  /\ timeline' = timeline \cup
       {[order |-> o, from |-> mover[m].seen, to |-> "CANCELLED", actor |-> "ADMIN"]}
  /\ mover' = [mover EXCEPT ![m] = Idle]
  /\ UNCHANGED outbox

\* deliveries.acceptOffer and orders.assign write order.courierUserId.
SetCourier(o, c) ==
  /\ fulfilment[o] = "DELIVERY"
  /\ order' = [order EXCEPT ![o].courier = c]
  /\ UNCHANGED <<timeline, outbox, mover>>

MoverStep(m) ==
  \/ \E o \in Orders, caller \in Couriers \cup Sides, to \in OrderStatuses : ReadToMove(m, o, caller, to)
  \/ \E o \in Orders : \/ ReadToStartSelf(m, o) \/ ReadToClaimOut(m, o)
                       \/ ReadToCompleteSelf(m, o) \/ AdminRead(m, o)
  \/ Reserve(m)
  \/ LoseReservation(m)
  \/ CommitMove(m)
  \/ Abandon(m)
  \/ AdminCancel(m)

MovesNext ==
  \/ \E m \in Movers : MoverStep(m)
  \/ \E o \in Orders, c \in Couriers : SetCourier(o, c)

MovesSpec == MovesInit /\ [][MovesNext]_moveVars

-----------------------------------------------------------------------------
(***************************************************************************)
(* Properties.                                                             *)
(***************************************************************************)

\* Every table and every request holds rows of its type.
MovesTypeOK ==
  /\ order \in [Orders -> OrderRow]
  /\ timeline \subseteq TimelineRow
  /\ outbox \subseteq Log!OutboxRow
  /\ mover \in [Movers -> MoverRow]
  /\ \A m \in Movers :
       /\ mover[m].pc # "idle" => mover[m].order \in Orders /\ mover[m].caller \in Callers
       /\ mover[m].pc = "reserved" => mover[m].base < MaxVersion

(***************************************************************************)
(* No two events claim the same version of one order: what the             *)
(* compare-and-set of applyMove is for (orders.ts:1669), whatever two      *)
(* movers read and in whichever order their batches commit.                *)
(***************************************************************************)
UniqueVersions ==
  \A e, f \in outbox : e.order = f.order /\ e.version = f.version => e = f

(***************************************************************************)
(* A reserved version belongs to one request until it commits or dies: no  *)
(* event has it yet, no other request holds it, and no event or reservation*)
(* is ahead of the row.                                                    *)
(***************************************************************************)
Reserved(o) == {m \in Movers : mover[m].pc = "reserved" /\ mover[m].order = o}

ReservationsHeld ==
  /\ \A e \in outbox : e.version <= order[e.order].version
  /\ \A o \in Orders : \A m \in Reserved(o) :
       /\ mover[m].base < order[o].version
       /\ \A e \in outbox : e.order = o => e.version # mover[m].base + 1
       /\ \A n \in Reserved(o) : mover[n].base = mover[m].base => n = m

\* A request past its read plans a legal move.
LegalPlans ==
  \A m \in Movers :
    /\ mover[m].pc \in {"read", "reserved"} =>
         Log!LegalMove(mover[m].seen, mover[m].to, actorFor(mover[m].caller), mover[m].order)
    /\ mover[m].pc = "adminRead" =>
         canTransition(mover[m].seen, "CANCELLED", "ADMIN", fulfilment[mover[m].order])

(***************************************************************************)
(* Every row of the timeline is a move its actor may make, however stale   *)
(* the read it was decided on: no interleaving makes a customer cancel     *)
(* food that is made, or an order leave a final status on the record.      *)
(***************************************************************************)
LegalHistory ==
  \A t \in timeline : t = Placed(t.order) \/ Log!LegalMove(t.from, t.to, t.actor, t.order)

(***************************************************************************)
(* The log its readers see only grows, with fresh versions and legal moves:*)
(* orderEvent and the batch of applyMove implement EventLog.               *)
(***************************************************************************)
ImplementsLog == Log!LogSpec

\* The timeline records an ADMIN cancellation of the order.
CancelledByOperator(o) ==
  \E t \in timeline : t.order = o /\ t.to = "CANCELLED" /\ t.actor = "ADMIN"

(***************************************************************************)
(* "The order moved" and "there is an event about it" are one write        *)
(* (orders.ts:1770): a step adds an event exactly when it sets the status  *)
(* the event names, and a move without event is an operator's cancellation *)
(* with its timeline row.                                                  *)
(***************************************************************************)
MoveAndEvent ==
  [][\A o \in Orders :
       LET news == {e \in outbox' \ outbox : e.order = o} IN
       /\ \A e \in news : order'[o].status = e.to
       /\ order'[o].status # order[o].status /\ news = {} =>
            /\ order'[o].status = "CANCELLED"
            /\ CancelledByOperator(o)'
    ]_moveVars

(***************************************************************************)
(* "Nothing may leave these, for any actor" (order-state.ts:63).  True     *)
(* while requests about one order do not overlap.  Violated when they do:  *)
(* the status write is not conditional on the status or version it was     *)
(* decided on.                                                             *)
(***************************************************************************)
FinishedStaysFinished ==
  [][\A o \in Orders : isTerminalStatus(order[o].status) =>
       order'[o].status = order[o].status]_moveVars

(***************************************************************************)
(* A projection that keeps the event of the highest version agrees with    *)
(* the order's own row, between any two statements: "aggregateVersion      *)
(* promises order" (orders.ts:1692).  True while requests on one order do  *)
(* not overlap, whatever dies between its statements; two reserved moves   *)
(* may commit in either order.  An operator's cancellation has no event.   *)
(***************************************************************************)
VersionOrderIsMoveOrder ==
  \A o \in Orders :
    ~CancelledByOperator(o) =>
      \E e \in outbox : /\ e.order = o /\ e.to = order[o].status
                        /\ \A f \in outbox \ {e} : f.order = o => f.version < e.version

=============================================================================

-------------------------- MODULE OrderMovesProofs --------------------------
(***************************************************************************)
(* Proofs about OrderMoves, for any number of orders, couriers and         *)
(* concurrent requests and any bound on versions.                          *)
(*                                                                         *)
(* UniqueVersions is not inductive: a reserved request is about to add an  *)
(* event, so the invariant must say that its version is free and that no   *)
(* other request holds it (ReservationsHeld), and that the move it plans is*)
(* legal although the row has moved on since it was read (LegalPlans).     *)
(*                                                                         *)
(* VersionOrderIsMoveOrder and FinishedStaysFinished are proved of         *)
(* requests that do not overlap, whose read is still what the row says     *)
(* when they write (UpToDate).                                             *)
(***************************************************************************)
EXTENDS OrderMoves, TLAPS

-----------------------------------------------------------------------------
\* The table of order-state.ts only names statuses.
LEMMA TransitionTypes ==
  ASSUME NEW from, NEW to, NEW actor, NEW kind, canTransition(from, to, actor, kind)
  PROVE  from \in OrderStatuses /\ to \in OrderStatuses
  BY DEF canTransition, TRANSITIONS, Move, OrderStatuses

\* EventLog speaks of the same statuses, actors and table.
LEMMA LogNames ==
  /\ Log!OrderStatuses = OrderStatuses
  /\ Log!OrderActors = OrderActors
  /\ \A from, to, actor, kind :
       Log!canTransition(from, to, actor, kind) <=> canTransition(from, to, actor, kind)
  BY DEF Log!OrderStatuses, OrderStatuses, Log!OrderActors, OrderActors,
         Log!canTransition, canTransition, Log!TRANSITIONS, TRANSITIONS, Log!Move, Move,
         Log!FulfilmentKinds, FulfilmentKinds

\* The row of a request that is done.
LEMMA IdleRow ==
  Idle \in MoverRow
  <1>1. "PENDING" \in OrderStatuses
    BY DEF OrderStatuses
  <1>2. 1 \in 1..MaxVersion
    BY OrderMovesAssumption
  <1> QED
    BY <1>1, <1>2 DEF Idle, MoverRow

\* A statement that writes no table keeps types if it keeps the requests'.
LEMMA MoverOnlyTypes ==
  ASSUME MovesTypeOK, UNCHANGED <<order, timeline, outbox>>, NEW m \in Movers,
         mover' \in [Movers -> MoverRow], \A n \in Movers \ {m} : mover'[n] = mover[n],
         mover'[m].pc # "idle" => mover'[m].order \in Orders /\ mover'[m].caller \in Callers,
         mover'[m].pc # "reserved"
  PROVE  MovesTypeOK'
  BY DEF MovesTypeOK

\* So a handler's first read keeps types.
LEMMA RememberTypes ==
  ASSUME MovesTypeOK, UNCHANGED <<order, timeline, outbox>>,
         NEW m \in Movers, NEW o \in Orders, NEW caller \in Callers,
         NEW pc \in {"read", "adminRead", "claimOut"}, NEW to \in OrderStatuses,
         NEW self \in {"no", "start", "complete"}, Remember(m, pc, o, caller, to, self)
  PROVE  MovesTypeOK'
  <1>1. /\ mover' \in [Movers -> MoverRow]
        /\ mover'[m] = [pc |-> pc, order |-> o, caller |-> caller,
                        seen |-> order[o].status, base |-> order[o].version,
                        to |-> to, self |-> self]
        /\ \A n \in Movers \ {m} : mover'[n] = mover[n]
    BY DEF Remember, MovesTypeOK, MoverRow, OrderRow
  <1>2. mover'[m].order = o /\ mover'[m].caller = caller /\ mover'[m].pc = pc
    BY <1>1
  <1> QED
    BY <1>1, <1>2, MoverOnlyTypes

-----------------------------------------------------------------------------
(***************************************************************************)
(* Type correctness: every table and every request keeps rows of its type, *)
(* in every behaviour of the moves of orders.ts and admin.ts.              *)
(***************************************************************************)
LEMMA MovesTypeInit == MovesInit => MovesTypeOK
  <1> SUFFICES ASSUME MovesInit PROVE MovesTypeOK
    OBVIOUS
  <1> USE OrderMovesAssumption
  <1>1. order \in [Orders -> OrderRow]
    BY DEF MovesInit, OrderRow, OrderStatuses
  <1>2. timeline \subseteq TimelineRow
    BY DEF MovesInit, TimelineRow, Placed, OrderStatuses, OrderActors
  <1>3. outbox \subseteq Log!OutboxRow
    BY LogNames DEF MovesInit, Log!OutboxRow, Log!PlacedEvent, OrderStatuses, OrderActors
  <1>4. mover \in [Movers -> MoverRow]
    BY IdleRow DEF MovesInit
  <1>5. \A m \in Movers : mover[m].pc = "idle"
    BY DEF MovesInit, Idle
  <1> QED
    BY <1>1, <1>2, <1>3, <1>4, <1>5 DEF MovesTypeOK

\* One step per statement; each writes rows of the type of the table.
LEMMA MovesTypeNext == MovesTypeOK /\ [MovesNext]_moveVars => MovesTypeOK'
  <1> SUFFICES ASSUME MovesTypeOK, [MovesNext]_moveVars PROVE MovesTypeOK'
    OBVIOUS
  <1> USE OrderMovesAssumption
  <1>1. ASSUME NEW m \in Movers, NEW o \in Orders, NEW caller \in Couriers \cup Sides,
               NEW to \in OrderStatuses, ReadToMove(m, o, caller, to)
        PROVE  MovesTypeOK'
    <2>1. caller \in Callers
      BY OrderMovesAssumption DEF Callers
    <2> QED
      BY <1>1, <2>1, RememberTypes DEF ReadToMove
  <1>2. ASSUME NEW m \in Movers, NEW o \in Orders,
               \/ ReadToStartSelf(m, o) \/ ReadToClaimOut(m, o)
               \/ ReadToCompleteSelf(m, o) \/ AdminRead(m, o)
        PROVE  MovesTypeOK'
    <2>1. {"BUSINESS", "ADMIN"} \subseteq Callers
      BY DEF Callers
    <2>2. {"OUT_FOR_DELIVERY", "COMPLETED", "CANCELLED"} \subseteq OrderStatuses
      BY DEF OrderStatuses
    <2>3. CASE ReadToStartSelf(m, o)
      BY <2>1, <2>2, <2>3, RememberTypes DEF ReadToStartSelf
    <2>4. CASE ReadToCompleteSelf(m, o)
      BY <2>1, <2>2, <2>4, RememberTypes DEF ReadToCompleteSelf
    <2>5. CASE AdminRead(m, o)
      BY <2>1, <2>2, <2>5, RememberTypes DEF AdminRead
    <2>6. CASE ReadToClaimOut(m, o)
      BY <2>1, <2>2, <2>6, RememberTypes DEF ReadToClaimOut
    <2> QED
      BY <1>2, <2>3, <2>4, <2>5, <2>6
  <1>3. ASSUME NEW m \in Movers, Reserve(m)
        PROVE  MovesTypeOK'
    <2>1. mover[m].order \in Orders
      BY <1>3 DEF Reserve, MovesTypeOK
    <2>2. order' \in [Orders -> OrderRow]
      BY <1>3, <2>1 DEF Reserve, MovesTypeOK, OrderRow
    <2>3. mover' \in [Movers -> MoverRow]
      BY <1>3 DEF Reserve, MovesTypeOK, MoverRow
    <2>4. \A n \in Movers : mover'[n].order = mover[n].order /\ mover'[n].caller = mover[n].caller
      BY <1>3 DEF Reserve, MovesTypeOK, MoverRow
    <2>5. \A n \in Movers : mover'[n].pc # "idle" => mover[n].pc # "idle"
      BY <1>3 DEF Reserve, MovesTypeOK, MoverRow
    <2>6. \A n \in Movers : mover'[n].pc = "reserved" => mover'[n].base < MaxVersion
      BY <1>3, <2>1 DEF Reserve, MovesTypeOK, MoverRow, OrderRow
    <2> QED
      BY <1>3, <2>2, <2>3, <2>4, <2>5, <2>6 DEF Reserve, MovesTypeOK
  <1>4. ASSUME NEW m \in Movers, LoseReservation(m) \/ Abandon(m)
        PROVE  MovesTypeOK'
    BY <1>4, IdleRow DEF LoseReservation, Abandon, MovesTypeOK, Idle
  <1>5. ASSUME NEW m \in Movers, CommitMove(m)
        PROVE  MovesTypeOK'
    <2> DEFINE e == MoveEvent(m)
    <2>1. /\ mover[m] \in MoverRow /\ e.order \in Orders
          /\ mover[m].caller \in Callers /\ mover[m].base + 1 \in 1..MaxVersion
      BY <1>5 DEF CommitMove, MovesTypeOK, MoverRow, MoveEvent
    <2>2. e.from \in OrderStatuses /\ e.to \in OrderStatuses
      BY <2>1 DEF MoveEvent, MoverRow
    <2>3. e.actor \in OrderActors
      BY <2>1 DEF MoveEvent, actorFor, Callers, OrderActors
    <2>4. order' \in [Orders -> OrderRow]
      BY <1>5, <2>1, <2>2 DEF CommitMove, MovesTypeOK, OrderRow
    <2>5. timeline' \subseteq TimelineRow
      BY <1>5, <2>1, <2>2, <2>3 DEF CommitMove, MovesTypeOK, TimelineRow
    <2>6. e \in Log!OutboxRow
      BY <2>1, <2>2, <2>3, LogNames DEF MoveEvent, Log!OutboxRow
    <2>7. outbox' \subseteq Log!OutboxRow
      BY <1>5, <2>6 DEF CommitMove, MovesTypeOK
    <2> QED
      BY <1>5, <2>4, <2>5, <2>7, IdleRow DEF CommitMove, MovesTypeOK, Idle
  <1>6. ASSUME NEW m \in Movers, AdminCancel(m)
        PROVE  MovesTypeOK'
    <2> DEFINE o == mover[m].order
    <2>1. o \in Orders /\ mover[m].seen \in OrderStatuses
      BY <1>6 DEF AdminCancel, MovesTypeOK, MoverRow
    <2>2. order' \in [Orders -> OrderRow]
      BY <1>6, <2>1 DEF AdminCancel, MovesTypeOK, OrderRow, OrderStatuses
    <2>3. timeline' \subseteq TimelineRow
      BY <1>6, <2>1 DEF AdminCancel, MovesTypeOK, TimelineRow, OrderStatuses, OrderActors
    <2> QED
      BY <1>6, <2>2, <2>3, IdleRow DEF AdminCancel, MovesTypeOK, Idle
  <1>7. ASSUME NEW o \in Orders, NEW c \in Couriers, SetCourier(o, c)
        PROVE  MovesTypeOK'
    BY <1>7 DEF SetCourier, MovesTypeOK, OrderRow
  <1>8. CASE UNCHANGED moveVars
    BY <1>8 DEF moveVars, MovesTypeOK
  <1> QED
    BY <1>1, <1>2, <1>3, <1>4, <1>5, <1>6, <1>7, <1>8 DEF MovesNext, MoverStep

\* Orders, timeline, outbox and requests keep their types (MovesTypeOK).
THEOREM MovesTypeCorrect == MovesSpec => []MovesTypeOK
  BY MovesTypeInit, MovesTypeNext, PTL DEF MovesSpec

-----------------------------------------------------------------------------
(***************************************************************************)
(* No two events claim the same version of one order.                      *)
(***************************************************************************)

\* A step that adds no event, reserves nothing and moves no version.
LEMMA ReservationsFrame ==
  ASSUME ReservationsHeld, UniqueVersions, UNCHANGED outbox,
         \A o \in Orders : order'[o].version = order[o].version,
         outbox \subseteq Log!OutboxRow,
         \A n \in Movers : mover'[n].pc = "reserved" => mover'[n] = mover[n]
  PROVE  ReservationsHeld' /\ UniqueVersions'
  <1>1. \A e \in outbox : e.order \in Orders
    BY DEF Log!OutboxRow
  <1>2. \A o \in Orders : \A n \in Reserved(o)' : n \in Reserved(o) /\ mover'[n] = mover[n]
    BY DEF Reserved
  <1> QED
    BY <1>1, <1>2 DEF ReservationsHeld, UniqueVersions

\* The compare-and-set hands out a version nobody has.
LEMMA ReserveHolds ==
  ASSUME MovesTypeOK, ReservationsHeld, UniqueVersions, NEW m \in Movers, Reserve(m)
  PROVE  ReservationsHeld' /\ UniqueVersions'
  <1> DEFINE p == mover[m].order
  <1>1. p \in Orders /\ mover[m] \in MoverRow
    BY DEF Reserve, MovesTypeOK
  <1>2. /\ order'[p].version = order[p].version + 1
        /\ \A o \in Orders \ {p} : order'[o].version = order[o].version
        /\ \A o \in Orders : order[o].version \in Nat
    BY <1>1 DEF Reserve, MovesTypeOK, OrderRow
  <1>3. /\ mover'[m].base = order[p].version /\ mover'[m].order = p
        /\ \A n \in Movers \ {m} : mover'[n] = mover[n]
        /\ \A n \in Movers : mover[n].base \in Nat
    BY <1>1 DEF Reserve, MovesTypeOK, MoverRow
  <1>4. \A e \in outbox : e.order \in Orders /\ e.version \in Nat
    BY DEF MovesTypeOK, Log!OutboxRow
  <1>5. \A e \in outbox' : e.version <= order'[e.order].version
    BY <1>2, <1>4 DEF Reserve, ReservationsHeld
  <1>6. ASSUME NEW o \in Orders, NEW n \in Reserved(o)'
        PROVE  /\ mover'[n].base < order'[o].version
               /\ \A e \in outbox' : e.order = o => e.version # mover'[n].base + 1
               /\ \A k \in Reserved(o)' : mover'[k].base = mover'[n].base => k = n
    <2>1. CASE n = m
      <3>1. o = p
        BY <1>3, <1>6, <2>1 DEF Reserved
      <3>2. \A k \in Reserved(o)' : k # m => k \in Reserved(o)
        BY <1>3 DEF Reserved
      <3>3. \A k \in Reserved(o)' : k # m => mover'[k].base < order[o].version
        BY <1>3, <3>2 DEF ReservationsHeld, Reserved
      <3> QED
        BY <1>2, <1>3, <1>4, <2>1, <3>1, <3>3 DEF Reserve, ReservationsHeld
    <2>2. CASE n # m
      <3>1. n \in Reserved(o) /\ mover'[n] = mover[n]
        BY <1>3, <1>6, <2>2 DEF Reserved
      <3>2. mover[n].base < order[o].version
        BY <3>1 DEF ReservationsHeld
      <3>3. \A k \in Reserved(o)' : k # m => k \in Reserved(o) /\ mover'[k] = mover[k]
        BY <1>3 DEF Reserved
      <3>4. m \in Reserved(o)' => mover'[m].base # mover[n].base
        BY <1>2, <1>3, <3>1, <3>2 DEF Reserved
      <3> QED
        BY <1>2, <1>3, <1>1, <3>1, <3>2, <3>3, <3>4 DEF Reserve, ReservationsHeld, Reserved
    <2> QED
      BY <2>1, <2>2
  <1> QED
    BY <1>5, <1>6 DEF ReservationsHeld, UniqueVersions, Reserve

\* Committing turns the reservation into the event of its version.
LEMMA CommitHolds ==
  ASSUME MovesTypeOK, ReservationsHeld, UniqueVersions, NEW m \in Movers, CommitMove(m)
  PROVE  ReservationsHeld' /\ UniqueVersions'
  <1> DEFINE e == MoveEvent(m)
  <1>1. /\ e.order \in Orders /\ m \in Reserved(e.order)
        /\ e.order = mover[m].order /\ e.version = mover[m].base + 1
    BY DEF CommitMove, MovesTypeOK, Reserved, MoveEvent
  <1>2. \A o \in Orders : order'[o].version = order[o].version
    BY <1>1 DEF CommitMove, MovesTypeOK, OrderRow
  <1>3. \A o \in Orders : \A n \in Reserved(o)' :
          n \in Reserved(o) /\ n # m /\ mover'[n] = mover[n]
    BY DEF CommitMove, MovesTypeOK, Reserved, Idle
  <1>4. outbox' = outbox \cup {e}
    BY DEF CommitMove
  <1>5. /\ \A f \in outbox : f.order \in Orders /\ f.version \in Nat
        /\ \A n \in Movers : mover[n].base \in Nat
        /\ \A o \in Orders : order[o].version \in Nat
    BY DEF MovesTypeOK, Log!OutboxRow, MoverRow, OrderRow
  <1>6. UniqueVersions'
    BY <1>1, <1>4 DEF ReservationsHeld, UniqueVersions
  <1>7. \A f \in outbox' : f.version <= order'[f.order].version
    BY <1>1, <1>2, <1>4, <1>5 DEF ReservationsHeld, Reserved
  <1>8. ASSUME NEW o \in Orders, NEW n \in Reserved(o)'
        PROVE  \A f \in outbox' : f.order = o => f.version # mover'[n].base + 1
    <2>1. n \in Reserved(o) /\ n # m /\ mover'[n] = mover[n] /\ n \in Movers
      BY <1>3 DEF Reserved
    <2>2. o = e.order => mover[n].base # mover[m].base
      BY <1>1, <2>1 DEF ReservationsHeld
    <2> QED
      BY <1>1, <1>4, <1>5, <2>1, <2>2 DEF ReservationsHeld
  <1> QED
    BY <1>2, <1>3, <1>6, <1>7, <1>8 DEF ReservationsHeld

\* Every statement keeps reservations apart, and so the versions of events.
LEMMA ReservationsNext ==
  MovesTypeOK /\ ReservationsHeld /\ UniqueVersions /\ [MovesNext]_moveVars
    => ReservationsHeld' /\ UniqueVersions'
  <1> SUFFICES ASSUME MovesTypeOK, ReservationsHeld, UniqueVersions, [MovesNext]_moveVars
               PROVE  ReservationsHeld' /\ UniqueVersions'
    OBVIOUS
  <1>1. outbox \subseteq Log!OutboxRow
    BY DEF MovesTypeOK
  <1>2. ASSUME NEW m \in Movers,
               \/ \E o \in Orders, caller \in Couriers \cup Sides, to \in OrderStatuses :
                    ReadToMove(m, o, caller, to)
               \/ \E o \in Orders :
                    \/ ReadToStartSelf(m, o) \/ ReadToClaimOut(m, o)
                    \/ ReadToCompleteSelf(m, o) \/ AdminRead(m, o)
        PROVE  ReservationsHeld' /\ UniqueVersions'
    <2>1. /\ UNCHANGED <<order, outbox>>
          /\ \A n \in Movers : mover'[n].pc = "reserved" => mover'[n] = mover[n]
      BY <1>2 DEF ReadToMove, ReadToStartSelf, ReadToClaimOut, ReadToCompleteSelf, AdminRead, Remember,
                  MovesTypeOK
    <2> QED
      BY <1>1, <2>1, ReservationsFrame
  <1>3. ASSUME NEW m \in Movers, LoseReservation(m) \/ Abandon(m) \/ AdminCancel(m)
        PROVE  ReservationsHeld' /\ UniqueVersions'
    <2>1. \A o \in Orders : order'[o].version = order[o].version
      BY <1>3 DEF LoseReservation, Abandon, AdminCancel, MovesTypeOK, OrderRow
    <2>2. \A n \in Movers : mover'[n].pc = "reserved" => mover'[n] = mover[n]
      BY <1>3 DEF LoseReservation, Abandon, AdminCancel, MovesTypeOK, Idle
    <2> QED
      BY <1>1, <1>3, <2>1, <2>2, ReservationsFrame DEF LoseReservation, Abandon, AdminCancel
  <1>4. ASSUME NEW o \in Orders, NEW c \in Couriers, SetCourier(o, c)
        PROVE  ReservationsHeld' /\ UniqueVersions'
    BY <1>1, <1>4, ReservationsFrame DEF SetCourier, MovesTypeOK, OrderRow
  <1>5. CASE UNCHANGED moveVars
    BY <1>1, <1>5, ReservationsFrame DEF moveVars
  <1> QED
    BY <1>2, <1>3, <1>4, <1>5, ReserveHolds, CommitHolds DEF MovesNext, MoverStep

\* A placed order has one event, of the row's version, and no reservation.
LEMMA ReservationsInit == MovesInit => ReservationsHeld /\ UniqueVersions
  <1> SUFFICES ASSUME MovesInit PROVE ReservationsHeld /\ UniqueVersions
    OBVIOUS
  <1>1. \A e \in outbox : e.order \in Orders /\ e = Log!PlacedEvent(e.order)
    BY DEF MovesInit, Log!PlacedEvent
  <1>2. \A o \in Orders : Reserved(o) = {}
    BY DEF MovesInit, Reserved, Idle
  <1>3. \A e \in outbox : e.version <= order[e.order].version
    BY <1>1 DEF MovesInit, Log!PlacedEvent
  <1> QED
    BY <1>1, <1>2, <1>3 DEF ReservationsHeld, UniqueVersions, Log!PlacedEvent

\* No two outbox rows of an order have one version: applyMove's compare-and-set
\* does what it is for, however many requests move the order at once.
THEOREM VersionsAreUnique == MovesSpec => []UniqueVersions
  <1>1. MovesTypeOK /\ ReservationsHeld /\ UniqueVersions /\ [MovesNext]_moveVars
          => (ReservationsHeld /\ UniqueVersions)'
    BY ReservationsNext
  <1> QED
    BY <1>1, ReservationsInit, MovesTypeCorrect, PTL DEF MovesSpec

\* While a request holds a version no event has it and no other request holds it.
THEOREM ReservationsAreHeld == MovesSpec => []ReservationsHeld
  <1>1. MovesTypeOK /\ ReservationsHeld /\ UniqueVersions /\ [MovesNext]_moveVars
          => (ReservationsHeld /\ UniqueVersions)'
    BY ReservationsNext
  <1> QED
    BY <1>1, ReservationsInit, MovesTypeCorrect, PTL DEF MovesSpec

-----------------------------------------------------------------------------
(***************************************************************************)
(* Every row of the timeline and every event is a move its actor may make. *)
(* The plan of a request stays legal although the row moves on: legality   *)
(* is a fact about the status it saw.                                      *)
(***************************************************************************)
Legal == LegalPlans /\ LegalHistory

KeepsPlan(n) ==
  \/ mover'[n].pc = "idle"
  \/ /\ mover'[n].seen = mover[n].seen /\ mover'[n].to = mover[n].to
     /\ mover'[n].caller = mover[n].caller /\ mover'[n].order = mover[n].order
     /\ \/ mover'[n].pc = mover[n].pc
        \/ mover[n].pc = "read" /\ mover'[n].pc = "reserved"

\* A step that writes no timeline row and leaves each plan as it was, or none.
LEMMA LegalFrame ==
  ASSUME Legal, UNCHANGED timeline,
         \A n \in Movers : KeepsPlan(n)
  PROVE  Legal'
  <1>1. LegalHistory'
    BY DEF Legal, LegalHistory
  <1>2. LegalPlans'
    <2> SUFFICES ASSUME NEW n \in Movers
                 PROVE  /\ mover'[n].pc \in {"read", "reserved"} =>
                             Log!LegalMove(mover'[n].seen, mover'[n].to,
                                           actorFor(mover'[n].caller), mover'[n].order)
                        /\ mover'[n].pc = "adminRead" =>
                             canTransition(mover'[n].seen, "CANCELLED", "ADMIN",
                                           fulfilment[mover'[n].order])
      BY DEF LegalPlans
    <2> QED
      BY DEF Legal, LegalPlans, KeepsPlan
  <1> QED
    BY <1>1, <1>2 DEF Legal

\* A request that reads a row and plans a legal move.
LEMMA LegalRead ==
  ASSUME MovesTypeOK, Legal, UNCHANGED timeline, NEW m \in Movers, NEW row,
         mover' = [mover EXCEPT ![m] = row], row.pc \in {"read", "adminRead", "claimOut"},
         row.pc = "read" => Log!LegalMove(row.seen, row.to, actorFor(row.caller), row.order),
         row.pc = "adminRead" =>
           canTransition(row.seen, "CANCELLED", "ADMIN", fulfilment[row.order])
  PROVE  Legal'
  BY DEF Legal, LegalPlans, LegalHistory, MovesTypeOK

\* A plan is checked at its read and only copied to the record afterwards.
LEMMA LegalNext == MovesTypeOK /\ Legal /\ [MovesNext]_moveVars => Legal'
  <1> SUFFICES ASSUME MovesTypeOK, Legal, [MovesNext]_moveVars PROVE Legal'
    OBVIOUS
  <1>1. ASSUME NEW m \in Movers, NEW o \in Orders, NEW caller \in Couriers \cup Sides,
               NEW to \in OrderStatuses, ReadToMove(m, o, caller, to)
        PROVE  Legal'
    <2>1. Log!LegalMove(order[o].status, to, actorFor(caller), o)
      BY <1>1, LogNames DEF ReadToMove, Log!LegalMove
    <2> QED
      BY <1>1, <2>1, LegalRead DEF ReadToMove, Remember
  <1>2. ASSUME NEW m \in Movers, NEW o \in Orders,
               ReadToStartSelf(m, o) \/ ReadToClaimOut(m, o) \/ ReadToCompleteSelf(m, o)
        PROVE  Legal'
    <2>1. actorFor("BUSINESS") = "BUSINESS"
      BY OrderMovesAssumption DEF actorFor
    <2>2. CASE ReadToStartSelf(m, o)
      <3>1. canTransition(order[o].status, "OUT_FOR_DELIVERY", "BUSINESS", fulfilment[o])
        BY <2>2 DEF ReadToStartSelf, canTransition, TRANSITIONS, Move
      <3>2. Log!LegalMove(order[o].status, "OUT_FOR_DELIVERY", actorFor("BUSINESS"), o)
        BY <2>1, <3>1, LogNames DEF Log!LegalMove
      <3> QED
        BY <2>2, <3>2, LegalRead DEF ReadToStartSelf, Remember
    <2>3. CASE ReadToCompleteSelf(m, o)
      <3>1. Log!LegalMove(order[o].status, "COMPLETED", actorFor("BUSINESS"), o)
        BY <2>1, <2>3 DEF ReadToCompleteSelf, Log!LegalMove
      <3> QED
        BY <2>3, <3>1, LegalRead DEF ReadToCompleteSelf, Remember
    <2>4. CASE ReadToClaimOut(m, o)
      BY <2>4, LegalRead DEF ReadToClaimOut, Remember
    <2> QED
      BY <1>2, <2>2, <2>3, <2>4
  <1>3. ASSUME NEW m \in Movers, NEW o \in Orders, AdminRead(m, o)
        PROVE  Legal'
    <2> DEFINE row == [pc |-> "adminRead", order |-> o, caller |-> "ADMIN",
                       seen |-> order[o].status, base |-> order[o].version,
                       to |-> "CANCELLED", self |-> "no"]
    <2>1. mover' = [mover EXCEPT ![m] = row] /\ UNCHANGED timeline
      BY <1>3 DEF AdminRead, Remember
    <2>2. canTransition(row.seen, "CANCELLED", "ADMIN", fulfilment[row.order])
      BY <1>3 DEF AdminRead
    <2> QED
      BY <2>1, <2>2, LegalRead
  <1>4. ASSUME NEW m \in Movers, Reserve(m)
        PROVE  Legal'
    <2>1. \A n \in Movers : KeepsPlan(n)
      BY <1>4 DEF Reserve, MovesTypeOK, MoverRow, KeepsPlan
    <2> QED
      BY <1>4, <2>1, LegalFrame DEF Reserve
  <1>5. ASSUME NEW m \in Movers, LoseReservation(m) \/ Abandon(m)
        PROVE  Legal'
    <2>1. \A n \in Movers : KeepsPlan(n)
      BY <1>5 DEF LoseReservation, Abandon, MovesTypeOK, Idle, KeepsPlan
    <2> QED
      BY <1>5, <2>1, LegalFrame DEF LoseReservation, Abandon
  <1>6. ASSUME NEW m \in Movers, CommitMove(m)
        PROVE  Legal'
    <2> DEFINE e == MoveEvent(m)
    <2>1. Log!LegalMove(e.from, e.to, e.actor, e.order)
      BY <1>6 DEF CommitMove, MoveEvent, Legal, LegalPlans
    <2>2. LegalHistory'
      BY <1>6, <2>1 DEF CommitMove, Legal, LegalHistory
    <2>3. LegalPlans'
      BY <1>6 DEF CommitMove, Legal, LegalPlans, Idle, MovesTypeOK
    <2> QED
      BY <2>2, <2>3 DEF Legal
  <1>7. ASSUME NEW m \in Movers, AdminCancel(m)
        PROVE  Legal'
    <2>1. Log!LegalMove(mover[m].seen, "CANCELLED", "ADMIN", mover[m].order)
      BY <1>7, LogNames DEF AdminCancel, Legal, LegalPlans, Log!LegalMove
    <2>2. LegalHistory'
      BY <1>7, <2>1 DEF AdminCancel, Legal, LegalHistory
    <2>3. LegalPlans'
      BY <1>7 DEF AdminCancel, Legal, LegalPlans, Idle, MovesTypeOK
    <2> QED
      BY <2>2, <2>3 DEF Legal
  <1>8. ASSUME NEW o \in Orders, NEW c \in Couriers, SetCourier(o, c)
        PROVE  Legal'
    BY <1>8, LegalFrame DEF SetCourier, KeepsPlan
  <1>9. CASE UNCHANGED moveVars
    BY <1>9, LegalFrame DEF moveVars, KeepsPlan
  <1> QED
    BY <1>1, <1>2, <1>3, <1>4, <1>5, <1>6, <1>7, <1>8, <1>9 DEF MovesNext, MoverStep

\* A placed order's record is its placement, and nobody plans a move.
LEMMA LegalInit == MovesInit => Legal
  BY DEF MovesInit, Legal, LegalPlans, LegalHistory, Placed, Idle

\* Every timeline row is a move its actor may make (LegalHistory), whatever the
\* order's status was when the batch of applyMove was written.
THEOREM HistoryIsLegal == MovesSpec => []LegalHistory
  <1>1. Legal => LegalHistory
    BY DEF Legal
  <1> QED
    BY <1>1, LegalInit, LegalNext, MovesTypeCorrect, PTL DEF MovesSpec

-----------------------------------------------------------------------------
(***************************************************************************)
(* The events of the moves implement the log their readers are promised.   *)
(***************************************************************************)
LEMMA StepImplementsLog ==
  MovesTypeOK /\ MovesTypeOK' /\ ReservationsHeld /\ Legal /\ [MovesNext]_moveVars
    => [Log!LogNext]_outbox
  <1> SUFFICES ASSUME MovesTypeOK, MovesTypeOK', ReservationsHeld, Legal, [MovesNext]_moveVars
               PROVE  [Log!LogNext]_outbox
    OBVIOUS
  <1>1. ASSUME NEW m \in Movers, CommitMove(m)
        PROVE  Log!LogNext
    <2> DEFINE e == MoveEvent(m)
    <2>1. e \in outbox' /\ outbox' = outbox \cup {e}
      BY <1>1 DEF CommitMove
    <2>2. e \in Log!OutboxRow
      BY <2>1 DEF MovesTypeOK
    <2>3. Log!LegalMove(e.from, e.to, e.actor, e.order)
      BY <1>1 DEF CommitMove, MoveEvent, Legal, LegalPlans
    <2>4. m \in Reserved(e.order) /\ e.order \in Orders /\ e.version = mover[m].base + 1
      BY <1>1 DEF CommitMove, MoveEvent, Reserved, MovesTypeOK
    <2>5. \A f \in outbox : f.order = e.order => f.version # e.version
      BY <2>4 DEF ReservationsHeld
    <2> QED
      BY <2>1, <2>2, <2>3, <2>5 DEF Log!LogNext, Log!Record
  <1>2. ASSUME NEW m \in Movers, MoverStep(m), ~CommitMove(m)
        PROVE  UNCHANGED outbox
    BY <1>2 DEF MoverStep, ReadToMove, ReadToStartSelf, ReadToClaimOut,
                        ReadToCompleteSelf, AdminRead, Reserve,
                LoseReservation, Abandon, AdminCancel
  <1>3. ASSUME NEW o \in Orders, NEW c \in Couriers, SetCourier(o, c)
        PROVE  UNCHANGED outbox
    BY <1>3 DEF SetCourier
  <1>4. CASE UNCHANGED moveVars
    BY <1>4 DEF moveVars
  <1> QED
    BY <1>1, <1>2, <1>3, <1>4 DEF MovesNext

\* The handlers that move orders implement the event log EventLog promises.
THEOREM MovesImplementLog == MovesSpec => ImplementsLog
  <1>1. MovesInit => Log!LogInit
    BY DEF MovesInit, Log!LogInit
  <1>2. MovesTypeOK /\ ReservationsHeld /\ UniqueVersions /\ [MovesNext]_moveVars
          => (ReservationsHeld /\ UniqueVersions)'
    BY ReservationsNext
  <1> QED
    BY <1>1, <1>2, ReservationsInit, LegalInit, LegalNext, StepImplementsLog, MovesTypeCorrect,
       PTL DEF MovesSpec, ImplementsLog, Log!LogSpec

-----------------------------------------------------------------------------
(***************************************************************************)
(* A move and its event are one write: the reserved version is free, so    *)
(* the batch really adds the row that names the status it sets.            *)
(***************************************************************************)
MoveStep ==
  \A o \in Orders :
    LET news == {e \in outbox' \ outbox : e.order = o} IN
    /\ \A e \in news : order'[o].status = e.to
    /\ order'[o].status # order[o].status /\ news = {} =>
         /\ order'[o].status = "CANCELLED"
         /\ CancelledByOperator(o)'

\* Only the batch of applyMove adds an event, and only it and an operator's
\* cancellation write a status.
LEMMA MoveStepNext ==
  MovesTypeOK /\ ReservationsHeld /\ [MovesNext]_moveVars => [MoveStep]_moveVars
  <1> SUFFICES ASSUME MovesTypeOK, ReservationsHeld, MovesNext PROVE MoveStep
    OBVIOUS
  <1>1. ASSUME NEW m \in Movers, CommitMove(m)
        PROVE  MoveStep
    <2> DEFINE e == MoveEvent(m)
    <2>1. m \in Reserved(e.order) /\ e.order \in Orders /\ e.version = mover[m].base + 1
      BY <1>1 DEF CommitMove, MoveEvent, Reserved, MovesTypeOK
    <2>2. e \notin outbox
      BY <2>1 DEF ReservationsHeld
    <2>3. outbox' \ outbox = {e}
      BY <1>1, <2>2 DEF CommitMove
    <2>4. /\ order'[e.order].status = e.to
          /\ \A o \in Orders \ {e.order} : order'[o].status = order[o].status
      BY <1>1, <2>1 DEF CommitMove, MovesTypeOK, OrderRow
    <2> QED
      BY <2>1, <2>3, <2>4 DEF MoveStep
  <1>2. ASSUME NEW m \in Movers, AdminCancel(m)
        PROVE  MoveStep
    <2>1. PICK p \in Orders : p = mover[m].order
      BY <1>2 DEF AdminCancel, MovesTypeOK
    <2>2. /\ UNCHANGED outbox /\ order'[p].status = "CANCELLED"
          /\ \A o \in Orders \ {p} : order'[o].status = order[o].status
      BY <1>2, <2>1 DEF AdminCancel, MovesTypeOK, OrderRow
    <2>3. [order |-> p, from |-> mover[m].seen, to |-> "CANCELLED", actor |-> "ADMIN"] \in timeline'
      BY <1>2, <2>1 DEF AdminCancel
    <2>4. CancelledByOperator(p)'
      BY <2>3 DEF CancelledByOperator
    <2> QED
      BY <2>2, <2>4 DEF MoveStep
  <1>3. ASSUME UNCHANGED outbox, \A o \in Orders : order'[o].status = order[o].status
        PROVE  MoveStep
    BY <1>3 DEF MoveStep
  <1>4. ASSUME NEW m \in Movers, MoverStep(m), ~CommitMove(m), ~AdminCancel(m)
        PROVE  UNCHANGED outbox /\ \A o \in Orders : order'[o].status = order[o].status
    <2>1. CASE Reserve(m)
      BY <2>1 DEF Reserve, MovesTypeOK, OrderRow
    <2> QED
      BY <1>4, <2>1 DEF MoverStep, ReadToMove, ReadToStartSelf, ReadToClaimOut,
                        ReadToCompleteSelf, AdminRead,
                        LoseReservation, Abandon
  <1>5. ASSUME NEW o \in Orders, NEW c \in Couriers, SetCourier(o, c)
        PROVE  UNCHANGED outbox /\ \A p \in Orders : order'[p].status = order[p].status
    BY <1>5 DEF SetCourier, MovesTypeOK, OrderRow
  <1> QED
    BY <1>1, <1>2, <1>3, <1>4, <1>5 DEF MovesNext

\* A move and its event are one write (MoveAndEvent), the operators' apart.
THEOREM MovesAndEventsAreOneWrite == MovesSpec => MoveAndEvent
  <1>1. MovesTypeOK /\ ReservationsHeld /\ UniqueVersions /\ [MovesNext]_moveVars
          => (ReservationsHeld /\ UniqueVersions)'
    BY ReservationsNext
  <1>2. MoveAndEvent <=> [][MoveStep]_moveVars
    BY DEF MoveAndEvent, MoveStep
  <1> QED
    BY <1>1, <1>2, ReservationsInit, MoveStepNext, MovesTypeCorrect, PTL DEF MovesSpec

-----------------------------------------------------------------------------
(***************************************************************************)
(* Requests that do not overlap: any number of them are in flight, but no  *)
(* two about one order, and each may end after any of its statements.  What*)
(* one read is then what the row says until it writes, and the version it  *)
(* holds is the row's.                                                     *)
(***************************************************************************)
Apart ==
  \A m, n \in Movers :
    mover[m].pc # "idle" /\ mover[n].pc # "idle" /\ mover[m].order = mover[n].order => m = n

UpToDate ==
  \A m \in Movers :
    /\ mover[m].pc # "idle" => order[mover[m].order].status = mover[m].seen
    /\ mover[m].pc = "reserved" => order[mover[m].order].version = mover[m].base + 1

\* The status of an order is written by a commit or an operator's cancellation.
LEMMA StatusFrame ==
  ASSUME MovesTypeOK, MovesNext, \A m \in Movers : ~CommitMove(m) /\ ~AdminCancel(m)
  PROVE  UNCHANGED <<outbox, timeline>> /\ \A o \in Orders : order'[o].status = order[o].status
  <1>1. ASSUME NEW m \in Movers, Reserve(m)
        PROVE  UNCHANGED <<outbox, timeline>> /\ \A o \in Orders : order'[o].status = order[o].status
    BY <1>1 DEF Reserve, MovesTypeOK, OrderRow
  <1>2. ASSUME NEW o \in Orders, NEW c \in Couriers, SetCourier(o, c)
        PROVE  UNCHANGED <<outbox, timeline>> /\ \A p \in Orders : order'[p].status = order[p].status
    BY <1>2 DEF SetCourier, MovesTypeOK, OrderRow
  <1> QED
    BY <1>1, <1>2 DEF MovesNext, MoverStep, ReadToMove, ReadToStartSelf, ReadToClaimOut,
                      ReadToCompleteSelf, AdminRead, LoseReservation, Abandon

\* A handler's first read is up to date.
LEMMA RememberIsUpToDate ==
  ASSUME MovesTypeOK, UpToDate, NEW m \in Movers, NEW o \in Orders, NEW pc, pc # "reserved",
         NEW caller, NEW to, NEW self, Remember(m, pc, o, caller, to, self), UNCHANGED order
  PROVE  UpToDate'
  <1>1. /\ mover'[m] = [pc |-> pc, order |-> o, caller |-> caller, seen |-> order[o].status,
                        base |-> order[o].version, to |-> to, self |-> self]
        /\ \A n \in Movers \ {m} : mover'[n] = mover[n]
    BY DEF Remember, MovesTypeOK
  <1> QED
    BY <1>1 DEF UpToDate

\* What a request writes, or leaves, is about its own order.
LEMMA OthersUpToDate ==
  ASSUME Apart, MovesTypeOK, UpToDate, NEW m \in Movers, mover[m].pc # "idle",
         \A n \in Movers \ {m} : mover'[n] = mover[n],
         \A o \in Orders \ {mover[m].order} : order'[o] = order[o]
  PROVE  \A n \in Movers \ {m} :
           /\ mover'[n].pc # "idle" => order'[mover'[n].order].status = mover'[n].seen
           /\ mover'[n].pc = "reserved" => order'[mover'[n].order].version = mover'[n].base + 1
  <1> SUFFICES ASSUME NEW n \in Movers \ {m}, mover[n].pc # "idle"
               PROVE  /\ order'[mover[n].order].status = mover[n].seen
                      /\ mover[n].pc = "reserved" =>
                           order'[mover[n].order].version = mover[n].base + 1
    OBVIOUS
  <1>1. mover[n].order \in Orders /\ mover[n].order # mover[m].order
    BY DEF MovesTypeOK, Apart
  <1> QED
    BY <1>1 DEF UpToDate

LEMMA UpToDateNext ==
  ASSUME Apart, MovesTypeOK, UpToDate, [MovesNext]_moveVars
  PROVE  UpToDate'
  <1>1. ASSUME NEW m \in Movers, LoseReservation(m) \/ CommitMove(m) \/ Abandon(m) \/ AdminCancel(m)
        PROVE  UpToDate'
    <2>1. /\ mover[m].pc # "idle" /\ mover'[m].pc = "idle"
          /\ \A n \in Movers \ {m} : mover'[n] = mover[n]
      BY <1>1 DEF LoseReservation, CommitMove, Abandon, AdminCancel, MovesTypeOK, Idle
    <2>2. \A o \in Orders \ {mover[m].order} : order'[o] = order[o]
      BY <1>1 DEF LoseReservation, CommitMove, MoveEvent, Abandon, AdminCancel, MovesTypeOK
    <2> QED
      BY <2>1, <2>2, OthersUpToDate DEF UpToDate
  <1>2. ASSUME NEW m \in Movers, Reserve(m)
        PROVE  UpToDate'
    <2> DEFINE o == mover[m].order
    <2>1. o \in Orders /\ mover[m].pc # "idle"
      BY <1>2 DEF Reserve, MovesTypeOK
    <2>2. order'[o].status = order[o].status /\ order'[o].version = mover[m].base + 1
      BY <1>2, <2>1 DEF Reserve, MovesTypeOK, OrderRow
    <2>3. /\ mover'[m].order = o /\ mover'[m].seen = mover[m].seen /\ mover'[m].base = mover[m].base
          /\ \A n \in Movers \ {m} : mover'[n] = mover[n]
      BY <1>2 DEF Reserve, MovesTypeOK, MoverRow
    <2>4. \A p \in Orders \ {o} : order'[p] = order[p]
      BY <1>2 DEF Reserve, MovesTypeOK
    <2>5. order[o].status = mover[m].seen
      BY <2>1 DEF UpToDate
    <2>6. \A n \in Movers \ {m} :
            /\ mover'[n].pc # "idle" => order'[mover'[n].order].status = mover'[n].seen
            /\ mover'[n].pc = "reserved" => order'[mover'[n].order].version = mover'[n].base + 1
      BY <2>1, <2>3, <2>4, OthersUpToDate
    <2> HIDE DEF o
    <2> QED
      BY <2>2, <2>3, <2>5, <2>6 DEF UpToDate
  <1>3. ASSUME NEW o \in Orders, NEW c \in Couriers, SetCourier(o, c)
        PROVE  UpToDate'
    <2>1. \A p \in Orders : order'[p].status = order[p].status /\ order'[p].version = order[p].version
      BY <1>3 DEF SetCourier, MovesTypeOK, OrderRow
    <2>2. \A m \in Movers : mover[m].pc # "idle" => mover[m].order \in Orders
      BY DEF MovesTypeOK
    <2> QED
      BY <1>3, <2>1, <2>2 DEF SetCourier, UpToDate
  <1>4. CASE UNCHANGED moveVars
    BY <1>4 DEF UpToDate, moveVars
  <1> QED
    BY <1>1, <1>2, <1>3, <1>4, RememberIsUpToDate
       DEF MovesNext, MoverStep, ReadToMove, ReadToStartSelf, ReadToClaimOut, ReadToCompleteSelf,
           AdminRead

\* The event of a commit is the newest of its order.
LEMMA CommitIsNewest ==
  ASSUME MovesTypeOK, ReservationsHeld, UpToDate, VersionOrderIsMoveOrder, NEW m \in Movers, CommitMove(m)
  PROVE  VersionOrderIsMoveOrder'
  <1> DEFINE e == MoveEvent(m)
  <1>1. /\ e.order \in Orders /\ m \in Reserved(e.order)
        /\ e.order = mover[m].order /\ e.version = mover[m].base + 1
    BY DEF CommitMove, MovesTypeOK, Reserved, MoveEvent
  <1>2. /\ order'[e.order].status = e.to
        /\ \A o \in Orders \ {e.order} : order'[o].status = order[o].status
    BY <1>1 DEF CommitMove, MovesTypeOK, OrderRow
  <1>3. outbox' = outbox \cup {e} /\ timeline \subseteq timeline'
    BY DEF CommitMove
  <1>4. \A f \in outbox : f.order = e.order => f.version < e.version
    <2>1. \A f \in outbox : f.version \in Nat
      BY DEF MovesTypeOK, Log!OutboxRow
    <2>2. order[e.order].version = e.version /\ e.version \in Nat
      BY <1>1 DEF UpToDate, Reserved, MovesTypeOK, MoverRow
    <2> QED
      BY <1>1, <2>1, <2>2 DEF ReservationsHeld
  <1> HIDE DEF e
  <1>5. ASSUME NEW o \in Orders, ~CancelledByOperator(o)'
        PROVE  \E d \in outbox' : /\ d.order = o /\ d.to = order'[o].status
                                  /\ \A f \in outbox' \ {d} : f.order = o => f.version < d.version
    <2>1. CASE o = e.order
      BY <1>2, <1>3, <1>4, <2>1
    <2>2. CASE o # e.order
      <3>1. ~CancelledByOperator(o)
        BY <1>3, <1>5 DEF CancelledByOperator
      <3> QED
        BY <1>2, <1>3, <2>2, <3>1 DEF VersionOrderIsMoveOrder
    <2> QED
      BY <2>1, <2>2
  <1> QED
    BY <1>5 DEF VersionOrderIsMoveOrder

LEMMA VersionOrderNext ==
  ASSUME MovesTypeOK, ReservationsHeld, UpToDate, VersionOrderIsMoveOrder, [MovesNext]_moveVars
  PROVE  VersionOrderIsMoveOrder'
  <1>1. ASSUME UNCHANGED outbox, timeline \subseteq timeline',
               \A o \in Orders : CancelledByOperator(o)' \/ order'[o].status = order[o].status
        PROVE  VersionOrderIsMoveOrder'
    <2>1. \A o \in Orders : CancelledByOperator(o) => CancelledByOperator(o)'
      BY <1>1 DEF CancelledByOperator
    <2> QED
      BY <1>1, <2>1 DEF VersionOrderIsMoveOrder
  <1>2. ASSUME NEW m \in Movers, AdminCancel(m)
        PROVE  VersionOrderIsMoveOrder'
    <2>1. PICK p \in Orders : p = mover[m].order
      BY <1>2 DEF AdminCancel, MovesTypeOK
    <2>2. \A o \in Orders \ {p} : order'[o].status = order[o].status
      BY <1>2, <2>1 DEF AdminCancel, MovesTypeOK, OrderRow
    <2>3. [order |-> p, from |-> mover[m].seen, to |-> "CANCELLED", actor |-> "ADMIN"] \in timeline'
      BY <1>2, <2>1 DEF AdminCancel
    <2>4. CancelledByOperator(p)'
      BY <2>3 DEF CancelledByOperator
    <2> QED
      BY <1>1, <1>2, <2>2, <2>4 DEF AdminCancel
  <1>3. CASE UNCHANGED moveVars
    BY <1>1, <1>3 DEF moveVars
  <1>4. CASE MovesNext /\ \A m \in Movers : ~CommitMove(m) /\ ~AdminCancel(m)
    BY <1>1, <1>4, StatusFrame
  <1> QED
    BY <1>2, <1>3, <1>4, CommitIsNewest DEF MovesNext

LEMMA ApartInit == MovesInit => UpToDate /\ VersionOrderIsMoveOrder
  <1> SUFFICES ASSUME MovesInit PROVE UpToDate /\ VersionOrderIsMoveOrder
    OBVIOUS
  <1>1. UpToDate
    BY DEF MovesInit, UpToDate, Idle
  <1>2. ASSUME NEW o \in Orders
        PROVE  \E e \in outbox : /\ e.order = o /\ e.to = order[o].status
                                 /\ \A f \in outbox \ {e} : f.order = o => f.version < e.version
    <2>1. /\ Log!PlacedEvent(o) \in outbox
          /\ Log!PlacedEvent(o).order = o /\ Log!PlacedEvent(o).to = order[o].status
      BY DEF MovesInit, Log!PlacedEvent
    <2>2. \A f \in outbox : f.order = o => f = Log!PlacedEvent(o)
      BY DEF MovesInit, Log!PlacedEvent
    <2> QED
      BY <2>1, <2>2
  <1> QED
    BY <1>1, <1>2 DEF VersionOrderIsMoveOrder

LEMMA ReadsAreUpToDate == MovesSpec /\ []Apart => []UpToDate
  <1>1. Apart /\ MovesTypeOK /\ UpToDate /\ [MovesNext]_moveVars => UpToDate'
    BY UpToDateNext
  <1> QED
    BY <1>1, ApartInit, MovesTypeCorrect, PTL DEF MovesSpec

LEMMA PlansStayLegal == MovesSpec => []Legal
  BY LegalInit, LegalNext, MovesTypeCorrect, PTL DEF MovesSpec

(***************************************************************************)
(* While no two requests about one order overlap, the event of the highest *)
(* version names the order's status, whatever dies between a reservation   *)
(* and its commit and however many requests are about other orders.        *)
(***************************************************************************)
THEOREM VersionsFollowMoves == MovesSpec /\ []Apart => []VersionOrderIsMoveOrder
  <1>1. MovesTypeOK /\ ReservationsHeld /\ UpToDate /\ VersionOrderIsMoveOrder /\ [MovesNext]_moveVars
          => VersionOrderIsMoveOrder'
    BY VersionOrderNext
  <1> QED
    BY <1>1, ApartInit, ReadsAreUpToDate, MovesTypeCorrect, ReservationsAreHeld, PTL
       DEF MovesSpec

\* A legal move leaves no final status.
LEMMA FinalMovesNowhere ==
  ASSUME NEW from, NEW to, NEW actor, NEW o, Log!LegalMove(from, to, actor, o)
  PROVE  ~isTerminalStatus(from)
  BY LogNames DEF Log!LegalMove, canTransition, TRANSITIONS, Move, isTerminalStatus, TERMINAL_STATUSES

FinishedStep ==
  \A o \in Orders : isTerminalStatus(order[o].status) => order'[o].status = order[o].status

LEMMA FinishedStepNext ==
  ASSUME MovesTypeOK, LegalPlans, UpToDate, MovesNext
  PROVE  FinishedStep
  <1>1. ASSUME NEW m \in Movers, CommitMove(m)
        PROVE  FinishedStep
    <2>1. mover[m].order \in Orders /\ order[mover[m].order].status = mover[m].seen
      BY <1>1 DEF CommitMove, MovesTypeOK, UpToDate
    <2>2. ~isTerminalStatus(mover[m].seen)
      BY <1>1, FinalMovesNowhere DEF CommitMove, LegalPlans
    <2>3. \A o \in Orders \ {mover[m].order} : order'[o].status = order[o].status
      BY <1>1, <2>1 DEF CommitMove, MoveEvent, MovesTypeOK, OrderRow
    <2> QED
      BY <2>1, <2>2, <2>3 DEF FinishedStep
  <1>2. ASSUME NEW m \in Movers, AdminCancel(m)
        PROVE  FinishedStep
    <2>1. mover[m].order \in Orders /\ order[mover[m].order].status = mover[m].seen
      BY <1>2 DEF AdminCancel, MovesTypeOK, UpToDate
    <2>2. canTransition(mover[m].seen, "CANCELLED", "ADMIN", fulfilment[mover[m].order])
      BY <1>2 DEF AdminCancel, LegalPlans
    <2>3. ~isTerminalStatus(mover[m].seen)
      BY <2>2 DEF canTransition, TRANSITIONS, Move, isTerminalStatus, TERMINAL_STATUSES
    <2>4. \A o \in Orders \ {mover[m].order} : order'[o].status = order[o].status
      BY <1>2, <2>1 DEF AdminCancel, MovesTypeOK, OrderRow
    <2> QED
      BY <2>1, <2>3, <2>4 DEF FinishedStep
  <1> QED
    BY <1>1, <1>2, StatusFrame DEF FinishedStep

(***************************************************************************)
(* "Nothing may leave these, for any actor" is kept while no two requests  *)
(* about one order overlap, also when they die after the reservation.      *)
(***************************************************************************)
THEOREM FinishedOrdersStayFinished == MovesSpec /\ []Apart => FinishedStaysFinished
  <1>1. MovesTypeOK /\ Legal /\ UpToDate /\ [MovesNext]_moveVars => [FinishedStep]_moveVars
    BY FinishedStepNext DEF Legal
  <1>2. FinishedStaysFinished <=> [][FinishedStep]_moveVars
    BY DEF FinishedStaysFinished, FinishedStep
  <1> QED
    BY <1>1, <1>2, ReadsAreUpToDate, PlansStayLegal, MovesTypeCorrect, PTL DEF MovesSpec

=============================================================================

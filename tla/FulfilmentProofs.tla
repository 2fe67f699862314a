-------------------------- MODULE FulfilmentProofs --------------------------
(***************************************************************************)
(* Proofs about Fulfilment, for any number of orders, couriers and         *)
(* concurrent requests.                                                    *)
(*                                                                         *)
(* Every step of a run is a step of OrderMoves or leaves the order alone,  *)
(* so the theorems of OrderMovesProofs hold of the whole.  CourierAgrees   *)
(* and CouriersCarryOne are inductive given the types: a step turns a run  *)
(* to another status or gives it to a courier, in both tables at once      *)
(* (RunIsTurnedOrGiven).  ShopOrCourier needs that a claim being taken     *)
(* back is the only one of its order and that its run is still taken       *)
(* (ClaimHolds).                                                           *)
(*                                                                         *)
(* RunMatchesOrder, OfferedHasSomebody and LeftRunIsHistory are proved of  *)
(* requests that do not overlap (RunsApart): a request in flight still     *)
(* finds the order and its run as it read them (StillSo), and every step   *)
(* leaves the two to each other (Story).                                   *)
(***************************************************************************)
EXTENDS Fulfilment, OrderMovesProofs

-----------------------------------------------------------------------------
(***************************************************************************)
(* Types.  First what the three ways of writing a task do to the tasks.    *)
(***************************************************************************)
TasksOK ==
  /\ task \in [Movers -> TaskRow]
  /\ \A m \in Movers :
       /\ task[m].op # "none" => task[m].order \in Orders
       /\ task[m].op \in CourierOps => task[m].courier \in Couriers

RunsOK == delivery \in [Orders -> [status : DeliveryStatuses, courier : Couriers \cup {Nobody}]]
OffersOK == offer \in [Orders -> [Couriers -> OfferStates]]

\* The parts are the whole, before and after a step.
LEMMA FulfilmentTypeParts ==
  /\ FulfilmentTypeOK <=> RunsOK /\ OffersOK /\ selfRun \subseteq Orders /\ TasksOK
  /\ FulfilmentTypeOK' <=> (RunsOK /\ OffersOK /\ selfRun \subseteq Orders /\ TasksOK)'
  BY DEF FulfilmentTypeOK, RunsOK, OffersOK, TasksOK

\* A task that begins names its order, and its courier if it has one.
LEMMA BeginTypes ==
  ASSUME TasksOK, NEW m \in Movers, NEW op \in Ops, NEW o \in Orders,
         NEW c \in Couriers \cup {Nobody}, NEW own \in BOOLEAN,
         op \in CourierOps => c \in Couriers, Begin(m, op, o, c, own)
  PROVE  TasksOK'
  <1>1. [op |-> op, order |-> o, courier |-> c, own |-> own] \in TaskRow
    BY DEF TaskRow
  <1> QED
    BY <1>1 DEF TasksOK, Begin

\* A task that goes on keeps its order.
LEMMA ThenTypes ==
  ASSUME TasksOK, NEW m \in Movers, NEW op \in Ops \ CourierOps,
         task[m].op # "none", Then(m, op)
  PROVE  TasksOK'
  BY DEF TasksOK, Then, TaskRow

\* A task that is done is forgotten.
LEMMA DoneTypes ==
  ASSUME TasksOK, NEW m \in Movers, Done(m)
  PROVE  TasksOK'
  <1>1. NoTask \in TaskRow /\ NoTask.op = "none" /\ "none" \notin CourierOps
    BY DEF NoTask, TaskRow, Ops, CourierOps
  <1> QED
    BY <1>1 DEF TasksOK, Done

\* Writing a status keeps runs.
LEMMA SetRunTypes ==
  ASSUME RunsOK, NEW o, NEW status \in DeliveryStatuses, SetRun(o, status)
  PROVE  RunsOK'
  BY DEF RunsOK, SetRun

\* Cancelling open offers keeps offers.
LEMMA CancelTypes ==
  ASSUME OffersOK, NEW o \in Orders, CancelOffers(o)
  PROVE  OffersOK'
  <1>1. OffersCancelled(o) \in [Couriers -> OfferStates]
    BY DEF OffersOK, OffersCancelled, OfferStates
  <1> QED
    BY <1>1 DEF OffersOK, CancelOffers

\* A batch of a move leaves a run in a status of its own table.
LEMMA RunAfterTypes ==
  ASSUME NEW move, NEW d, d.status \in DeliveryStatuses
  PROVE  RunAfter(move, d) \in DeliveryStatuses
  BY DEF RunAfter, DeliveryStatuses

\* Nothing is asked of the tables before the first request.
LEMMA FulfilmentTypeInit == FulfilmentInit => FulfilmentTypeOK
  <1> SUFFICES ASSUME FulfilmentInit PROVE FulfilmentTypeOK
    OBVIOUS
  <1>1. RunsOK
    BY DEF FulfilmentInit, RunsOK, DeliveryStatuses
  <1>2. OffersOK
    BY DEF FulfilmentInit, OffersOK, OfferStates
  <1>3. TasksOK
    BY DEF FulfilmentInit, TasksOK, NoTask, TaskRow, Ops, CourierOps
  <1> QED
    BY <1>1, <1>2, <1>3, FulfilmentTypeParts DEF FulfilmentInit

\* The requests that move an order keep types.
LEMMA MoveRequestTypes ==
  ASSUME MovesTypeOK, FulfilmentTypeOK, NEW m \in Movers, MoveRequest(m)
  PROVE  FulfilmentTypeOK'
  <1> USE FulfilmentTypeParts
  <1>1. /\ {"gate", "selfGate", "moving", "undo", "dispatch"} \subseteq Ops \ CourierOps
        /\ {"gate", "selfGate", "moving", "undo", "dispatch"} \subseteq Ops
    BY DEF Ops, CourierOps
  <1>2. ASSUME NEW o \in Orders, NEW caller, NEW to, ReadMove(m, o, caller, to)
        PROVE  FulfilmentTypeOK'
    <2>1. UNCHANGED <<delivery, offer, selfRun>>
      BY <1>2 DEF ReadMove
    <2>2. Begin(m, "gate", o, Nobody, FALSE) \/ UNCHANGED task
      BY <1>2 DEF ReadMove
    <2>3. TasksOK'
      BY <1>1, <2>2, BeginTypes DEF TasksOK
    <2> QED
      BY <2>1, <2>3 DEF RunsOK, OffersOK
  <1>3. ASSUME NEW o \in Orders, ReadCompleteSelf(m, o)
        PROVE  FulfilmentTypeOK'
    <2>1. TasksOK'
      BY <1>1, <1>3, BeginTypes DEF ReadCompleteSelf
    <2> QED
      BY <1>3, <2>1 DEF ReadCompleteSelf, RunsOK, OffersOK
  <1>4. ASSUME \/ \E o \in Orders : ReadAdminCancel(m, o)
               \/ ReserveMove(m)
               \/ WriteAdminCancel(m)
        PROVE  FulfilmentTypeOK'
    BY <1>4 DEF ReadAdminCancel, ReserveMove, WriteAdminCancel, runVars, RunsOK, OffersOK, TasksOK
  <1>5. ASSUME Gate(m) \/ SelfGate(m)
        PROVE  FulfilmentTypeOK'
    BY <1>5, DoneTypes DEF Gate, SelfGate, RunsOK, OffersOK
  <1>6. ASSUME MoveFails(m)
        PROVE  FulfilmentTypeOK'
    <2>1. TasksOK'
      BY <1>1, <1>6, DoneTypes, ThenTypes DEF MoveFails, At
    <2> QED
      BY <1>6, <2>1 DEF MoveFails, RunsOK, OffersOK
  <1>7. ASSUME Commit(m)
        PROVE  FulfilmentTypeOK'
    <2> DEFINE o == mover[m].order
    <2>1. o \in Orders
      BY <1>7 DEF Commit, CommitMove, MovesTypeOK
    <2>2. RunAfter(mover[m], delivery[o]) \in DeliveryStatuses
      BY <2>1, RunAfterTypes DEF RunsOK
    <2>3. RunsOK'
      BY <1>7, <2>2, SetRunTypes DEF Commit
    <2>4. OffersOK'
      BY <1>7, <2>1, CancelTypes DEF Commit, OffersOK
    <2>5. TasksOK'
      BY <1>1, <1>7, <2>1, BeginTypes, DoneTypes DEF Commit
    <2> QED
      BY <1>7, <2>3, <2>4, <2>5 DEF Commit
  <1> QED
    BY <1>2, <1>3, <1>4, <1>5, <1>6, <1>7 DEF MoveRequest

\* The requests of a shop that delivers itself keep types.
LEMMA SelfRequestTypes ==
  ASSUME MovesTypeOK, FulfilmentTypeOK, NEW m \in Movers, SelfRequest(m)
  PROVE  FulfilmentTypeOK'
  <1> USE FulfilmentTypeParts
  <1> DEFINE p == task[m].order
  <1>1. /\ {"hold", "name", "claim", "moving", "restore", "clear", "dispatch"} \subseteq Ops \ CourierOps
        /\ {"hold", "name", "claim", "moving", "restore", "clear", "dispatch"} \subseteq Ops
        /\ {"ACCEPTED", "SEARCHING", "PICKED_UP"} \subseteq DeliveryStatuses
    BY DEF Ops, CourierOps, DeliveryStatuses
  <1>2. task[m].op # "none" => p \in Orders
    BY DEF TasksOK
  <1>3. ASSUME NEW o \in Orders, StartSelf(m, o)
        PROVE  FulfilmentTypeOK'
    <2> DEFINE own == o \in paymentFlow \cap selfRun
               op == IF o \in paymentFlow \ selfRun THEN "hold" ELSE "claim"
    <2>0. own \in BOOLEAN
      OBVIOUS
    <2>1. op \in {"hold", "claim"}
      OBVIOUS
    <2>2. Begin(m, op, o, Nobody, own)
      BY <1>3, Zenon DEF StartSelf
    <2>3. op \in Ops /\ op \notin CourierOps
      BY <1>1, <2>1
    <2> HIDE DEF own, op
    <2>4. TasksOK'
      BY <2>0, <2>1, <2>2, <2>3, BeginTypes
    <2> QED
      BY <1>3, <2>4 DEF StartSelf, RunsOK, OffersOK
  <1>4. ASSUME Hold(m)
        PROVE  FulfilmentTypeOK'
    <2>1. RunsOK' /\ TasksOK'
      BY <1>1, <1>4, SetRunTypes, ThenTypes DEF Hold, At
    <2> QED
      BY <1>4, <2>1 DEF Hold, OffersOK
  <1>5. ASSUME Name(m)
        PROVE  FulfilmentTypeOK'
    <2>1. p \in Orders
      BY <1>2, <1>5 DEF Name, At
    <2>2. OffersOK' /\ TasksOK'
      BY <1>1, <1>5, <2>1, CancelTypes, BeginTypes DEF Name
    <2> QED
      BY <1>5, <2>1, <2>2 DEF Name, RunsOK
  <1>6. ASSUME NameFails(m)
        PROVE  FulfilmentTypeOK'
    <2>1. RunsOK' /\ TasksOK'
      BY <1>1, <1>6, SetRunTypes, DoneTypes DEF NameFails
    <2> QED
      BY <1>6, <2>1 DEF NameFails, OffersOK
  <1>7. ASSUME Claim(m)
        PROVE  FulfilmentTypeOK'
    <2>1. RunsOK' /\ TasksOK'
      BY <1>1, <1>7, SetRunTypes, ThenTypes DEF Claim, At
    <2> QED
      BY <1>7, <2>1 DEF Claim, OffersOK
  <1>8. ASSUME ReadUndo(m)
        PROVE  FulfilmentTypeOK'
    <2>1. TasksOK'
      BY <1>1, <1>8, ThenTypes DEF ReadUndo, At
    <2> QED
      BY <1>8, <2>1 DEF ReadUndo, RunsOK, OffersOK
  <1>9. ASSUME Restore(m)
        PROVE  FulfilmentTypeOK'
    <2>1. RunsOK' /\ TasksOK'
      BY <1>1, <1>9, SetRunTypes, ThenTypes DEF Restore, At
    <2> QED
      BY <1>9, <2>1 DEF Restore, OffersOK
  <1>10. ASSUME Clear(m)
         PROVE  FulfilmentTypeOK'
    <2>1. p \in Orders /\ task[m].op # "none"
      BY <1>2, <1>10 DEF Clear, At
    <2>2. OffersOK' /\ TasksOK'
      BY <1>1, <1>10, <2>1, CancelTypes, ThenTypes, DoneTypes DEF Clear
    <2> QED
      BY <1>10, <2>2 DEF Clear, RunsOK
  <1> QED
    BY <1>3, <1>4, <1>5, <1>6, <1>7, <1>8, <1>9, <1>10 DEF SelfRequest

\* A row of the delivery table that gets a courier keeps its type.
LEMMA GivenRunTypes ==
  ASSUME RunsOK, NEW o \in Orders, NEW c \in Couriers, NEW status \in DeliveryStatuses,
         delivery' = [delivery EXCEPT ![o] = [status |-> status, courier |-> c]]
  PROVE  RunsOK'
  BY DEF RunsOK

\* An offer that changes state keeps its type.
LEMMA OfferTypes ==
  ASSUME OffersOK, NEW o \in Orders, NEW c \in Couriers, NEW s \in OfferStates,
         offer' = [offer EXCEPT ![o][c] = s]
  PROVE  OffersOK'
  BY DEF OffersOK

\* The requests about the run alone keep types.
LEMMA RunRequestTypes ==
  ASSUME MovesTypeOK, FulfilmentTypeOK, NEW m \in Movers, RunRequest(m)
  PROVE  FulfilmentTypeOK'
  <1> USE FulfilmentTypeParts
  <1> DEFINE p == task[m].order  k == task[m].courier
  <1>1. /\ CourierOps \subseteq Ops /\ {"rank", "dispatch"} \subseteq Ops \ CourierOps
        /\ {"rank", "dispatch"} \subseteq Ops
        /\ {"SEARCHING", "OFFERED", "PICKED_UP", "DELIVERED", "AT_PICKUP"} \subseteq DeliveryStatuses
        /\ {"PENDING", "DECLINED", "EXPIRED"} \subseteq OfferStates
        /\ "none" \notin CourierOps
    BY DEF Ops, CourierOps, DeliveryStatuses, OfferStates, Open
  <1>2. (task[m].op # "none" => p \in Orders) /\ (task[m].op \in CourierOps => k \in Couriers)
    BY DEF TasksOK
  <1>3. ASSUME NEW o \in Orders, ReadRun(m, o)
        PROVE  FulfilmentTypeOK'
    <2>1. TasksOK'
      BY <1>1, <1>3, BeginTypes DEF ReadRun
    <2> QED
      BY <1>3, <2>1 DEF ReadRun, RunsOK, OffersOK
  <1>4. ASSUME NEW o \in Orders, ReadConfirm(m, o)
        PROVE  FulfilmentTypeOK'
    <2>1. delivery[o].courier \in Couriers
      BY <1>4 DEF ReadConfirm, RunsOK
    <2>2. "pickup" \in CourierOps /\ "deliver" \in CourierOps
      BY DEF CourierOps
    <2>3. TasksOK'
      BY <1>1, <1>4, <2>1, <2>2, BeginTypes DEF ReadConfirm
    <2> QED
      BY <1>4, <2>3 DEF ReadConfirm, RunsOK, OffersOK
  <1>5. ASSUME NEW c \in Couriers, Rank(m, c)
        PROVE  FulfilmentTypeOK'
    <2>1. p \in Orders /\ "offer" \in CourierOps
      BY <1>2, <1>5 DEF Rank, At, CourierOps
    <2>2. TasksOK'
      BY <1>1, <1>5, <2>1, BeginTypes DEF Rank
    <2> QED
      BY <1>5, <2>2 DEF Rank, RunsOK, OffersOK
  <1>6. ASSUME NEW o \in Orders, NEW c \in Couriers,
               ReadDecline(m, o, c) \/ ReadSweep(m, o, c) \/ ReadAssign(m, o, c)
        PROVE  FulfilmentTypeOK'
    <2>1. {"decline", "sweep", "assign"} \subseteq CourierOps
      BY DEF CourierOps
    <2>2. TasksOK'
      BY <1>1, <1>6, <2>1, BeginTypes DEF ReadDecline, ReadSweep, ReadAssign
    <2> QED
      BY <1>6, <2>2 DEF ReadDecline, ReadSweep, ReadAssign, RunsOK, OffersOK
  <1>7. ASSUME Offer(m)
        PROVE  FulfilmentTypeOK'
    <2>1. p \in Orders /\ k \in Couriers
      BY <1>2, <1>7 DEF Offer, At, CourierOps
    <2>2. delivery[p].status \in DeliveryStatuses
      BY <2>1 DEF RunsOK
    <2>3. RunsOK' /\ OffersOK' /\ TasksOK'
      BY <1>1, <1>7, <2>1, <2>2, SetRunTypes, OfferTypes, DoneTypes DEF Offer
    <2> QED
      BY <1>7, <2>3 DEF Offer
  <1>8. ASSUME NEW answer \in {"DECLINED", "EXPIRED"}, Return(m, answer),
               task[m].op \in {"decline", "sweep"}
        PROVE  FulfilmentTypeOK'
    <2>1. p \in Orders /\ k \in Couriers
      BY <1>2, <1>8 DEF CourierOps
    <2>2. delivery[p].status \in DeliveryStatuses /\ offer[p][k] \in OfferStates
      BY <2>1 DEF RunsOK, OffersOK
    <2>3. RunsOK' /\ TasksOK'
      BY <1>1, <1>8, <2>1, <2>2, SetRunTypes, BeginTypes DEF Return
    <2>4. OffersOK'
      BY <1>1, <1>8, <2>1, <2>2 DEF Return, OffersOK
    <2> QED
      BY <1>8, <2>3, <2>4 DEF Return
  <1>9. ASSUME Confirm(m)
        PROVE  FulfilmentTypeOK'
    <2>1. RunsOK' /\ TasksOK'
      BY <1>1, <1>9, SetRunTypes, DoneTypes DEF Confirm
    <2> QED
      BY <1>9, <2>1 DEF Confirm, OffersOK
  <1>10. ASSUME Assign(m)
         PROVE  FulfilmentTypeOK'
    <2>1. p \in Orders /\ k \in Couriers
      BY <1>2, <1>10 DEF Assign, At, CourierOps
    <2>2. RunsOK' /\ OffersOK' /\ TasksOK'
      BY <1>1, <1>10, <2>1, GivenRunTypes, CancelTypes, DoneTypes DEF Assign
    <2> QED
      BY <1>10, <2>2 DEF Assign
  <1> QED
    BY <1>3, <1>4, <1>5, <1>6, <1>7, <1>8, <1>9, <1>10 DEF RunRequest, Decline, Sweep, At

-----------------------------------------------------------------------------
(***************************************************************************)
(* What a run does to its order are moves of OrderMoves.                   *)
(***************************************************************************)

\* A request that moves an order takes a step of a mover.
LEMMA MoveRequestMoves ==
  ASSUME NEW m \in Movers, MoveRequest(m)
  PROVE  MoverStep(m) \/ UNCHANGED moveVars
  BY DEF MoveRequest, ReadMove, ReadCompleteSelf, ReadAdminCancel, Gate, SelfGate,
         ReserveMove, Commit, MoveFails, WriteAdminCancel, MoverStep

\* So does a shop that delivers itself: it reads, and it gives up.
LEMMA SelfRequestMoves ==
  ASSUME NEW m \in Movers, SelfRequest(m)
  PROVE  MoverStep(m) \/ UNCHANGED moveVars
  BY DEF SelfRequest, StartSelf, Hold, Name, NameFails, Claim, ReadUndo, Restore, Clear,
         MoverStep

\* A request about the run alone writes the order's courier at most.
LEMMA RunRequestMoves ==
  ASSUME NEW m \in Movers, RunRequest(m), FulfilmentTypeOK
  PROVE  (\E o \in Orders, c \in Couriers : SetCourier(o, c)) \/ UNCHANGED moveVars
  <1>1. CASE Assign(m)
    <2>1. task[m].order \in Orders /\ task[m].courier \in Couriers
      BY <1>1 DEF Assign, At, FulfilmentTypeOK, CourierOps
    <2>2. SetCourier(task[m].order, task[m].courier)
      BY <1>1 DEF Assign
    <2> QED
      BY <2>1, <2>2
  <1>2. CASE ~Assign(m)
    BY <1>2 DEF RunRequest, ReadRun, ReadConfirm, Rank, ReadDecline, ReadSweep, ReadAssign,
                Offer, Decline, Sweep, Return, Confirm
  <1> QED
    BY <1>1, <1>2

\* Every step of a run is a step of the moves, or none.
LEMMA FulfilmentStepMoves ==
  ASSUME FulfilmentTypeOK, [FulfilmentNext]_vars
  PROVE  [MovesNext]_moveVars
  <1>1. ASSUME NEW m \in Movers, Drop(m)
        PROVE  MoverStep(m) \/ UNCHANGED moveVars
    BY <1>1 DEF Drop, MoverStep
  <1>2. ASSUME NEW o \in Orders, NEW c \in Couriers, Accept(o, c) \/ Lapse(o, c)
        PROVE  SetCourier(o, c) \/ UNCHANGED moveVars
    BY <1>2 DEF Accept, Lapse
  <1>3. ASSUME NEW o \in Orders, Ride(o)
        PROVE  UNCHANGED moveVars
    BY <1>3 DEF Ride
  <1>4. CASE UNCHANGED vars
    BY <1>4 DEF vars
  <1> QED
    BY <1>1, <1>2, <1>3, <1>4, MoveRequestMoves, SelfRequestMoves, RunRequestMoves
       DEF FulfilmentNext, MovesNext

\* And keeps the types of the run.
LEMMA FulfilmentTypeNext ==
  ASSUME MovesTypeOK, FulfilmentTypeOK, [FulfilmentNext]_vars
  PROVE  FulfilmentTypeOK'
  <1> USE FulfilmentTypeParts
  <1>1. ASSUME NEW m \in Movers, Drop(m)
        PROVE  FulfilmentTypeOK'
    BY <1>1, DoneTypes DEF Drop, RunsOK, OffersOK
  <1>2. ASSUME NEW o \in Orders, NEW c \in Couriers, Lapse(o, c)
        PROVE  FulfilmentTypeOK'
    <2>1. "LAPSED" \in OfferStates
      BY DEF OfferStates, Open
    <2>2. OffersOK'
      BY <1>2, <2>1, OfferTypes DEF Lapse
    <2> QED
      BY <1>2, <2>2 DEF Lapse, RunsOK, TasksOK
  <1>3. ASSUME NEW o \in Orders, NEW c \in Couriers, Accept(o, c)
        PROVE  FulfilmentTypeOK'
    <2>1. "ACCEPTED" \in DeliveryStatuses /\ "ACCEPTED" \in OfferStates
      BY DEF DeliveryStatuses, OfferStates
    <2>2. RunsOK'
      BY <1>3, <2>1, GivenRunTypes DEF Accept
    <2>3. OffersCancelled(o) \in [Couriers -> OfferStates] /\ offer[o][c] \in OfferStates
      BY DEF OffersOK, OffersCancelled, OfferStates
    <2>4. OffersOK'
      BY <1>3, <2>1, <2>3 DEF Accept, OffersOK
    <2> QED
      BY <1>3, <2>2, <2>4 DEF Accept, TasksOK
  <1>4. ASSUME NEW o \in Orders, Ride(o)
        PROVE  FulfilmentTypeOK'
    <2>1. RunsOK'
      BY <1>4, SetRunTypes DEF Ride, DeliveryStatuses
    <2> QED
      BY <1>4, <2>1 DEF Ride, OffersOK, TasksOK
  <1>5. CASE UNCHANGED vars
    BY <1>5 DEF vars, runVars, RunsOK, OffersOK, TasksOK
  <1> QED
    BY <1>1, <1>2, <1>3, <1>4, <1>5, MoveRequestTypes, SelfRequestTypes, RunRequestTypes
       DEF FulfilmentNext

(***************************************************************************)
(* Type correctness of the delivery and offer tables and of every request  *)
(* of deliveries.ts, delivery-dispatch.ts and orders.ts in flight.         *)
(***************************************************************************)
THEOREM FulfilmentTypesCorrect == FulfilmentSpec => []FulfilmentTypeOK
  <1>1. FulfilmentInit => MovesTypeOK /\ FulfilmentTypeOK
    BY MovesTypeInit, FulfilmentTypeInit DEF FulfilmentInit
  <1>2. MovesTypeOK /\ FulfilmentTypeOK /\ [FulfilmentNext]_vars
          => (MovesTypeOK /\ FulfilmentTypeOK)'
    BY FulfilmentStepMoves, FulfilmentTypeNext, MovesTypeNext
  <1> QED
    BY <1>1, <1>2, PTL DEF FulfilmentSpec

(***************************************************************************)
(* Orders with a delivery move as orders do: offers, acceptances,          *)
(* assignments, sweeps and self-delivery add no move of their own.         *)
(***************************************************************************)
THEOREM FulfilmentImplementsMoves == FulfilmentSpec => ImplementsMoves
  <1>1. FulfilmentInit => MovesInit
    BY DEF FulfilmentInit
  <1>2. FulfilmentTypeOK /\ [FulfilmentNext]_vars => [MovesNext]_moveVars
    BY FulfilmentStepMoves
  <1> QED
    BY <1>1, <1>2, FulfilmentTypesCorrect, PTL DEF FulfilmentSpec, ImplementsMoves, MovesSpec

(***************************************************************************)
(* So the log of a delivered order keeps its promise, whatever couriers,   *)
(* shops and sweeps do to its run meanwhile.                               *)
(***************************************************************************)
THEOREM FulfilmentKeepsTheLog ==
  FulfilmentSpec => []UniqueVersions /\ []LegalHistory /\ ImplementsLog
  BY FulfilmentImplementsMoves, VersionsAreUnique, HistoryIsLegal, MovesImplementLog
     DEF ImplementsMoves

-----------------------------------------------------------------------------
(***************************************************************************)
(* The run's courier and the order's are one person, who carries one run.  *)
(* A step that writes a run sets its status, or gives it to a courier who  *)
(* has no other; only a run without courier is put up or becomes active.   *)
(***************************************************************************)
PutUp == {"SEARCHING", "OFFERED"}

Turns(o, status) ==
  \/ delivery[o].courier = Nobody
  \/ /\ status \in PutUp => delivery[o].status \in PutUp
     /\ status \in ActiveStatuses => delivery[o].status \in ActiveStatuses

RunTurns ==
  /\ \A o \in Orders : order'[o].courier = order[o].courier
  /\ \/ UNCHANGED delivery
     \/ \E o \in Orders : \E status : SetRun(o, status) /\ Turns(o, status)

RunGiven ==
  \E o \in Orders, c \in Couriers : \E status :
    /\ SetCourier(o, c) /\ ~CarriesAnother(c, o) /\ status \notin PutUp
    /\ delivery' = [delivery EXCEPT ![o] = [status |-> status, courier |-> c]]

\* The moves of an order leave its courier alone.
LEMMA MoverKeepsCourier ==
  ASSUME MovesTypeOK, NEW m \in Movers, MoverStep(m) \/ UNCHANGED moveVars
  PROVE  \A o \in Orders : order'[o].courier = order[o].courier
  <1>1. CASE Reserve(m)
    BY <1>1 DEF Reserve, MovesTypeOK, OrderRow
  <1>2. CASE CommitMove(m)
    BY <1>2 DEF CommitMove, MovesTypeOK, OrderRow
  <1>3. CASE AdminCancel(m)
    BY <1>3 DEF AdminCancel, MovesTypeOK, OrderRow
  <1>4. CASE UNCHANGED order
    BY <1>4
  <1> QED
    BY <1>1, <1>2, <1>3, <1>4 DEF MoverStep, ReadToMove, ReadToStartSelf, ReadToClaimOut,
       ReadToCompleteSelf, AdminRead, LoseReservation, Abandon, moveVars

\* A step that writes a status leaves the courier of every run alone.
LEMMA SetRunKeepsCourier ==
  ASSUME RunsOK, NEW o, NEW status, SetRun(o, status)
  PROVE  \A p \in Orders : delivery'[p].courier = delivery[p].courier
  BY DEF RunsOK, SetRun

\* Every step is of one of the two kinds.
LEMMA RunIsTurnedOrGiven ==
  ASSUME MovesTypeOK, FulfilmentTypeOK, [FulfilmentNext]_vars
  PROVE  RunTurns \/ RunGiven
  <1>1. RunsOK /\ TasksOK
    BY FulfilmentTypeParts
  <1>2. ASSUME NEW m \in Movers, MoveRequest(m)
        PROVE  RunTurns
    <2>1. \A o \in Orders : order'[o].courier = order[o].courier
      BY <1>2, MoveRequestMoves, MoverKeepsCourier
    <2>2. CASE Commit(m)
      <3>1. PICK o \in Orders : o = mover[m].order
        BY <2>2 DEF Commit, CommitMove, MovesTypeOK
      <3>2. SetRun(o, RunAfter(mover[m], delivery[o]))
        BY <2>2, <3>1 DEF Commit
      <3>3. Turns(o, RunAfter(mover[m], delivery[o]))
        BY DEF Turns, RunAfter, PutUp, ActiveStatuses
      <3> QED
        BY <2>1, <3>2, <3>3 DEF RunTurns
    <2>3. CASE ~Commit(m)
      BY <1>2, <2>1, <2>3 DEF RunTurns, MoveRequest, ReadMove, ReadCompleteSelf, ReadAdminCancel,
         Gate, SelfGate, ReserveMove, MoveFails, WriteAdminCancel, runVars
    <2> QED
      BY <2>2, <2>3
  <1>3. ASSUME NEW m \in Movers, SelfRequest(m)
        PROVE  RunTurns
    <2>1. \A o \in Orders : order'[o].courier = order[o].courier
      BY <1>3, SelfRequestMoves, MoverKeepsCourier
    <2>2. CASE Hold(m) \/ NameFails(m) \/ Claim(m) \/ Restore(m)
      <3>1. PICK o \in Orders : o = task[m].order
        BY <1>1, <2>2 DEF Hold, NameFails, Claim, Restore, At, TasksOK
      <3>2. delivery[o].courier = Nobody
        BY <2>2, <3>1 DEF Hold, NameFails, Claim, Restore, Unclaimed
      <3>3. \E status : SetRun(o, status)
        BY <2>2, <3>1 DEF Hold, NameFails, Claim, Restore
      <3> QED
        BY <2>1, <3>2, <3>3 DEF RunTurns, Turns
    <2>3. CASE ~(Hold(m) \/ NameFails(m) \/ Claim(m) \/ Restore(m))
      BY <1>3, <2>1, <2>3 DEF RunTurns, SelfRequest, StartSelf, Name, ReadUndo, Clear
    <2> QED
      BY <2>2, <2>3
  <1>4. ASSUME NEW m \in Movers, RunRequest(m)
        PROVE  RunTurns \/ RunGiven
    <2> DEFINE o == task[m].order
    <2>1. CASE Assign(m)
      <3>1. o \in Orders /\ task[m].courier \in Couriers
        BY <1>1, <2>1 DEF Assign, At, TasksOK, CourierOps
      <3>2. "AT_PICKUP" \notin PutUp
        BY DEF PutUp
      <3> QED
        BY <2>1, <3>1, <3>2 DEF Assign, RunGiven
    <2>2. CASE Offer(m) \/ Decline(m) \/ Sweep(m) \/ Confirm(m)
      <3>1. o \in Orders /\ UNCHANGED moveVars
        BY <1>1, <2>2 DEF Offer, Decline, Sweep, Return, Confirm, At, TasksOK
      <3>2. CASE Offer(m)
        <4> DEFINE status == IF delivery[o].status = "SEARCHING" THEN "OFFERED" ELSE delivery[o].status
        <4>1. SetRun(o, status)
          BY <3>2 DEF Offer
        <4>2. Turns(o, status)
          BY DEF Turns, PutUp, ActiveStatuses
        <4> QED
          BY <3>1, <4>1, <4>2 DEF RunTurns, moveVars
      <3>3. CASE Decline(m) \/ Sweep(m)
        <4> DEFINE status == IF delivery[o].status = "OFFERED" THEN "SEARCHING" ELSE delivery[o].status
        <4>1. SetRun(o, status)
          BY <3>3 DEF Decline, Sweep, Return
        <4>2. Turns(o, status)
          BY DEF Turns, PutUp, ActiveStatuses
        <4> QED
          BY <3>1, <4>1, <4>2 DEF RunTurns, moveVars
      <3>4. CASE Confirm(m)
        <4>1. PICK status : SetRun(o, status) /\ Turns(o, status)
          BY <3>4 DEF Confirm, Turns, PutUp, ActiveStatuses
        <4> QED
          BY <3>1, <4>1 DEF RunTurns, moveVars
      <3> QED
        BY <2>2, <3>2, <3>3, <3>4
    <2>3. CASE ~(Assign(m) \/ Offer(m) \/ Decline(m) \/ Sweep(m) \/ Confirm(m))
      BY <1>4, <2>3 DEF RunTurns, RunRequest, ReadRun, ReadConfirm, Rank, ReadDecline, ReadSweep,
                        ReadAssign, moveVars
    <2> QED
      BY <2>1, <2>2, <2>3
  <1>5. ASSUME NEW m \in Movers, Drop(m)
        PROVE  RunTurns
    BY <1>5 DEF RunTurns, Drop, Abandon, moveVars
  <1>6. ASSUME NEW o \in Orders, NEW c \in Couriers, Accept(o, c)
        PROVE  RunGiven
    BY <1>6 DEF RunGiven, Accept, PutUp
  <1>7. ASSUME NEW o \in Orders, NEW c \in Couriers, Lapse(o, c)
        PROVE  RunTurns
    BY <1>7 DEF RunTurns, Lapse, moveVars
  <1>8. ASSUME NEW o \in Orders, Ride(o)
        PROVE  RunTurns
    <2>1. PICK status : SetRun(o, status) /\ Turns(o, status)
      BY <1>8 DEF Ride, Turns, PutUp, ActiveStatuses
    <2> QED
      BY <1>8, <2>1 DEF RunTurns, Ride, moveVars
  <1>9. CASE UNCHANGED vars
    BY <1>9 DEF RunTurns, vars, moveVars, runVars
  <1> QED
    BY <1>2, <1>3, <1>4, <1>5, <1>6, <1>7, <1>8, <1>9 DEF FulfilmentNext

\* Both kinds keep the two tables in agreement, ...
LEMMA CourierAgreesNext ==
  ASSUME MovesTypeOK, FulfilmentTypeOK, CourierAgrees, RunTurns \/ RunGiven
  PROVE  CourierAgrees'
  <1>1. RunsOK
    BY FulfilmentTypeParts
  <1>2. CASE RunGiven
    BY <1>1, <1>2 DEF RunGiven, SetCourier, MovesTypeOK, RunsOK, OrderRow, CourierAgrees, PutUp
  <1>3. CASE RunTurns
    <2>1. CASE UNCHANGED delivery
      BY <1>3, <2>1 DEF RunTurns, CourierAgrees
    <2>2. ASSUME NEW o \in Orders, NEW status, SetRun(o, status), Turns(o, status)
          PROVE  CourierAgrees'
      <3>1. /\ delivery'[o].status = status /\ delivery'[o].courier = delivery[o].courier
            /\ \A q \in Orders \ {o} : delivery'[q] = delivery[q]
        BY <1>1, <2>2 DEF RunsOK, SetRun
      <3> QED
        BY <1>3, <2>2, <3>1 DEF RunTurns, Turns, CourierAgrees, PutUp
    <2> QED
      BY <1>3, <2>1, <2>2 DEF RunTurns
  <1> QED
    BY <1>2, <1>3

\* ... and give no courier a second run.
LEMMA CarryOneNext ==
  ASSUME FulfilmentTypeOK, CouriersCarryOne, RunTurns \/ RunGiven
  PROVE  CouriersCarryOne'
  <1>1. RunsOK
    BY FulfilmentTypeParts
  <1>2. CASE RunGiven
    <2>1. PICK o \in Orders, c \in Couriers :
            /\ ~CarriesAnother(c, o)
            /\ \E status : delivery' = [delivery EXCEPT ![o] = [status |-> status, courier |-> c]]
      BY <1>2 DEF RunGiven
    <2>2. delivery'[o].courier = c /\ \A q \in Orders \ {o} : delivery'[q] = delivery[q]
      BY <1>1, <2>1 DEF RunsOK
    <2> QED
      BY <2>1, <2>2 DEF CarriesAnother, CouriersCarryOne
  <1>3. CASE RunTurns
    <2>1. CASE UNCHANGED delivery
      BY <2>1 DEF CouriersCarryOne
    <2>2. ASSUME NEW o \in Orders, NEW status, SetRun(o, status), Turns(o, status)
          PROVE  CouriersCarryOne'
      <3>1. /\ delivery'[o].status = status /\ delivery'[o].courier = delivery[o].courier
            /\ \A q \in Orders \ {o} : delivery'[q] = delivery[q]
        BY <1>1, <2>2 DEF RunsOK, SetRun
      <3> QED
        BY <2>2, <3>1 DEF Turns, CouriersCarryOne
    <2> QED
      BY <1>3, <2>1, <2>2 DEF RunTurns
  <1> QED
    BY <1>2, <1>3

(***************************************************************************)
(* The gate of advance and the reads of reachableOrder never disagree on   *)
(* whose run it is, for any number of couriers and overlapping requests.   *)
(***************************************************************************)
THEOREM OneCourier == FulfilmentSpec => []CourierAgrees
  <1>1. FulfilmentInit => CourierAgrees
    BY DEF FulfilmentInit, MovesInit, CourierAgrees
  <1>2. FulfilmentSpec => []MovesTypeOK
    BY FulfilmentImplementsMoves, MovesTypeCorrect DEF ImplementsMoves
  <1>3. MovesTypeOK /\ FulfilmentTypeOK /\ CourierAgrees /\ [FulfilmentNext]_vars => CourierAgrees'
    BY RunIsTurnedOrGiven, CourierAgreesNext
  <1> QED
    BY <1>1, <1>2, <1>3, FulfilmentTypesCorrect, PTL DEF FulfilmentSpec

(***************************************************************************)
(* However many acceptances and assignments race, and whatever a run does  *)
(* after them, no courier carries two (delivery_courier_active_unique).    *)
(***************************************************************************)
THEOREM OneRunEach == FulfilmentSpec => []CouriersCarryOne
  <1>1. FulfilmentInit => CouriersCarryOne
    BY DEF FulfilmentInit, CouriersCarryOne
  <1>2. FulfilmentSpec => []MovesTypeOK
    BY FulfilmentImplementsMoves, MovesTypeCorrect DEF ImplementsMoves
  <1>3. MovesTypeOK /\ FulfilmentTypeOK /\ CouriersCarryOne /\ [FulfilmentNext]_vars
          => CouriersCarryOne'
    BY RunIsTurnedOrGiven, CarryOneNext
  <1> QED
    BY <1>1, <1>2, <1>3, FulfilmentTypesCorrect, PTL DEF FulfilmentSpec

-----------------------------------------------------------------------------
(***************************************************************************)
(* The first answer to an offer is the last.                               *)
(***************************************************************************)
AnsweredStep ==
  \A o \in Orders, c \in Couriers :
    offer[o][c] \notin Open \cup {"NONE"} => offer'[o][c] = offer[o][c]

\* Cancelling the open offers of a run keeps the answered ones.
LEMMA CancelKeepsAnswers ==
  ASSUME OffersOK, NEW o, CancelOffers(o)
  PROVE  AnsweredStep
  BY DEF OffersOK, CancelOffers, OffersCancelled, AnsweredStep

\* Writing one offer keeps them if it was open or is written as it was.
LEMMA OneOfferKeepsAnswers ==
  ASSUME OffersOK, NEW p, NEW k, NEW s, offer' = [offer EXCEPT ![p][k] = s],
         offer[p][k] \in Open \cup {"NONE"} \/ s = offer[p][k]
  PROVE  AnsweredStep
  BY DEF OffersOK, AnsweredStep

\* Each statement that writes an offer asks that it is still open.
LEMMA AnsweredNext ==
  ASSUME FulfilmentTypeOK, FulfilmentNext
  PROVE  AnsweredStep
  <1>1. OffersOK
    BY FulfilmentTypeParts
  <1>2. ASSUME UNCHANGED offer
        PROVE  AnsweredStep
    BY <1>2 DEF AnsweredStep
  <1>3. ASSUME NEW m \in Movers, MoveRequest(m) \/ SelfRequest(m) \/ Drop(m)
        PROVE  AnsweredStep
    <2>1. UNCHANGED offer \/ \E o : CancelOffers(o)
      BY <1>3 DEF MoveRequest, ReadMove, ReadCompleteSelf, ReadAdminCancel, Gate, SelfGate,
                  ReserveMove, Commit, MoveFails, WriteAdminCancel, runVars, SelfRequest,
                  StartSelf, Hold, Name, NameFails, Claim, ReadUndo, Restore, Clear, Drop
    <2> QED
      BY <1>1, <1>2, <2>1, CancelKeepsAnswers
  <1>4. ASSUME NEW m \in Movers, RunRequest(m)
        PROVE  AnsweredStep
    <2>1. CASE Offer(m)
      BY <1>1, <2>1 DEF Offer, OffersOK, AnsweredStep
    <2>2. CASE Decline(m) \/ Sweep(m)
      <3> DEFINE p == task[m].order  k == task[m].courier
      <3>1. PICK answer : offer' =
              [offer EXCEPT ![p][k] = IF offer[p][k] \in Open THEN answer ELSE offer[p][k]]
        BY <2>2 DEF Decline, Sweep, Return
      <3>2. CASE offer[p][k] \in Open
        <4>1. offer' = [offer EXCEPT ![p][k] = answer]
          BY <3>1, <3>2
        <4> QED
          BY <1>1, <3>2, <4>1, OneOfferKeepsAnswers
      <3>3. CASE offer[p][k] \notin Open
        <4>1. offer' = [offer EXCEPT ![p][k] = offer[p][k]]
          BY <3>1, <3>3
        <4> QED
          BY <1>1, <4>1, OneOfferKeepsAnswers
      <3> QED
        BY <3>2, <3>3
    <2>3. CASE Assign(m)
      BY <1>1, <2>3, CancelKeepsAnswers DEF Assign
    <2>4. CASE ~(Offer(m) \/ Decline(m) \/ Sweep(m) \/ Assign(m))
      BY <1>2, <1>4, <2>4 DEF RunRequest, ReadRun, ReadConfirm, Rank, ReadDecline, ReadSweep,
                              ReadAssign, Confirm
    <2> QED
      BY <2>1, <2>2, <2>3, <2>4
  <1>5. ASSUME NEW o \in Orders, NEW c \in Couriers, Accept(o, c)
        PROVE  AnsweredStep
    <2> DEFINE s == IF offer[o][c] = "PENDING" THEN "ACCEPTED" ELSE offer[o][c]
    <2>1. offer' = [offer EXCEPT ![o] = [OffersCancelled(o) EXCEPT ![c] = s]]
      BY <1>5 DEF Accept
    <2>2. /\ OffersCancelled(o) \in [Couriers -> OfferStates]
          /\ \A b \in Couriers : offer[o][b] \notin Open => OffersCancelled(o)[b] = offer[o][b]
      BY <1>1 DEF OffersOK, OffersCancelled, OfferStates
    <2>3. offer[o][c] \notin Open => s = offer[o][c]
      BY DEF Open
    <2> HIDE DEF s
    <2>4. \A b \in Couriers : offer'[o][b] = IF b = c THEN s ELSE OffersCancelled(o)[b]
      BY <1>1, <2>1, <2>2 DEF OffersOK
    <2>5. \A p \in Orders \ {o} : offer'[p] = offer[p]
      BY <1>1, <2>1 DEF OffersOK
    <2> QED
      BY <2>2, <2>3, <2>4, <2>5 DEF AnsweredStep
  <1>6. ASSUME NEW o \in Orders, NEW c \in Couriers, Lapse(o, c)
        PROVE  AnsweredStep
    BY <1>1, <1>6 DEF Lapse, OffersOK, AnsweredStep, Open
  <1>7. ASSUME NEW o \in Orders, Ride(o)
        PROVE  AnsweredStep
    BY <1>2, <1>7 DEF Ride
  <1> QED
    BY <1>3, <1>4, <1>5, <1>6, <1>7 DEF FulfilmentNext

(***************************************************************************)
(* Accept, decline, sweep and the cancellations race for an offer, and the *)
(* first to write it is the only one, for any number of each.              *)
(***************************************************************************)
THEOREM FirstAnswerStands == FulfilmentSpec => AnsweredStaysAnswered
  <1>1. FulfilmentTypeOK /\ [FulfilmentNext]_vars => [AnsweredStep]_vars
    BY AnsweredNext
  <1>2. AnsweredStaysAnswered <=> [][AnsweredStep]_vars
    BY DEF AnsweredStaysAnswered, AnsweredStep
  <1> QED
    BY <1>1, <1>2, FulfilmentTypesCorrect, PTL DEF FulfilmentSpec

-----------------------------------------------------------------------------
(***************************************************************************)
(* The shop or one courier has the run.  A request that claimed a run for  *)
(* the shop and has not finished or undone its move is the only one that   *)
(* did, and as long as no courier is given the run, it is not up for offer.*)
(* Only its own undo puts the run up again.                                *)
(***************************************************************************)
Claiming == {"moving", "undo", "restore"}
Taken == {"PICKED_UP", "DELIVERED", "CANCELLED"}

ClaimHolds ==
  \A m \in Movers : task[m].op \in Claiming /\ delivery[task[m].order].courier = Nobody =>
    /\ delivery[task[m].order].status \in Taken
    /\ \A n \in Movers :
         task[n].op \in Claiming /\ task[n].order = task[m].order => n = m

AcceptedOnce ==
  \A o \in Orders, c \in Couriers : offer[o][c] = "ACCEPTED" =>
    /\ delivery[o].courier # Nobody
    /\ \A b \in Couriers : offer[o][b] = "ACCEPTED" => b = c

\* What a step that claims nothing may do to the tasks, the runs and the offers.
NoNewClaim ==
  \A m \in Movers : task'[m].op \in Claiming =>
    task[m].op \in Claiming /\ task'[m].order = task[m].order
NotPutUp ==
  \A o \in Orders : delivery'[o].courier = Nobody =>
    /\ delivery[o].courier = Nobody
    /\ delivery[o].status \in Taken => delivery'[o].status \in Taken
NoNewAnswer ==
  \A o \in Orders, c \in Couriers : offer'[o][c] = "ACCEPTED" => offer[o][c] = "ACCEPTED"

LEMMA ClaimFrame ==
  ASSUME TasksOK, ClaimHolds, NoNewClaim, NotPutUp
  PROVE  ClaimHolds'
  <1>1. \A m \in Movers : task[m].op \in Claiming => task[m].order \in Orders
    BY DEF TasksOK, Claiming
  <1> QED
    BY <1>1 DEF ClaimHolds, NoNewClaim, NotPutUp

LEMMA AcceptedFrame ==
  ASSUME AcceptedOnce, NoNewAnswer,
         \A o \in Orders : delivery'[o].courier = Nobody => delivery[o].courier = Nobody
  PROVE  AcceptedOnce'
  BY DEF AcceptedOnce, NoNewAnswer

\* A task that begins, ends or is past its claim claims nothing.
LEMMA BeginClaims ==
  ASSUME TasksOK, NEW m \in Movers, NEW op, NEW o, NEW c, NEW own,
         op \notin Claiming, Begin(m, op, o, c, own)
  PROVE  NoNewClaim
  BY DEF TasksOK, Begin, NoNewClaim

LEMMA ThenClaims ==
  ASSUME TasksOK, NEW m \in Movers, NEW op,
         op \in Claiming => task[m].op \in Claiming, Then(m, op)
  PROVE  NoNewClaim
  BY DEF TasksOK, TaskRow, Then, NoNewClaim

LEMMA DoneClaims ==
  ASSUME TasksOK, NEW m \in Movers, Done(m)
  PROVE  NoNewClaim
  BY DEF TasksOK, Done, NoTask, NoNewClaim, Claiming

LEMMA SameTasks == ASSUME UNCHANGED task PROVE NoNewClaim
  BY DEF NoNewClaim

\* A status that does not put a taken run up again.
LEMMA SetRunKeeps ==
  ASSUME RunsOK, NEW o \in Orders, NEW status, SetRun(o, status),
         delivery[o].courier = Nobody /\ delivery[o].status \in Taken => status \in Taken
  PROVE  NotPutUp
  BY DEF RunsOK, SetRun, NotPutUp

LEMMA SameRuns == ASSUME UNCHANGED delivery PROVE NotPutUp
  BY DEF NotPutUp

LEMMA GivenKeeps ==
  ASSUME RunsOK, NEW o \in Orders, NEW c \in Couriers, NEW status,
         delivery' = [delivery EXCEPT ![o] = [status |-> status, courier |-> c]]
  PROVE  NotPutUp
  <1>1. c # Nobody
    BY OrderMovesAssumption DEF Callers
  <1> QED
    BY <1>1 DEF RunsOK, NotPutUp

\* Cancelling and answering accept nothing.
LEMMA CancelAccepts ==
  ASSUME OffersOK, NEW o, CancelOffers(o)
  PROVE  NoNewAnswer
  BY DEF OffersOK, CancelOffers, OffersCancelled, NoNewAnswer

LEMMA OneOfferAccepts ==
  ASSUME OffersOK, NEW p, NEW k, NEW s, offer' = [offer EXCEPT ![p][k] = s],
         s = "ACCEPTED" => offer[p][k] = "ACCEPTED"
  PROVE  NoNewAnswer
  BY DEF OffersOK, NoNewAnswer

LEMMA SameOffers == ASSUME UNCHANGED offer PROVE NoNewAnswer
  BY DEF NoNewAnswer

\* The batch of a move leaves a taken run taken.
LEMMA RunAfterTaken ==
  ASSUME NEW move, NEW d, d.status \in Taken
  PROVE  RunAfter(move, d) \in Taken
  BY DEF RunAfter, Taken

\* A step that does none of the three keeps the invariant.
Quietly == NoNewClaim /\ NotPutUp /\ NoNewAnswer

LEMMA QuietFrame ==
  ASSUME TasksOK, ClaimHolds, AcceptedOnce, Quietly
  PROVE  ClaimHolds' /\ AcceptedOnce'
  BY ClaimFrame, AcceptedFrame DEF Quietly, NotPutUp

\* The requests that move an order are quiet.
LEMMA MoveRequestIsQuiet ==
  ASSUME MovesTypeOK, FulfilmentTypeOK, NEW m \in Movers, MoveRequest(m)
  PROVE  Quietly
  <1>1. RunsOK /\ OffersOK /\ TasksOK
    BY FulfilmentTypeParts
  <1>2. ASSUME NEW o \in Orders, NEW caller, NEW to, ReadMove(m, o, caller, to)
        PROVE  Quietly
    <2>1. NoNewClaim
      BY <1>1, <1>2, BeginClaims, SameTasks DEF ReadMove, Claiming
    <2> QED
      BY <1>2, <2>1, SameRuns, SameOffers DEF ReadMove, Quietly
  <1>3. ASSUME NEW o \in Orders, ReadCompleteSelf(m, o)
        PROVE  Quietly
    <2>1. NoNewClaim
      BY <1>1, <1>3, BeginClaims DEF ReadCompleteSelf, Claiming
    <2> QED
      BY <1>3, <2>1, SameRuns, SameOffers DEF ReadCompleteSelf, Quietly
  <1>4. ASSUME Gate(m) \/ SelfGate(m)
        PROVE  Quietly
    BY <1>1, <1>4, DoneClaims, SameRuns, SameOffers DEF Gate, SelfGate, Quietly
  <1>5. ASSUME Commit(m)
        PROVE  Quietly
    <2> DEFINE o == mover[m].order
    <2>1. o \in Orders
      BY <1>5 DEF Commit, CommitMove, MovesTypeOK
    <2>2. NoNewClaim
      BY <1>1, <1>5, BeginClaims, DoneClaims DEF Commit, Claiming
    <2>3. SetRun(o, RunAfter(mover[m], delivery[o]))
      BY <1>5 DEF Commit
    <2>4. NotPutUp
      BY <1>1, <2>1, <2>3, SetRunKeeps, RunAfterTaken
    <2>5. NoNewAnswer
      BY <1>1, <1>5, CancelAccepts, SameOffers DEF Commit
    <2> QED
      BY <2>2, <2>4, <2>5 DEF Quietly
  <1>6. ASSUME MoveFails(m)
        PROVE  Quietly
    <2>1. NoNewClaim
      BY <1>1, <1>6, ThenClaims, DoneClaims DEF MoveFails, At, Claiming
    <2> QED
      BY <1>6, <2>1, SameRuns, SameOffers DEF MoveFails, Quietly
  <1>7. ASSUME UNCHANGED runVars
        PROVE  Quietly
    BY <1>7, SameTasks, SameRuns, SameOffers DEF runVars, Quietly
  <1> QED
    BY <1>2, <1>3, <1>4, <1>5, <1>6, <1>7 DEF MoveRequest, ReadAdminCancel, ReserveMove,
       WriteAdminCancel

\* The requests about the run alone are quiet.
LEMMA RunRequestIsQuiet ==
  ASSUME FulfilmentTypeOK, NEW m \in Movers, RunRequest(m)
  PROVE  Quietly
  <1>1. RunsOK /\ OffersOK /\ TasksOK
    BY FulfilmentTypeParts
  <1> DEFINE p == task[m].order  k == task[m].courier
  <1>2. (task[m].op # "none" => p \in Orders) /\ (task[m].op \in CourierOps => k \in Couriers)
    BY <1>1 DEF TasksOK
  <1>3. ASSUME NEW o \in Orders, ReadRun(m, o) \/ ReadConfirm(m, o)
        PROVE  Quietly
    <2>1. NoNewClaim
      BY <1>1, <1>3, BeginClaims DEF ReadRun, ReadConfirm, Claiming
    <2> QED
      BY <1>3, <2>1, SameRuns, SameOffers DEF ReadRun, ReadConfirm, Quietly
  <1>4. ASSUME NEW c \in Couriers, Rank(m, c)
        PROVE  Quietly
    <2>1. NoNewClaim
      BY <1>1, <1>4, BeginClaims DEF Rank, Claiming
    <2> QED
      BY <1>4, <2>1, SameRuns, SameOffers DEF Rank, Quietly
  <1>5. ASSUME NEW o \in Orders, NEW c \in Couriers,
               ReadDecline(m, o, c) \/ ReadSweep(m, o, c) \/ ReadAssign(m, o, c)
        PROVE  Quietly
    <2>1. NoNewClaim
      BY <1>1, <1>5, BeginClaims DEF ReadDecline, ReadSweep, ReadAssign, Claiming
    <2> QED
      BY <1>5, <2>1, SameRuns, SameOffers DEF ReadDecline, ReadSweep, ReadAssign, Quietly
  <1>6. ASSUME Offer(m)
        PROVE  Quietly
    <2>1. p \in Orders
      BY <1>2, <1>6 DEF Offer, At
    <2>2. PICK status : SetRun(p, status) /\ (delivery[p].status \in Taken => status \in Taken)
      BY <1>6 DEF Offer, Taken
    <2>3. NotPutUp
      BY <1>1, <2>1, <2>2, SetRunKeeps
    <2>4. NoNewAnswer
      BY <1>1, <1>6, OneOfferAccepts DEF Offer
    <2> QED
      BY <1>1, <1>6, <2>3, <2>4, DoneClaims DEF Offer, Quietly
  <1>7. ASSUME NEW answer, answer # "ACCEPTED", p \in Orders, Return(m, answer)
        PROVE  Quietly
    <2>1. PICK status : SetRun(p, status) /\ (delivery[p].status \in Taken => status \in Taken)
      BY <1>7 DEF Return, Taken
    <2>2. NotPutUp
      BY <1>1, <1>7, <2>1, SetRunKeeps
    <2>3. PICK s : /\ offer' = [offer EXCEPT ![p][k] = s]
                   /\ s = "ACCEPTED" => offer[p][k] = "ACCEPTED"
      BY <1>7 DEF Return
    <2>4. NoNewAnswer
      BY <1>1, <2>3, OneOfferAccepts
    <2>5. NoNewClaim
      BY <1>1, <1>7, BeginClaims DEF Return, Claiming
    <2> QED
      BY <2>2, <2>4, <2>5 DEF Quietly
  <1>8. ASSUME Confirm(m)
        PROVE  Quietly
    <2>1. p \in Orders
      BY <1>2, <1>8 DEF Confirm
    <2>2. PICK status \in {"PICKED_UP", "DELIVERED"} : SetRun(p, status)
      BY <1>8 DEF Confirm
    <2>3. NotPutUp
      BY <1>1, <2>1, <2>2, SetRunKeeps DEF Taken
    <2> QED
      BY <1>1, <1>8, <2>3, DoneClaims, SameOffers DEF Confirm, Quietly
  <1>9. ASSUME Assign(m)
        PROVE  Quietly
    <2>1. p \in Orders /\ k \in Couriers
      BY <1>2, <1>9 DEF Assign, At, CourierOps
    <2>2. NotPutUp
      BY <1>1, <1>9, <2>1, GivenKeeps DEF Assign
    <2>3. NoNewAnswer
      BY <1>1, <1>9, CancelAccepts DEF Assign
    <2> QED
      BY <1>1, <1>9, <2>2, <2>3, DoneClaims DEF Assign, Quietly
  <1> QED
    BY <1>2, <1>3, <1>4, <1>5, <1>6, <1>7, <1>8, <1>9
       DEF RunRequest, Decline, Sweep, At

\* A claim finds a run nobody has, so it is the only one.
LEMMA ClaimIsAlone ==
  ASSUME FulfilmentTypeOK, ClaimHolds, NEW m \in Movers, Claim(m)
  PROVE  ClaimHolds'
  <1> DEFINE o == task[m].order
             op == IF mover[m].pc = "claimOut" THEN "clear" ELSE "moving"
  <1>1. RunsOK /\ TasksOK
    BY FulfilmentTypeParts
  <1>2. o \in Orders
    BY <1>1 DEF Claim, At, TasksOK
  <1>3. delivery[o].courier = Nobody /\ delivery[o].status \notin Taken
    BY DEF Claim, Unclaimed, Taken
  <1>4. \A n \in Movers : task[n].op \in Claiming => task[n].order # o
    BY <1>3 DEF ClaimHolds
  <1>5. /\ \A q \in Orders : delivery'[q].courier = delivery[q].courier
        /\ \A q \in Orders \ {o} : delivery'[q] = delivery[q]
        /\ delivery'[o].status \in Taken
    BY <1>1, <1>2 DEF Claim, SetRun, RunsOK, Taken
  <1>6. \A n \in Movers : /\ task'[n].order = task[n].order
                          /\ task'[n].op = IF n = m THEN op ELSE task[n].op
    BY <1>1 DEF Claim, Then, TasksOK, TaskRow
  <1>7. \A n \in Movers : task[n].op \in Claiming => task[n].order \in Orders
    BY <1>1 DEF TasksOK, Claiming
  <1>8. task[m].op \notin Claiming
    BY DEF Claim, At, Claiming
  <1> HIDE DEF o, op
  <1>9. ASSUME NEW n \in Movers, task'[n].op \in Claiming,
               delivery'[task'[n].order].courier = Nobody
        PROVE  /\ delivery'[task'[n].order].status \in Taken
               /\ \A k \in Movers :
                    task'[k].op \in Claiming /\ task'[k].order = task'[n].order => k = n
    <2>1. CASE n = m
      <3>1. task'[n].order = o
        BY <1>6, <2>1 DEF o
      <3> QED
        BY <1>4, <1>5, <1>6, <2>1, <3>1
    <2>2. CASE n # m
      <3>1. task[n].op \in Claiming /\ task[n].order \in Orders \ {o}
        BY <1>4, <1>6, <1>7, <1>9, <2>2
      <3>2. task[m].order = o
        BY DEF o
      <3> QED
        BY <1>5, <1>6, <1>9, <2>2, <3>1, <3>2 DEF ClaimHolds
    <2> QED
      BY <2>1, <2>2
  <1> QED
    BY <1>9 DEF ClaimHolds

\* An undo gives back a run that no other request claims.
LEMMA UndoIsAlone ==
  ASSUME FulfilmentTypeOK, ClaimHolds, NEW m \in Movers, Restore(m)
  PROVE  ClaimHolds'
  <1> DEFINE o == task[m].order
  <1>1. RunsOK /\ TasksOK
    BY FulfilmentTypeParts
  <1>2. task[m].op \in Claiming /\ delivery[o].courier = Nobody
    BY DEF Restore, At, Claiming
  <1>3. \A n \in Movers : task[n].op \in Claiming /\ task[n].order = o => n = m
    BY <1>2 DEF ClaimHolds
  <1>4. \A q \in Orders : q # o => delivery'[q] = delivery[q]
    BY <1>1 DEF Restore, SetRun, RunsOK
  <1>5. \A n \in Movers : /\ task'[n].order = task[n].order
                          /\ task'[n].op = IF n = m THEN "clear" ELSE task[n].op
    BY <1>1 DEF Restore, Then, TasksOK, TaskRow
  <1>6. \A n \in Movers : task[n].op \in Claiming => task[n].order \in Orders
    BY <1>1 DEF TasksOK, Claiming
  <1>7. "clear" \notin Claiming
    BY DEF Claiming
  <1> HIDE DEF o
  <1>8. ASSUME NEW n \in Movers, task'[n].op \in Claiming
        PROVE  task[n].op \in Claiming /\ delivery'[task'[n].order] = delivery[task[n].order]
    BY <1>3, <1>4, <1>5, <1>6, <1>7, <1>8
  <1> QED
    BY <1>5, <1>8 DEF ClaimHolds

\* Of the statements of startSelfDelivery only the claim and its undo are not quiet.
LEMMA SelfRequestHolds ==
  ASSUME FulfilmentTypeOK, ClaimHolds, AcceptedOnce, NEW m \in Movers, SelfRequest(m)
  PROVE  ClaimHolds' /\ AcceptedOnce'
  <1>1. RunsOK /\ OffersOK /\ TasksOK
    BY FulfilmentTypeParts
  <1> DEFINE o == task[m].order
  <1>2. task[m].op # "none" => o \in Orders
    BY <1>1 DEF TasksOK
  <1>3. ASSUME NEW q \in Orders, StartSelf(m, q)
        PROVE  Quietly
    <2>1. NoNewClaim
      BY <1>1, <1>3, BeginClaims DEF StartSelf, Claiming
    <2> QED
      BY <1>3, <2>1, SameRuns, SameOffers DEF StartSelf, Quietly
  <1>4. ASSUME Hold(m) \/ NameFails(m)
        PROVE  Quietly
    <2>1. o \in Orders /\ delivery[o].status \notin Taken
      BY <1>2, <1>4 DEF Hold, NameFails, At, Unclaimed, Taken
    <2>2. PICK status : SetRun(o, status)
      BY <1>4 DEF Hold, NameFails
    <2>3. NotPutUp
      BY <1>1, <2>1, <2>2, SetRunKeeps
    <2>4. NoNewClaim
      BY <1>1, <1>4, ThenClaims, DoneClaims DEF Hold, NameFails, Claiming
    <2> QED
      BY <1>4, <2>3, <2>4, SameOffers DEF Hold, NameFails, Quietly
  <1>5. ASSUME Name(m)
        PROVE  Quietly
    <2>1. NoNewClaim
      BY <1>1, <1>5, BeginClaims DEF Name, Claiming
    <2> QED
      BY <1>1, <1>5, <2>1, CancelAccepts, SameRuns DEF Name, Quietly
  <1>6. ASSUME ReadUndo(m)
        PROVE  Quietly
    <2>1. NoNewClaim
      BY <1>1, <1>6, ThenClaims DEF ReadUndo, At, Claiming
    <2> QED
      BY <1>6, <2>1, SameRuns, SameOffers DEF ReadUndo, Quietly
  <1>7. ASSUME Clear(m)
        PROVE  Quietly
    <2>1. NoNewClaim
      BY <1>1, <1>7, ThenClaims, DoneClaims DEF Clear, Claiming
    <2> QED
      BY <1>1, <1>7, <2>1, CancelAccepts, SameRuns DEF Clear, Quietly
  <1>8. ASSUME Claim(m) \/ Restore(m)
        PROVE  ClaimHolds' /\ AcceptedOnce'
    <2>1. ClaimHolds'
      BY <1>8, ClaimIsAlone, UndoIsAlone
    <2>2. PICK status : SetRun(o, status)
      BY <1>8 DEF Claim, Restore
    <2>3. \A q \in Orders : delivery'[q].courier = delivery[q].courier
      BY <1>1, <2>2, SetRunKeepsCourier
    <2> QED
      BY <1>8, <2>1, <2>3, SameOffers, AcceptedFrame DEF Claim, Restore
  <1> QED
    BY <1>1, <1>3, <1>4, <1>5, <1>6, <1>7, <1>8, QuietFrame DEF SelfRequest

\* An acceptance gives the run its courier, and is the run's first.
LEMMA AcceptHolds ==
  ASSUME FulfilmentTypeOK, ClaimHolds, AcceptedOnce,
         NEW o \in Orders, NEW c \in Couriers, Accept(o, c)
  PROVE  ClaimHolds' /\ AcceptedOnce'
  <1>1. RunsOK /\ OffersOK /\ TasksOK
    BY FulfilmentTypeParts
  <1>2. ClaimHolds'
    BY <1>1, GivenKeeps, SameTasks, ClaimFrame DEF Accept
  <1>3. c # Nobody
    BY OrderMovesAssumption DEF Callers
  <1>4. /\ delivery'[o].courier = c
        /\ \A q \in Orders : q # o => delivery'[q] = delivery[q]
    BY <1>1 DEF Accept, RunsOK
  <1> DEFINE s == IF offer[o][c] = "PENDING" THEN "ACCEPTED" ELSE offer[o][c]
  <1>5. offer' = [offer EXCEPT ![o] = [OffersCancelled(o) EXCEPT ![c] = s]]
    BY DEF Accept
  <1>6. /\ OffersCancelled(o) \in [Couriers -> OfferStates]
        /\ \A b \in Couriers : OffersCancelled(o)[b] = "ACCEPTED" => offer[o][b] = "ACCEPTED"
    BY <1>1 DEF OffersOK, OffersCancelled, OfferStates
  <1>7. /\ s = "ACCEPTED" => offer[o][c] \in {"PENDING", "ACCEPTED"}
        /\ offer[o][c] = "PENDING" => \A b \in Couriers : offer[o][b] # "ACCEPTED"
    BY DEF Accept
  <1> HIDE DEF s
  <1>8. \A b \in Couriers : offer'[o][b] = IF b = c THEN s ELSE OffersCancelled(o)[b]
    BY <1>1, <1>5, <1>6 DEF OffersOK
  <1>9. \A q \in Orders : q # o => offer'[q] = offer[q]
    BY <1>1, <1>5 DEF OffersOK
  <1>10. ASSUME NEW q \in Orders, NEW b \in Couriers, offer'[q][b] = "ACCEPTED"
         PROVE  /\ delivery'[q].courier # Nobody
                /\ \A d \in Couriers : offer'[q][d] = "ACCEPTED" => d = b
    <2>1. CASE q = o
      BY <1>3, <1>4, <1>6, <1>7, <1>8, <1>10, <2>1 DEF AcceptedOnce
    <2>2. CASE q # o
      BY <1>4, <1>9, <1>10, <2>2 DEF AcceptedOnce
    <2> QED
      BY <2>1, <2>2
  <1> QED
    BY <1>2, <1>10 DEF AcceptedOnce

LEMMA ShopOrCourierNext ==
  ASSUME MovesTypeOK, FulfilmentTypeOK, ClaimHolds, AcceptedOnce, [FulfilmentNext]_vars
  PROVE  ClaimHolds' /\ AcceptedOnce'
  <1>1. RunsOK /\ OffersOK /\ TasksOK
    BY FulfilmentTypeParts
  <1>2. ASSUME NEW m \in Movers, MoveRequest(m) \/ RunRequest(m)
        PROVE  Quietly
    BY <1>2, MoveRequestIsQuiet, RunRequestIsQuiet
  <1>3. ASSUME NEW m \in Movers, Drop(m)
        PROVE  Quietly
    BY <1>1, <1>3, DoneClaims, SameRuns, SameOffers DEF Drop, Quietly
  <1>4. ASSUME NEW o \in Orders, NEW c \in Couriers, Lapse(o, c)
        PROVE  Quietly
    BY <1>1, <1>4, OneOfferAccepts, SameTasks, SameRuns DEF Lapse, Quietly
  <1>5. ASSUME NEW o \in Orders, Ride(o)
        PROVE  Quietly
    <2>1. PICK status : SetRun(o, status)
      BY <1>5 DEF Ride
    <2>2. NotPutUp
      BY <1>1, <1>5, <2>1, SetRunKeeps DEF Ride
    <2> QED
      BY <1>5, <2>2, SameTasks, SameOffers DEF Ride, Quietly
  <1>6. ASSUME UNCHANGED vars
        PROVE  Quietly
    BY <1>6, SameTasks, SameRuns, SameOffers DEF vars, runVars, Quietly
  <1> QED
    BY <1>1, <1>2, <1>3, <1>4, <1>5, <1>6, QuietFrame, SelfRequestHolds, AcceptHolds
       DEF FulfilmentNext

(***************************************************************************)
(* However many couriers answer and however many requests claim and undo,  *)
(* a run is accepted once, an accepted offer has its courier on the run,   *)
(* and a run that is claimed for the shop is not put up again by others.   *)
(***************************************************************************)
THEOREM ShopOrOneCourier == FulfilmentSpec => []ShopOrCourier
  <1>1. FulfilmentInit => ClaimHolds /\ AcceptedOnce
    BY DEF FulfilmentInit, ClaimHolds, AcceptedOnce, NoTask, Claiming
  <1>2. FulfilmentSpec => []MovesTypeOK
    BY FulfilmentImplementsMoves, MovesTypeCorrect DEF ImplementsMoves
  <1>3. MovesTypeOK /\ FulfilmentTypeOK /\ ClaimHolds /\ AcceptedOnce /\ [FulfilmentNext]_vars
          => ClaimHolds' /\ AcceptedOnce'
    BY ShopOrCourierNext
  <1>4. ClaimHolds /\ AcceptedOnce => ShopOrCourier
    BY DEF ClaimHolds, AcceptedOnce, ShopOrCourier, At, Claiming, Taken
  <1> QED
    BY <1>1, <1>2, <1>3, <1>4, FulfilmentTypesCorrect, PTL DEF FulfilmentSpec

-----------------------------------------------------------------------------
(***************************************************************************)
(* The run and the order end together, while requests do not overlap.      *)
(* Ends is the property, but for what an operator cancelled; Fits says     *)
(* where an offer may still wait for its answer; StillSo says that what a  *)
(* request found, and decided on, is still so when it writes: couriers who *)
(* accept and ride meanwhile do not undo it.                               *)
(***************************************************************************)
Over == {"DELIVERED", "CANCELLED"}
Held(o) == delivery[o].status = "ACCEPTED" /\ delivery[o].courier = Nobody

Ends(o) ==
  ~CancelledByOperator(o) =>
    /\ order[o].status = "COMPLETED" <=> delivery[o].status = "DELIVERED"
    /\ order[o].status \in {"CANCELLED", "REJECTED"} <=> delivery[o].status = "CANCELLED"

Fits(o) ==
  /\ \A c \in Couriers : offer[o][c] \in Open =>
       /\ delivery[o].status # "CANCELLED"
       /\ o \in paymentFlow =>
            o \notin selfRun /\ (delivery[o].status \in {"SEARCHING", "OFFERED"} \/ Held(o))
  /\ o \in selfRun => o \in paymentFlow /\ delivery[o].status \notin {"SEARCHING", "OFFERED"}

\* A run that is offered waits for an answer.
Asked(o) == delivery[o].status = "OFFERED" => \E c \in Couriers : offer[o][c] \in Open

Story(o) == Ends(o) /\ Fits(o) /\ Asked(o)

\* The ops of requests that have no move in flight, or never had one.
RunOps == {"undo", "restore", "dispatch", "rank", "offer", "decline", "sweep", "assign",
           "pickup", "deliver"}

\* The ops of startSelfDelivery until its move is written.
SelfOps == {"hold", "name", "claim", "moving"}

\* Which move goes with which task.
MoveFits(m) ==
  /\ task[m].op \in RunOps => mover[m].pc = "idle"
  /\ task[m].op = "clear" => mover[m].pc \in {"idle", "claimOut"}
  /\ mover[m].pc = "adminRead" => task[m].op = "none"
  /\ mover[m].pc = "reserved" => task[m].op \in {"none", "moving"}
  /\ task[m].op \in SelfOps /\ mover[m].pc # "idle" =>
       mover[m].to = "OUT_FOR_DELIVERY" /\ mover[m].order = task[m].order
  /\ mover[m].pc \in {"read", "reserved"} /\ mover[m].self = "start" => task[m].op \in SelfOps
  /\ task[m].op = "selfGate" => mover[m].self = "complete"

\* A move to COMPLETED that passed its gate.
GateHolds(m) ==
  mover[m].pc \in {"read", "reserved"} /\ mover[m].to = "COMPLETED" /\ task[m].op = "none" =>
    LET d == delivery[mover[m].order] IN
    /\ d.status = "PICKED_UP"
    /\ d.courier = mover[m].caller \/ (mover[m].self = "complete" /\ d.courier = Nobody)

TaskHolds(m) ==
  LET o == task[m].order IN
  /\ task[m].op \in {"rank", "offer"} => delivery[o].status = "SEARCHING"
  /\ task[m].op \in {"hold", "name"} => o \in paymentFlow \ selfRun
  /\ task[m].op = "name" => Held(o)
  /\ task[m].op \in {"claim"} \cup Claiming =>
       (task[m].own <=> o \in paymentFlow) /\ (o \in paymentFlow => o \in selfRun)
  /\ task[m].op \in {"moving", "clear"} => delivery[o].status # "OFFERED"
  /\ task[m].op = "assign" => order[o].status = "READY"
  /\ task[m].op = "deliver" => CancelledByOperator(o)

StillSo(m) == MoveFits(m) /\ GateHolds(m) /\ TaskHolds(m)

\* What the ways of writing a task, a run and its offers give.
LEMMA BeginGives ==
  ASSUME TasksOK, NEW m \in Movers, NEW op, NEW o, NEW c, NEW own, Begin(m, op, o, c, own)
  PROVE  task'[m].op = op /\ task'[m].order = o /\ task'[m].own = own
  BY DEF TasksOK, Begin

LEMMA ThenGives ==
  ASSUME TasksOK, NEW m \in Movers, NEW op, Then(m, op)
  PROVE  task'[m].op = op /\ task'[m].order = task[m].order /\ task'[m].own = task[m].own
  BY DEF TasksOK, TaskRow, Then

LEMMA DoneGives ==
  ASSUME TasksOK, NEW m \in Movers, Done(m)
  PROVE  task'[m].op = "none"
  BY DEF TasksOK, Done, NoTask

LEMMA SetRunGives ==
  ASSUME RunsOK, NEW o \in Orders, NEW status, SetRun(o, status)
  PROVE  /\ delivery'[o].status = status /\ delivery'[o].courier = delivery[o].courier
         /\ \A q \in Orders \ {o} : delivery'[q] = delivery[q]
  BY DEF RunsOK, SetRun

LEMMA CancelGives ==
  ASSUME OffersOK, NEW o \in Orders, CancelOffers(o)
  PROVE  /\ \A c \in Couriers : offer'[o][c] \notin Open
         /\ \A q \in Orders \ {o} : offer'[q] = offer[q]
  BY DEF OffersOK, CancelOffers, OffersCancelled, Open

\* A request that is done holds on to nothing.
LEMMA DoneHolds ==
  ASSUME NEW m \in Movers, task'[m].op = "none", mover'[m].pc = "idle"
  PROVE  StillSo(m)'
  BY DEF StillSo, MoveFits, GateHolds, TaskHolds, RunOps, Claiming, SelfOps

\* A step about one order leaves the story of the others alone.
LEMMA StoryFrame ==
  ASSUME NEW o \in Orders, \A q \in Orders : Story(q), Story(o)', timeline \subseteq timeline',
         \A q \in Orders \ {o} : /\ delivery'[q] = delivery[q] /\ offer'[q] = offer[q]
                                 /\ q \in selfRun' <=> q \in selfRun
                                 /\ order'[q].status = order[q].status
  PROVE  \A q \in Orders : Story(q)'
  <1>1. \A q \in Orders : CancelledByOperator(q) => CancelledByOperator(q)'
    BY DEF CancelledByOperator
  <1>2. ASSUME NEW q \in Orders \ {o}
        PROVE  Story(q)'
    BY <1>1, <1>2 DEF Story, Ends, Fits, Held, Asked
  <1> QED
    BY <1>2

\* A step that writes no run, no offer, no driver and no status leaves all alone.
LEMMA StorySame ==
  ASSUME \A q \in Orders : Story(q), timeline \subseteq timeline',
         UNCHANGED <<delivery, offer, selfRun>>,
         \A q \in Orders : order'[q].status = order[q].status
  PROVE  \A q \in Orders : Story(q)'
  <1>1. \A q \in Orders : CancelledByOperator(q) => CancelledByOperator(q)'
    BY DEF CancelledByOperator
  <1> QED
    BY <1>1 DEF Story, Ends, Fits, Held, Asked

\* A run that was not over and is not over tells what the order tells.
LEMMA EndsFrame ==
  ASSUME NEW o \in Orders, Ends(o), timeline \subseteq timeline',
         order'[o].status = order[o].status,
         delivery[o].status \notin Over, delivery'[o].status \notin Over
  PROVE  Ends(o)'
  <1>1. CancelledByOperator(o) => CancelledByOperator(o)'
    BY DEF CancelledByOperator
  <1> QED
    BY <1>1 DEF Ends, Over

\* What is over says so in both tables; a status of the table is no final one.
LEMMA NotOver ==
  ASSUME NEW o \in Orders, Ends(o), ~isTerminalStatus(order[o].status), ~CancelledByOperator(o)
  PROVE  delivery[o].status \notin Over
  BY DEF Ends, isTerminalStatus, TERMINAL_STATUSES, Over

\* The batch of a move ends the run with the order, or neither.
LEMMA CommitTellsStory ==
  ASSUME MovesTypeOK, FulfilmentTypeOK, Legal, UpToDate, \A q \in Orders : Story(q),
         NEW m \in Movers, StillSo(m), Commit(m)
  PROVE  \A q \in Orders : Story(q)'
  <1>1. RunsOK /\ OffersOK /\ TasksOK
    BY FulfilmentTypeParts
  <1>2. PICK o \in Orders : o = mover[m].order
    BY DEF Commit, CommitMove, MovesTypeOK
  <1> DEFINE move == mover[m]
             d == delivery[o]
  <1>3. /\ move.pc = "reserved" /\ order[o].status = move.seen
        /\ Log!LegalMove(move.seen, move.to, actorFor(move.caller), o)
    BY <1>2 DEF Commit, CommitMove, UpToDate, Legal, LegalPlans
  <1>4. /\ order'[o].status = move.to
        /\ \A q \in Orders \ {o} : order'[q].status = order[q].status
        /\ timeline \subseteq timeline'
    BY <1>2 DEF Commit, CommitMove, MoveEvent, MovesTypeOK, OrderRow
  <1>5. /\ delivery'[o].status = RunAfter(move, d) /\ delivery'[o].courier = d.courier
        /\ \A q \in Orders \ {o} : delivery'[q] = delivery[q]
    <2>1. SetRun(o, RunAfter(move, d))
      BY <1>2 DEF Commit
    <2> QED
      BY <1>1, <2>1, SetRunGives
  <1>6. /\ selfRun' = selfRun
        /\ UNCHANGED offer \/ CancelOffers(o)
        /\ move.to \in {"CANCELLED", "REJECTED"} => CancelOffers(o)
    BY <1>2 DEF Commit
  <1>7. \A q \in Orders \ {o} : offer'[q] = offer[q]
    BY <1>1, <1>6, CancelGives
  <1>8. \A c \in Couriers : offer'[o][c] \in Open => offer[o][c] \in Open
    BY <1>1, <1>6, CancelGives
  <1>9. move.to = "COMPLETED" =>
          d.status = "PICKED_UP" /\ (d.courier = move.caller \/ (move.self = "complete" /\ d.courier = Nobody))
    <2>1. move.to = "COMPLETED" => task[m].op = "none"
      BY <1>3 DEF StillSo, MoveFits, SelfOps
    <2> QED
      BY <1>2, <1>3, <2>1 DEF StillSo, GateHolds
  <1> HIDE DEF move
  <1>10. Ends(o)'
    <2> SUFFICES ASSUME ~CancelledByOperator(o)' PROVE Ends(o)'
      BY DEF Ends
    <2>1. ~CancelledByOperator(o) /\ ~isTerminalStatus(order[o].status)
      BY <1>3, <1>4, FinalMovesNowhere DEF CancelledByOperator
    <2>2. d.status \notin Over
      BY <2>1, NotOver DEF Story
    <2>3. CASE move.to \in {"CANCELLED", "REJECTED"}
      <3>1. delivery'[o].status = "CANCELLED"
        BY <1>5, <2>3 DEF RunAfter
      <3> QED
        BY <1>4, <2>3, <3>1 DEF Ends
    <2>4. CASE move.to = "COMPLETED"
      <3>1. delivery'[o].status = "DELIVERED"
        BY <1>5, <1>9, <2>4 DEF RunAfter
      <3> QED
        BY <1>4, <2>4, <3>1 DEF Ends
    <2>5. CASE move.to \notin {"CANCELLED", "REJECTED", "COMPLETED"}
      <3>1. delivery'[o].status \notin Over
        BY <1>5, <2>2, <2>5 DEF RunAfter, Over
      <3> QED
        BY <1>4, <2>5, <3>1 DEF Ends, Over
    <2> QED
      BY <2>3, <2>4, <2>5
  <1>11. Fits(o)'
    <2>1. CASE move.to \in {"CANCELLED", "REJECTED"}
      <3>1. \A c \in Couriers : offer'[o][c] \notin Open
        BY <1>1, <1>6, <2>1, CancelGives
      <3>2. delivery'[o].status = "CANCELLED"
        BY <1>5, <2>1 DEF RunAfter
      <3> QED
        BY <1>6, <3>1, <3>2 DEF Fits, Story
    <2>2. CASE move.to \notin {"CANCELLED", "REJECTED"}
      <3>1. \/ delivery'[o].status = d.status
            \/ d.status \in {"AT_PICKUP", "PICKED_UP"} /\ delivery'[o].status \in {"PICKED_UP", "DELIVERED"}
        BY <1>5, <2>2 DEF RunAfter
      <3> QED
        BY <1>5, <1>6, <1>8, <3>1 DEF Fits, Story, Held
    <2> QED
      BY <2>1, <2>2
  <1>12. Asked(o)'
    <2> SUFFICES ASSUME delivery'[o].status = "OFFERED"
                 PROVE  \E c \in Couriers : offer'[o][c] \in Open
      BY DEF Asked
    <2>1. d.status = "OFFERED" /\ move.to \notin {"CANCELLED", "REJECTED"}
      BY <1>5 DEF RunAfter
    <2>2. move.self # "start"
      BY <1>2, <1>3, <2>1 DEF StillSo, MoveFits, TaskHolds, SelfOps, move
    <2>3. UNCHANGED offer
      BY <2>1, <2>2 DEF Commit, move
    <2> QED
      BY <2>1, <2>3 DEF Story, Asked
  <1> QED
    BY <1>4, <1>5, <1>6, <1>7, <1>10, <1>11, <1>12, StoryFrame DEF Story

\* The first read of a move.
LEMMA ReadsHold ==
  ASSUME MovesTypeOK, FulfilmentTypeOK, \A q \in Orders : Story(q), NEW m \in Movers, StillSo(m),
         \/ \E o \in Orders : \E caller, to : ReadMove(m, o, caller, to)
         \/ \E o \in Orders : ReadCompleteSelf(m, o) \/ ReadAdminCancel(m, o)
  PROVE  (\A q \in Orders : Story(q)') /\ StillSo(m)'
  <1>1. TasksOK
    BY FulfilmentTypeParts
  <1>2. \A q \in Orders : Story(q)'
    <2>1. UNCHANGED <<order, timeline, delivery, offer, selfRun>>
      BY DEF ReadMove, ReadToMove, ReadCompleteSelf, ReadToCompleteSelf, ReadAdminCancel, AdminRead,
             runVars
    <2> QED
      BY <2>1, StorySame
  <1>3. ASSUME NEW o \in Orders, NEW caller, NEW to, ReadMove(m, o, caller, to)
        PROVE  StillSo(m)'
    <2>1. /\ mover'[m].pc = "read" /\ mover'[m].to = to /\ mover'[m].self = "no"
          /\ mover[m].pc = "idle" /\ task[m].op = "none"
      BY <1>3 DEF ReadMove, ReadToMove, Remember, MovesTypeOK, Free
    <2>2. \/ task'[m].op = "gate"
          \/ task'[m].op = "none" /\ to # "COMPLETED"
      BY <1>1, <1>3, <2>1, BeginGives DEF ReadMove
    <2> QED
      BY <2>1, <2>2 DEF StillSo, MoveFits, GateHolds, TaskHolds, RunOps, Claiming, SelfOps
  <1>4. ASSUME NEW o \in Orders, ReadCompleteSelf(m, o)
        PROVE  StillSo(m)'
    <2>1. mover'[m].pc = "read" /\ mover'[m].self = "complete"
      BY <1>4 DEF ReadCompleteSelf, ReadToCompleteSelf, Remember, MovesTypeOK
    <2>2. task'[m].op = "selfGate"
      BY <1>1, <1>4, BeginGives DEF ReadCompleteSelf
    <2> QED
      BY <2>1, <2>2 DEF StillSo, MoveFits, GateHolds, TaskHolds, RunOps, Claiming, SelfOps
  <1>5. ASSUME NEW o \in Orders, ReadAdminCancel(m, o)
        PROVE  StillSo(m)'
    <2>1. mover'[m].pc = "adminRead" /\ task'[m].op = "none"
      BY <1>5 DEF ReadAdminCancel, AdminRead, Remember, MovesTypeOK, Free, runVars
    <2> QED
      BY <2>1 DEF StillSo, MoveFits, GateHolds, TaskHolds, RunOps, Claiming, SelfOps
  <1> QED
    BY <1>2, <1>3, <1>4, <1>5

\* What a move writes, or asks of the run, before its batch.
LEMMA MoveRequestHolds ==
  ASSUME MovesTypeOK, FulfilmentTypeOK, Legal, UpToDate, \A q \in Orders : Story(q),
         NEW m \in Movers, StillSo(m), MoveRequest(m)
  PROVE  (\A q \in Orders : Story(q)') /\ StillSo(m)'
  <1>1. RunsOK /\ OffersOK /\ TasksOK
    BY FulfilmentTypeParts
  <1>2. ASSUME Gate(m) \/ SelfGate(m)
        PROVE  (\A q \in Orders : Story(q)') /\ StillSo(m)'
    <2>1. UNCHANGED <<moveVars, delivery, offer, selfRun>> /\ task'[m].op = "none"
      BY <1>1, <1>2, DoneGives DEF Gate, SelfGate
    <2>2. \A q \in Orders : Story(q)'
      BY <2>1, StorySame DEF moveVars
    <2>3. UNCHANGED <<mover, delivery>>
      BY <2>1 DEF moveVars
    <2>4. GateHolds(m)'
      BY <1>2, <2>3 DEF Gate, GatePasses, SelfGate, At, GateHolds, StillSo, MoveFits
    <2>5. task[m].op \notin SelfOps /\ task[m].op # "none"
      BY <1>2 DEF Gate, SelfGate, At, SelfOps
    <2>6. MoveFits(m)' /\ TaskHolds(m)'
      BY <2>1, <2>3, <2>5 DEF StillSo, MoveFits, TaskHolds, RunOps, Claiming, SelfOps
    <2> QED
      BY <2>2, <2>4, <2>6 DEF StillSo
  <1>3. ASSUME ReserveMove(m)
        PROVE  (\A q \in Orders : Story(q)') /\ StillSo(m)'
    <2>1. /\ mover[m].pc = "read" /\ mover[m].order \in Orders
          /\ mover'[m] = [mover[m] EXCEPT !.pc = "reserved"]
          /\ task[m].op \in {"none", "moving"}
          /\ \A q \in Orders : order'[q].status = order[q].status
      BY <1>3 DEF ReserveMove, Reserve, MovesTypeOK, OrderRow
    <2>2. UNCHANGED <<timeline, runVars>>
      BY <1>3 DEF ReserveMove, Reserve
    <2>3. \A q \in Orders : Story(q)'
      BY <2>1, <2>2, StorySame DEF runVars
    <2>4. /\ mover'[m].pc = "reserved" /\ mover'[m].to = mover[m].to /\ mover'[m].self = mover[m].self
          /\ mover'[m].caller = mover[m].caller /\ mover'[m].order = mover[m].order
      BY <2>1 DEF MovesTypeOK, MoverRow
    <2>5. MoveFits(m)' /\ GateHolds(m)' /\ TaskHolds(m)'
      BY <2>1, <2>2, <2>4 DEF StillSo, MoveFits, GateHolds, TaskHolds, RunOps, Claiming, SelfOps, runVars
    <2> QED
      BY <2>3, <2>5 DEF StillSo
  <1>4. ASSUME Commit(m)
        PROVE  (\A q \in Orders : Story(q)') /\ StillSo(m)'
    <2>1. mover'[m].pc = "idle"
      BY <1>4 DEF Commit, CommitMove, MovesTypeOK, Idle
    <2>2. task'[m].op \in {"dispatch", "none"}
      BY <1>1, <1>4, BeginGives, DoneGives DEF Commit
    <2>3. StillSo(m)'
      BY <2>1, <2>2 DEF StillSo, MoveFits, GateHolds, TaskHolds, RunOps, Claiming, SelfOps
    <2> QED
      BY <1>4, <2>3, CommitTellsStory
  <1>5. ASSUME MoveFails(m)
        PROVE  (\A q \in Orders : Story(q)') /\ StillSo(m)'
    <2>1. mover'[m].pc = "idle" /\ UNCHANGED <<order, timeline, delivery, offer, selfRun>>
      BY <1>5 DEF MoveFails, LoseReservation, Abandon, MovesTypeOK, Idle
    <2>2. \A q \in Orders : Story(q)'
      BY <2>1, StorySame
    <2>3. CASE At(m, "moving")
      <3>1. task'[m].op = "undo" /\ task'[m].order = task[m].order /\ task'[m].own = task[m].own
        BY <1>1, <1>5, <2>3, ThenGives DEF MoveFails
      <3>2. TaskHolds(m)'
        BY <2>1, <2>3, <3>1 DEF StillSo, TaskHolds, At, Claiming
      <3> QED
        BY <2>1, <2>2, <3>1, <3>2 DEF StillSo, MoveFits, GateHolds, SelfOps
    <2>4. CASE ~At(m, "moving")
      BY <1>1, <1>5, <2>1, <2>2, <2>4, DoneGives, DoneHolds DEF MoveFails
    <2> QED
      BY <2>3, <2>4
  <1>6. ASSUME WriteAdminCancel(m)
        PROVE  (\A q \in Orders : Story(q)') /\ StillSo(m)'
    <2>1. PICK o \in Orders : o = mover[m].order
      BY <1>6 DEF WriteAdminCancel, AdminCancel, MovesTypeOK
    <2>2. /\ mover[m].pc = "adminRead" /\ mover'[m].pc = "idle" /\ UNCHANGED <<delivery, offer, selfRun, task>>
          /\ timeline \subseteq timeline'
          /\ \A q \in Orders \ {o} : order'[q].status = order[q].status
      BY <1>6, <2>1 DEF WriteAdminCancel, AdminCancel, MovesTypeOK, OrderRow, Idle, runVars
    <2>3. [order |-> o, from |-> mover[m].seen, to |-> "CANCELLED", actor |-> "ADMIN"] \in timeline'
      BY <1>6, <2>1 DEF WriteAdminCancel, AdminCancel
    <2>4. CancelledByOperator(o)'
      BY <2>3 DEF CancelledByOperator
    <2>5. Story(o)'
      BY <2>2, <2>4 DEF Story, Ends, Fits, Held, Asked
    <2>6. \A q \in Orders : Story(q)'
      BY <2>2, <2>5, StoryFrame
    <2>7. task'[m].op = "none"
      BY <2>2 DEF StillSo, MoveFits
    <2> QED
      BY <2>2, <2>6, <2>7, DoneHolds
  <1> QED
    BY <1>2, <1>3, <1>4, <1>5, <1>6, ReadsHold DEF MoveRequest

\* startSelfDelivery holds, claims and gives back runs that are not over.
LEMMA SelfRequestTells ==
  ASSUME MovesTypeOK, FulfilmentTypeOK, \A q \in Orders : Story(q),
         NEW m \in Movers, StillSo(m), SelfRequest(m)
  PROVE  (\A q \in Orders : Story(q)') /\ StillSo(m)'
  <1>1. RunsOK /\ OffersOK /\ TasksOK
    BY FulfilmentTypeParts
  <1>2. UNCHANGED <<order, timeline>>
    BY DEF SelfRequest, StartSelf, ReadToStartSelf, ReadToClaimOut, Hold, Name, NameFails, Claim,
           ReadUndo, Restore, Clear, Abandon, moveVars
  <1>3. ASSUME NEW q \in Orders, StartSelf(m, q)
        PROVE  (\A p \in Orders : Story(p)') /\ StillSo(m)'
    <2>1. UNCHANGED <<delivery, offer, selfRun>>
      BY <1>3 DEF StartSelf
    <2>2. \A p \in Orders : Story(p)'
      BY <1>2, <2>1, StorySame
    <2>3. /\ mover'[m].pc \in {"read", "claimOut"} /\ mover'[m].to = "OUT_FOR_DELIVERY"
          /\ mover'[m].order = q
      BY <1>3 DEF StartSelf, ReadToStartSelf, ReadToClaimOut, Remember, MovesTypeOK
    <2>4. /\ task'[m].op = IF q \in paymentFlow \ selfRun THEN "hold" ELSE "claim"
          /\ task'[m].order = q /\ task'[m].own = (q \in paymentFlow \cap selfRun)
      BY <1>1, <1>3, BeginGives DEF StartSelf
    <2>5. MoveFits(m)' /\ GateHolds(m)'
      BY <2>3, <2>4 DEF MoveFits, GateHolds, RunOps, SelfOps
    <2>6. TaskHolds(m)'
      BY <2>1, <2>4 DEF TaskHolds, Claiming
    <2> QED
      BY <2>2, <2>5, <2>6 DEF StillSo
  <1>4. ASSUME task[m].op # "none", ~\E q \in Orders : StartSelf(m, q)
        PROVE  (\A p \in Orders : Story(p)') /\ StillSo(m)'
    <2>1. PICK o \in Orders : o = task[m].order
      BY <1>1, <1>4 DEF TasksOK
    <2>2. Story(o) /\ MoveFits(m) /\ TaskHolds(m)
      BY DEF StillSo
    <2>3. order'[o].status = order[o].status /\ timeline \subseteq timeline'
      BY <1>2
    <2>4. ASSUME Story(o)', UNCHANGED selfRun \/ selfRun' = selfRun \cup {o},
                 \A q \in Orders \ {o} : delivery'[q] = delivery[q] /\ offer'[q] = offer[q]
          PROVE  \A p \in Orders : Story(p)'
      BY <1>2, <2>4, StoryFrame
    <2>5. CASE Hold(m)
      <3>1. /\ SetRun(o, "ACCEPTED") /\ Unclaimed(o) /\ UNCHANGED <<mover, offer, selfRun>>
            /\ task[m].op = "hold"
        BY <2>1, <2>5 DEF Hold, moveVars, At
      <3>2. /\ delivery'[o].status = "ACCEPTED" /\ delivery'[o].courier = delivery[o].courier
            /\ \A q \in Orders \ {o} : delivery'[q] = delivery[q]
        BY <1>1, <3>1, SetRunGives
      <3>3. o \in paymentFlow \ selfRun
        BY <2>1, <2>2, <3>1 DEF TaskHolds
      <3>4. Ends(o)'
        BY <2>2, <2>3, <3>1, <3>2, EndsFrame DEF Story, Unclaimed, Over
      <3>5. Held(o)'
        BY <3>1, <3>2 DEF Held, Unclaimed
      <3>6. Fits(o)'
        BY <3>1, <3>2, <3>3, <3>5 DEF Fits
      <3>7. task'[m].op = "name" /\ task'[m].order = o
        BY <1>1, <2>1, <2>5, ThenGives DEF Hold
      <3>8. MoveFits(m)' /\ GateHolds(m)'
        BY <2>1, <2>2, <3>1, <3>7 DEF MoveFits, GateHolds, RunOps, SelfOps
      <3>9. TaskHolds(m)'
        BY <3>1, <3>3, <3>5, <3>7 DEF TaskHolds, Claiming
      <3> QED
        BY <2>4, <3>1, <3>2, <3>4, <3>6, <3>8, <3>9 DEF Story, StillSo, Asked
    <2>6. CASE Name(m)
      <3>1. /\ CancelOffers(o) /\ selfRun' = selfRun \cup {o} /\ UNCHANGED <<mover, delivery>>
            /\ task[m].op = "name"
        BY <2>1, <2>6 DEF Name, moveVars, At
      <3>2. /\ \A c \in Couriers : offer'[o][c] \notin Open
            /\ \A q \in Orders \ {o} : offer'[q] = offer[q]
        BY <1>1, <3>1, CancelGives
      <3>3. o \in paymentFlow \ selfRun /\ Held(o)
        BY <2>1, <2>2, <3>1 DEF TaskHolds
      <3>4. Ends(o)'
        BY <2>2, <2>3, <3>1, <3>3, EndsFrame DEF Story, Held, Over
      <3>5. Fits(o)'
        BY <3>1, <3>2, <3>3 DEF Fits, Held
      <3>6. task'[m].op = "claim" /\ task'[m].order = o /\ task'[m].own = TRUE
        BY <1>1, <2>1, <2>6, BeginGives DEF Name
      <3>7. MoveFits(m)' /\ GateHolds(m)'
        BY <2>1, <2>2, <3>1, <3>6 DEF MoveFits, GateHolds, RunOps, SelfOps
      <3>8. TaskHolds(m)'
        BY <3>1, <3>3, <3>6 DEF TaskHolds, Claiming
      <3> QED
        BY <2>4, <3>1, <3>2, <3>3, <3>4, <3>5, <3>7, <3>8 DEF Story, StillSo, Asked, Held
    <2>7. CASE NameFails(m)
      <3>1. /\ SetRun(o, "SEARCHING") /\ UNCHANGED <<offer, selfRun>> /\ task[m].op = "name"
            /\ delivery[o].status = "ACCEPTED" /\ mover'[m].pc = "idle"
        BY <2>1, <2>7 DEF NameFails, Abandon, MovesTypeOK, Idle, At
      <3>2. /\ delivery'[o].status = "SEARCHING"
            /\ \A q \in Orders \ {o} : delivery'[q] = delivery[q]
        BY <1>1, <3>1, SetRunGives
      <3>3. o \in paymentFlow \ selfRun
        BY <2>1, <2>2, <3>1 DEF TaskHolds
      <3>4. Ends(o)'
        BY <2>2, <2>3, <3>1, <3>2, EndsFrame DEF Story, Over
      <3>5. Fits(o)'
        BY <3>1, <3>2, <3>3 DEF Fits
      <3>6. StillSo(m)'
        BY <1>1, <2>7, <3>1, DoneGives, DoneHolds DEF NameFails
      <3> QED
        BY <2>4, <3>1, <3>2, <3>4, <3>5, <3>6 DEF Story, Asked
    <2>8. CASE Claim(m)
      <3>1. /\ SetRun(o, "PICKED_UP") /\ UNCHANGED <<mover, offer, selfRun>> /\ task[m].op = "claim"
            /\ delivery[o].status \notin Over
        BY <2>1, <2>8 DEF Claim, moveVars, At, Unclaimed, Over
      <3>2. /\ delivery'[o].status = "PICKED_UP"
            /\ \A q \in Orders \ {o} : delivery'[q] = delivery[q]
        BY <1>1, <3>1, SetRunGives
      <3>3. o \in paymentFlow => o \in selfRun
        BY <2>1, <2>2, <3>1 DEF TaskHolds
      <3>4. Ends(o)'
        BY <2>2, <2>3, <3>1, <3>2, EndsFrame DEF Story, Over
      <3>5. Fits(o)'
        BY <2>2, <3>1, <3>2, <3>3 DEF Story, Fits
      <3>6. /\ task'[m].op = IF mover[m].pc = "claimOut" THEN "clear" ELSE "moving"
            /\ task'[m].order = o /\ task'[m].own = task[m].own
        BY <1>1, <2>1, <2>8, ThenGives DEF Claim
      <3>7. MoveFits(m)' /\ GateHolds(m)'
        BY <2>1, <2>2, <3>1, <3>6 DEF MoveFits, GateHolds, RunOps, SelfOps
      <3>8. TaskHolds(m)'
        BY <2>1, <2>2, <3>1, <3>2, <3>6 DEF TaskHolds, Claiming
      <3> QED
        BY <2>4, <3>1, <3>2, <3>3, <3>4, <3>5, <3>7, <3>8 DEF Story, StillSo, Asked, Held
    <2>9. CASE ReadUndo(m)
      <3>1. UNCHANGED <<mover, delivery, offer, selfRun>> /\ task[m].op = "undo"
        BY <2>9 DEF ReadUndo, moveVars, At
      <3>2. \A p \in Orders : Story(p)'
        BY <1>2, <3>1, StorySame
      <3>3. task'[m].op = "restore" /\ task'[m].order = o /\ task'[m].own = task[m].own
        BY <1>1, <2>1, <2>9, ThenGives DEF ReadUndo
      <3>4. MoveFits(m)' /\ GateHolds(m)'
        BY <2>2, <3>1, <3>3 DEF MoveFits, GateHolds, RunOps, SelfOps
      <3>5. TaskHolds(m)'
        BY <2>1, <2>2, <3>1, <3>3 DEF TaskHolds, Claiming
      <3> QED
        BY <3>2, <3>4, <3>5 DEF StillSo
    <2>10. CASE Restore(m)
      <3>1. /\ SetRun(o, IF task[m].own THEN "ACCEPTED" ELSE "SEARCHING")
            /\ UNCHANGED <<mover, offer, selfRun>> /\ task[m].op = "restore"
            /\ delivery[o].status = "PICKED_UP"
        BY <2>1, <2>10 DEF Restore, moveVars, At
      <3>2. /\ delivery'[o].status = IF task[m].own THEN "ACCEPTED" ELSE "SEARCHING"
            /\ \A q \in Orders \ {o} : delivery'[q] = delivery[q]
        BY <1>1, <3>1, SetRunGives
      <3>3. (task[m].own <=> o \in paymentFlow) /\ (o \in paymentFlow => o \in selfRun)
        BY <2>1, <2>2, <3>1 DEF TaskHolds, Claiming
      <3>4. Ends(o)'
        BY <2>2, <2>3, <3>1, <3>2, EndsFrame DEF Story, Over
      <3>5. Fits(o)'
        BY <2>2, <3>1, <3>2, <3>3 DEF Story, Fits
      <3>6. task'[m].op = "clear" /\ task'[m].order = o
        BY <1>1, <2>1, <2>10, ThenGives DEF Restore
      <3>7. StillSo(m)'
        BY <2>2, <3>1, <3>2, <3>6 DEF StillSo, MoveFits, GateHolds, TaskHolds, RunOps, Claiming, SelfOps
      <3> QED
        BY <2>4, <3>1, <3>2, <3>4, <3>5, <3>7 DEF Story, Asked
    <2>11. CASE Clear(m)
      <3>1. CancelOffers(o) /\ UNCHANGED <<delivery, selfRun>> /\ task[m].op = "clear"
        BY <2>1, <2>11 DEF Clear, At
      <3>2. /\ \A c \in Couriers : offer'[o][c] \notin Open
            /\ \A q \in Orders \ {o} : offer'[q] = offer[q]
        BY <1>1, <3>1, CancelGives
      <3>3. Story(o)'
        BY <2>1, <2>2, <2>3, <3>1, <3>2, <1>2 DEF Story, Ends, Fits, Asked, CancelledByOperator, TaskHolds
      <3>4. CASE mover[m].pc = "claimOut"
        <4>1. mover'[m].pc = "idle" /\ task'[m].op = "none"
          BY <1>1, <2>11, <3>4, DoneGives DEF Clear, Abandon, MovesTypeOK, Idle
        <4> QED
          BY <2>4, <3>1, <3>2, <3>3, <4>1, DoneHolds
      <3>5. CASE mover[m].pc # "claimOut"
        <4>1. UNCHANGED mover /\ mover[m].pc = "idle"
          BY <2>2, <2>11, <3>1, <3>5 DEF Clear, moveVars, MoveFits
        <4>2. task'[m].op = "dispatch"
          BY <1>1, <2>11, <3>5, ThenGives DEF Clear
        <4>3. StillSo(m)'
          BY <4>1, <4>2 DEF StillSo, MoveFits, GateHolds, TaskHolds, RunOps, Claiming, SelfOps
        <4> QED
          BY <2>4, <3>1, <3>2, <3>3, <4>3
      <3> QED
        BY <3>4, <3>5
    <2> QED
      BY <1>4, <2>5, <2>6, <2>7, <2>8, <2>9, <2>10, <2>11 DEF SelfRequest
  <1>5. task[m].op # "none" \/ \E q \in Orders : StartSelf(m, q)
    BY DEF SelfRequest, Hold, Name, NameFails, Claim, ReadUndo, Restore, Clear, At
  <1> QED
    BY <1>3, <1>4, <1>5

\* Of a run's requests, only Assign writes an order or a claim.
LEMMA RunRequestsLeaveOrders ==
  \A m \in Movers : RunRequest(m) /\ ~Assign(m) => UNCHANGED <<moveVars, selfRun>>
  <1>1. \A m \in Movers, o \in Orders :
          ReadRun(m, o) \/ ReadConfirm(m, o) => UNCHANGED <<moveVars, selfRun>>
    BY DEF ReadRun, ReadConfirm
  <1>2. \A m \in Movers, c \in Couriers : Rank(m, c) => UNCHANGED <<moveVars, selfRun>>
    BY DEF Rank
  <1>3. \A m \in Movers, o \in Orders, c \in Couriers :
          ReadDecline(m, o, c) \/ ReadSweep(m, o, c) \/ ReadAssign(m, o, c)
          => UNCHANGED <<moveVars, selfRun>>
    BY DEF ReadDecline, ReadSweep, ReadAssign
  <1>4. \A m \in Movers :
          Offer(m) \/ Decline(m) \/ Sweep(m) \/ Confirm(m) => UNCHANGED <<moveVars, selfRun>>
    BY DEF Offer, Decline, Sweep, Return, Confirm
  <1> QED
    BY <1>1, <1>2, <1>3, <1>4 DEF RunRequest

\* The requests about the run alone.
LEMMA RunRequestTells ==
  ASSUME MovesTypeOK, FulfilmentTypeOK, \A q \in Orders : Story(q),
         NEW m \in Movers, StillSo(m), RunRequest(m)
  PROVE  (\A q \in Orders : Story(q)') /\ StillSo(m)'
  <1>1. RunsOK /\ OffersOK /\ TasksOK
    BY FulfilmentTypeParts
  <1>2. /\ UNCHANGED <<timeline, mover, selfRun>>
        /\ \A q \in Orders : order'[q].status = order[q].status
    <2>1. CASE Assign(m)
      BY <2>1 DEF Assign, SetCourier, MovesTypeOK, OrderRow
    <2>2. CASE ~Assign(m)
      BY <2>2, RunRequestsLeaveOrders DEF moveVars
    <2> QED
      BY <2>1, <2>2
  <1>3. MoveFits(m) /\ TaskHolds(m)
    BY DEF StillSo
  <1>4. mover[m].pc = "idle"
    BY <1>3 DEF RunRequest, ReadRun, ReadConfirm, Rank, ReadDecline, ReadSweep, ReadAssign, Offer,
           Decline, Sweep, Confirm, Assign, Free, At, MoveFits, RunOps
  <1>5. ASSUME NEW op \in RunOps \cup {"none"}, task'[m].op = op, op \notin Claiming, TaskHolds(m)'
        PROVE  StillSo(m)'
    BY <1>2, <1>4, <1>5 DEF StillSo, MoveFits, GateHolds, RunOps, SelfOps
  <1>6. ASSUME UNCHANGED <<delivery, offer>>
        PROVE  \A q \in Orders : Story(q)'
    BY <1>2, <1>6, StorySame
  <1>7. ASSUME NEW o \in Orders, Story(o)',
               \A q \in Orders \ {o} : delivery'[q] = delivery[q] /\ offer'[q] = offer[q]
        PROVE  \A q \in Orders : Story(q)'
    BY <1>2, <1>7, StoryFrame
  <1>8. ASSUME NEW o \in Orders, ReadRun(m, o)
        PROVE  (\A q \in Orders : Story(q)') /\ StillSo(m)'
    <2>0. Begin(m, "rank", o, Nobody, FALSE)
      BY <1>8 DEF ReadRun
    <2>1. task'[m].op = "rank" /\ task'[m].order = o
      BY <1>1, <2>0, BeginGives
    <2>2. TaskHolds(m)'
      BY <1>8, <2>1 DEF ReadRun, TaskHolds, Claiming
    <2>3. StillSo(m)'
      BY <1>5, <2>1, <2>2 DEF RunOps, Claiming
    <2>4. UNCHANGED <<delivery, offer>>
      BY <1>8 DEF ReadRun
    <2> QED
      BY <1>6, <2>3, <2>4
  <1>9. ASSUME NEW o \in Orders, ReadConfirm(m, o)
        PROVE  (\A q \in Orders : Story(q)') /\ StillSo(m)'
    <2>1. /\ task'[m].op \in {"pickup", "deliver"} /\ task'[m].order = o
          /\ task'[m].op = "deliver" => delivery[o].status = "PICKED_UP" /\ order[o].status = "COMPLETED"
      <3> DEFINE Starts(op) == Begin(m, op, o, delivery[o].courier, FALSE)
      <3>1. \/ Starts("pickup")
            \/ delivery[o].status = "PICKED_UP" /\ order[o].status = "COMPLETED" /\ Starts("deliver")
        BY <1>9 DEF ReadConfirm
      <3>2. ASSUME NEW op, Starts(op) PROVE task'[m].op = op /\ task'[m].order = o
        BY <1>1, <3>2, BeginGives
      <3> HIDE DEF Starts
      <3> QED
        BY <3>1, <3>2
    <2>2. task'[m].op = "deliver" => CancelledByOperator(o)
      BY <2>1 DEF Story, Ends
    <2>3. TaskHolds(m)'
      BY <1>2, <2>1, <2>2 DEF TaskHolds, Claiming, CancelledByOperator
    <2> QED
      BY <1>5, <1>6, <1>9, <2>1, <2>3 DEF ReadConfirm, RunOps, Claiming
  <1>10. ASSUME NEW c \in Couriers, Rank(m, c)
         PROVE  (\A q \in Orders : Story(q)') /\ StillSo(m)'
    <2>1. task[m].op = "rank" /\ UNCHANGED <<delivery, offer>>
      BY <1>10 DEF Rank, At
    <2>2. task'[m].op = "offer" /\ task'[m].order = task[m].order
      BY <1>1, <1>10, BeginGives DEF Rank
    <2>3. TaskHolds(m)'
      BY <1>3, <2>1, <2>2 DEF TaskHolds, Claiming
    <2> QED
      BY <1>5, <1>6, <2>1, <2>2, <2>3 DEF RunOps, Claiming
  <1>11. ASSUME NEW o \in Orders, NEW c \in Couriers,
                ReadDecline(m, o, c) \/ ReadSweep(m, o, c) \/ ReadAssign(m, o, c)
         PROVE  (\A q \in Orders : Story(q)') /\ StillSo(m)'
    <2>1. /\ task'[m].op \in {"decline", "sweep", "assign"} /\ task'[m].order = o
          /\ task'[m].op = "assign" => order[o].status = "READY"
      BY <1>1, <1>11, BeginGives DEF ReadDecline, ReadSweep, ReadAssign
    <2>2. UNCHANGED <<delivery, offer>>
      BY <1>11 DEF ReadDecline, ReadSweep, ReadAssign
    <2>3. TaskHolds(m)'
      BY <1>2, <2>1 DEF TaskHolds, Claiming
    <2> QED
      BY <1>5, <1>6, <2>1, <2>2, <2>3 DEF RunOps, Claiming
  <1>12. ASSUME task[m].op # "none", Offer(m) \/ Decline(m) \/ Sweep(m) \/ Confirm(m) \/ Assign(m)
         PROVE  (\A q \in Orders : Story(q)') /\ StillSo(m)'
    <2>1. PICK o \in Orders : o = task[m].order
      BY <1>1, <1>12 DEF TasksOK
    <2>2. order'[o].status = order[o].status /\ timeline \subseteq timeline'
      BY <1>2
    <2>3. CASE Offer(m)
      <3>1. /\ delivery[o].status = "SEARCHING" /\ task'[m].op = "none"
            /\ SetRun(o, "OFFERED")
        BY <1>1, <1>3, <2>1, <2>3, DoneGives DEF Offer, At, TaskHolds
      <3>2. /\ delivery'[o].status = "OFFERED"
            /\ \A q \in Orders \ {o} : delivery'[q] = delivery[q]
        BY <1>1, <3>1, SetRunGives
      <3>3. \A q \in Orders \ {o} : offer'[q] = offer[q]
        BY <1>1, <2>1, <2>3 DEF Offer, OffersOK
      <3>4. o \notin selfRun
        BY <3>1 DEF Story, Fits
      <3>5. Fits(o)'
        BY <1>2, <3>2, <3>4 DEF Fits
      <3>6. Ends(o)'
        BY <2>2, <3>1, <3>2, EndsFrame DEF Story, Over
      <3>7. Asked(o)'
        <4>1. task[m].courier \in Couriers
          BY <1>1, <2>3 DEF Offer, At, TasksOK, CourierOps
        <4>2. offer'[o][task[m].courier] \in Open
          BY <1>1, <2>1, <2>3, <4>1 DEF Offer, OffersOK, Open
        <4> QED
          BY <4>1, <4>2 DEF Asked
      <3> QED
        BY <1>2, <1>4, <1>7, <3>1, <3>2, <3>3, <3>5, <3>6, <3>7, DoneHolds DEF Story
    <2>4. CASE Decline(m) \/ Sweep(m)
      <3> DEFINE k == task[m].courier
      <3>1. /\ SetRun(o, IF delivery[o].status = "OFFERED" THEN "SEARCHING" ELSE delivery[o].status)
            /\ task'[m].op = "dispatch"
        BY <1>1, <2>1, <2>4, BeginGives DEF Decline, Sweep, Return
      <3>2. PICK s : /\ s \in Open => offer[o][k] \in Open
                     /\ offer' = [offer EXCEPT ![o][k] = s]
        BY <2>1, <2>4 DEF Decline, Sweep, Return, Open
      <3>3. /\ delivery'[o].courier = delivery[o].courier
            /\ delivery'[o].status =
                 IF delivery[o].status = "OFFERED" THEN "SEARCHING" ELSE delivery[o].status
            /\ \A q \in Orders \ {o} : delivery'[q] = delivery[q]
        BY <1>1, <3>1, SetRunGives
      <3> HIDE DEF k
      <3>4. /\ \A q \in Orders \ {o} : offer'[q] = offer[q]
            /\ \A c \in Couriers : offer'[o][c] \in Open => offer[o][c] \in Open
        BY <1>1, <3>2 DEF OffersOK
      <3>5. Fits(o)'
        BY <1>2, <3>3, <3>4 DEF Story, Fits, Held
      <3>6. Ends(o)'
        <4>1. CASE delivery[o].status \in Over
          BY <1>2, <2>2, <3>3, <4>1 DEF Story, Ends, Over, CancelledByOperator
        <4>2. CASE delivery[o].status \notin Over
          BY <2>2, <3>3, <4>2, EndsFrame DEF Story, Over
        <4> QED
          BY <4>1, <4>2
      <3>7. TaskHolds(m)'
        BY <3>1 DEF TaskHolds, Claiming
      <3> QED
        BY <1>5, <1>7, <3>1, <3>3, <3>4, <3>5, <3>6, <3>7 DEF Story, Asked, RunOps, Claiming
    <2>5. CASE Confirm(m)
      <3>1. /\ UNCHANGED offer /\ task'[m].op = "none"
            /\ \/ delivery[o].status = "AT_PICKUP" /\ SetRun(o, "PICKED_UP")
               \/ /\ delivery[o].status = "PICKED_UP" /\ SetRun(o, "DELIVERED")
                  /\ task[m].op = "deliver"
        BY <1>1, <2>1, <2>5, DoneGives DEF Confirm, At
      <3>2. /\ delivery[o].status \in {"AT_PICKUP", "PICKED_UP"}
            /\ delivery'[o].status \in {"PICKED_UP", "DELIVERED"}
            /\ \A q \in Orders \ {o} : delivery'[q] = delivery[q]
            /\ delivery'[o].status = "DELIVERED" => task[m].op = "deliver"
        BY <1>1, <3>1, SetRunGives
      <3>3. Fits(o)'
        BY <1>2, <3>1, <3>2 DEF Story, Fits, Held
      <3>4. Ends(o)'
        <4>1. CASE task[m].op = "deliver"
          <5>1. CancelledByOperator(o)
            BY <1>3, <2>1, <4>1 DEF TaskHolds
          <5> QED
            BY <1>2, <5>1 DEF Ends, CancelledByOperator
        <4>2. CASE task[m].op # "deliver"
          BY <2>2, <3>2, <4>2, EndsFrame DEF Story, Over
        <4> QED
          BY <4>1, <4>2
      <3> QED
        BY <1>2, <1>4, <1>7, <3>1, <3>2, <3>3, <3>4, DoneHolds DEF Story, Asked
    <2>6. CASE Assign(m)
      <3>1. /\ CancelOffers(o) /\ task'[m].op = "none" /\ order[o].status = "READY"
            /\ delivery' = [delivery EXCEPT ![o] =
                              [status |-> "AT_PICKUP", courier |-> task[m].courier]]
        BY <1>1, <1>3, <2>1, <2>6, DoneGives DEF Assign, At, TaskHolds
      <3>2. delivery'[o].status = "AT_PICKUP" /\ \A q \in Orders \ {o} : delivery'[q] = delivery[q]
        BY <1>1, <3>1 DEF RunsOK
      <3>3. /\ \A c \in Couriers : offer'[o][c] \notin Open
            /\ \A q \in Orders \ {o} : offer'[q] = offer[q]
        BY <1>1, <3>1, CancelGives
      <3>4. Ends(o)'
        BY <2>2, <3>1, <3>2 DEF Ends
      <3>5. Fits(o)'
        BY <1>2, <3>2, <3>3 DEF Story, Fits
      <3> QED
        BY <1>2, <1>4, <1>7, <3>1, <3>2, <3>3, <3>4, <3>5, DoneHolds DEF Story, Asked
    <2> QED
      BY <1>12, <2>3, <2>4, <2>5, <2>6
  <1>13. Offer(m) \/ Decline(m) \/ Sweep(m) \/ Confirm(m) \/ Assign(m) => task[m].op # "none"
    BY DEF Offer, Decline, Sweep, Confirm, Assign, At
  <1> QED
    BY <1>8, <1>9, <1>10, <1>11, <1>12, <1>13 DEF RunRequest

\* Couriers who accept or ride, and offers that lapse, undo nothing a request found.
LEMMA CouriersTell ==
  ASSUME MovesTypeOK, FulfilmentTypeOK, \A q \in Orders : Story(q), \A n \in Movers : StillSo(n),
         NEW o \in Orders,
         Ride(o) \/ \E c \in Couriers : Accept(o, c) \/ Lapse(o, c)
  PROVE  (\A q \in Orders : Story(q)') /\ (\A n \in Movers : StillSo(n)')
  <1>1. RunsOK /\ OffersOK /\ TasksOK /\ Story(o)
    BY FulfilmentTypeParts
  <1>2. /\ UNCHANGED <<timeline, mover, selfRun, task>>
        /\ \A q \in Orders : order'[q].status = order[q].status
    <2>1. ASSUME NEW c \in Couriers, Accept(o, c)
          PROVE  /\ UNCHANGED <<timeline, mover, selfRun, task>>
                 /\ \A q \in Orders : order'[q].status = order[q].status
      BY <2>1 DEF Accept, SetCourier, MovesTypeOK, OrderRow
    <2> QED
      BY <2>1 DEF Ride, Lapse, moveVars
  <1>3. \A q \in Orders \ {o} : delivery'[q] = delivery[q] /\ offer'[q] = offer[q]
    <2>1. ASSUME NEW c \in Couriers, Accept(o, c)
          PROVE  \A q \in Orders \ {o} : delivery'[q] = delivery[q] /\ offer'[q] = offer[q]
      BY <1>1, <2>1 DEF Accept, RunsOK, OffersOK
    <2>2. ASSUME NEW c \in Couriers, Lapse(o, c)
          PROVE  \A q \in Orders \ {o} : delivery'[q] = delivery[q] /\ offer'[q] = offer[q]
      BY <1>1, <2>2 DEF Lapse, OffersOK
    <2>3. ASSUME Ride(o)
          PROVE  \A q \in Orders \ {o} : delivery'[q] = delivery[q] /\ offer'[q] = offer[q]
      BY <1>1, <2>3, SetRunGives DEF Ride
    <2> QED
      BY <2>1, <2>2, <2>3
  <1>4. \/ delivery'[o] = delivery[o]
        \/ /\ delivery[o].status = "OFFERED" \/ (delivery[o].courier # Nobody /\
                                                 delivery[o].status \in {"ACCEPTED", "TO_PICKUP"})
           /\ delivery'[o].status \in {"ACCEPTED", "TO_PICKUP", "AT_PICKUP"}
    <2>1. ASSUME NEW c \in Couriers, Accept(o, c)
          PROVE  /\ delivery[o].status = "OFFERED" \/ (delivery[o].courier # Nobody /\
                                                       delivery[o].status \in {"ACCEPTED", "TO_PICKUP"})
                 /\ delivery'[o].status \in {"ACCEPTED", "TO_PICKUP", "AT_PICKUP"}
      <3>1. c # Nobody
        BY OrderMovesAssumption DEF Callers
      <3> QED
        BY <1>1, <2>1, <3>1 DEF Accept, RunsOK
    <2>2. ASSUME Ride(o)
          PROVE  /\ delivery[o].courier # Nobody /\ delivery[o].status \in {"ACCEPTED", "TO_PICKUP"}
                 /\ delivery'[o].status \in {"ACCEPTED", "TO_PICKUP", "AT_PICKUP"}
      BY <1>1, <2>2, SetRunGives DEF Ride
    <2> QED
      BY <2>1, <2>2 DEF Lapse
  <1>5. \A c \in Couriers : offer'[o][c] \in Open =>
          \E d \in Couriers : offer[o][d] \in Open /\ (delivery'[o] = delivery[o] \/ delivery[o].status # "OFFERED")
    <2>1. ASSUME NEW c \in Couriers, Accept(o, c), NEW d \in Couriers, offer'[o][d] \in Open
          PROVE  offer[o][d] \in Open /\ delivery[o].status # "OFFERED"
      <3> DEFINE s == IF offer[o][c] = "PENDING" THEN "ACCEPTED" ELSE offer[o][c]
      <3>1. offer' = [offer EXCEPT ![o] = [OffersCancelled(o) EXCEPT ![c] = s]]
        BY <2>1 DEF Accept
      <3>2. /\ OffersCancelled(o) \in [Couriers -> OfferStates]
            /\ \A b \in Couriers : OffersCancelled(o)[b] \notin Open
        BY <1>1 DEF OffersOK, OffersCancelled, OfferStates, Open
      <3>3. s \in Open => offer[o][c] \in Open /\ offer[o][c] # "PENDING"
        BY DEF Open
      <3>4. offer[o][c] # "PENDING" => delivery[o].status # "OFFERED"
        BY <2>1 DEF Accept
      <3> HIDE DEF s
      <3>5. \A b \in Couriers : offer'[o][b] = IF b = c THEN s ELSE OffersCancelled(o)[b]
        BY <1>1, <3>1, <3>2 DEF OffersOK
      <3> QED
        BY <2>1, <3>2, <3>3, <3>4, <3>5
    <2>2. ASSUME NEW c \in Couriers, Lapse(o, c)
          PROVE  delivery'[o] = delivery[o] /\
                 \A d \in Couriers : offer'[o][d] \in Open => offer[o][d] \in Open
      BY <1>1, <2>2 DEF Lapse, OffersOK, Open
    <2>3. ASSUME Ride(o)
          PROVE  UNCHANGED offer /\ delivery[o].status # "OFFERED"
      BY <2>3 DEF Ride
    <2> QED
      BY <2>1, <2>2, <2>3
  <1>6. Fits(o)'
    <2>1. CASE delivery'[o] = delivery[o]
      BY <1>1, <1>2, <1>5, <2>1 DEF Story, Fits, Held
    <2>2. CASE delivery'[o] # delivery[o]
      BY <1>1, <1>2, <1>4, <1>5, <2>2 DEF Story, Fits, Held
    <2> QED
      BY <2>1, <2>2
  <1>7. Ends(o)'
    <2>1. CASE delivery'[o] = delivery[o]
      BY <1>1, <1>2, <2>1 DEF Story, Ends, CancelledByOperator
    <2>2. CASE delivery'[o] # delivery[o]
      BY <1>1, <1>2, <1>4, <2>2, EndsFrame DEF Story, Over
    <2> QED
      BY <2>1, <2>2
  <1>9. Asked(o)'
    <2>1. ASSUME NEW c \in Couriers, Accept(o, c)
          PROVE  delivery'[o].status # "OFFERED"
      BY <1>1, <2>1 DEF Accept, RunsOK
    <2>2. ASSUME NEW c \in Couriers, Lapse(o, c)
          PROVE  UNCHANGED delivery /\ \A d \in Couriers : offer[o][d] \in Open => offer'[o][d] \in Open
      BY <1>1, <2>2 DEF Lapse, OffersOK, Open
    <2>3. ASSUME Ride(o)
          PROVE  delivery'[o].status # "OFFERED"
      BY <1>1, <2>3, SetRunGives DEF Ride
    <2> QED
      BY <1>1, <2>1, <2>2, <2>3 DEF Story, Asked
  <1>8. ASSUME NEW n \in Movers
        PROVE  StillSo(n)'
    <2>1. /\ task[n].op # "none" => task[n].order \in Orders
          /\ mover[n].pc # "idle" => mover[n].order \in Orders
      BY <1>1 DEF TasksOK, MovesTypeOK
    <2>2. \A q \in Orders : \/ delivery'[q] = delivery[q]
                            \/ /\ delivery[q].status \notin {"SEARCHING", "PICKED_UP"} /\ ~Held(q)
                               /\ delivery'[q].status # "OFFERED"
      BY <1>3, <1>4 DEF Held
    <2>3. GateHolds(n)'
      BY <1>2, <2>1, <2>2 DEF StillSo, GateHolds
    <2>4. TaskHolds(n)'
      BY <1>2, <2>1, <2>2 DEF StillSo, TaskHolds, Held, CancelledByOperator, Claiming
    <2>5. MoveFits(n)'
      BY <1>2 DEF StillSo, MoveFits
    <2> QED
      BY <2>3, <2>4, <2>5 DEF StillSo
  <1> QED
    BY <1>2, <1>3, <1>6, <1>7, <1>8, <1>9, StoryFrame DEF Story

(***************************************************************************)
(* Requests that do not overlap: any number of them are in flight, but no  *)
(* two about one order.  What a request writes is about its own order, so  *)
(* it undoes nothing that another one found.                               *)
(***************************************************************************)
About(m, o) ==
  \/ mover[m].pc # "idle" /\ mover[m].order = o
  \/ task[m].op # "none" /\ task[m].order = o

RunsApart == \A o \in Orders : \A m, n \in Movers : About(m, o) /\ About(n, o) => m = n

LEMMA RunsApartMovesApart == MovesTypeOK /\ RunsApart => Apart
  BY DEF MovesTypeOK, RunsApart, About, Apart

OwnOnly(m) ==
  /\ \A n \in Movers \ {m} : mover'[n] = mover[n] /\ task'[n] = task[n]
  /\ timeline \subseteq timeline'
  /\ \A o \in Orders :
       \/ About(m, o)
       \/ /\ delivery'[o] = delivery[o] /\ order'[o].status = order[o].status
          /\ o \in selfRun' <=> o \in selfRun

LEMMA MoveRequestIsOwn ==
  ASSUME MovesTypeOK, FulfilmentTypeOK, NEW m \in Movers, MoveRequest(m)
  PROVE  OwnOnly(m)
  <1>1. RunsOK /\ TasksOK
    BY FulfilmentTypeParts
  <1>2. \A n \in Movers \ {m} : mover'[n] = mover[n]
    BY <1>1 DEF MoveRequest, ReadMove, ReadCompleteSelf, ReadAdminCancel, Gate, SelfGate,
       ReserveMove, Commit, MoveFails, WriteAdminCancel, ReadToMove, ReadToCompleteSelf, AdminRead,
       Remember, Reserve, CommitMove, LoseReservation, Abandon, AdminCancel, MovesTypeOK, moveVars
  <1>3. \A n \in Movers \ {m} : task'[n] = task[n]
    BY <1>1 DEF MoveRequest, ReadMove, ReadCompleteSelf, ReadAdminCancel, Gate, SelfGate,
       ReserveMove, Commit, MoveFails, WriteAdminCancel, Begin, Then, Done, TasksOK, runVars
  <1>4. CASE Commit(m)
    <2>1. PICK o \in Orders : o = mover[m].order
      BY <1>4 DEF Commit, CommitMove, MovesTypeOK
    <2>2. /\ timeline \subseteq timeline' /\ UNCHANGED selfRun
          /\ \A q \in Orders \ {o} : order'[q].status = order[q].status
      BY <1>4, <2>1 DEF Commit, CommitMove, MoveEvent, MovesTypeOK
    <2>3. \A q \in Orders \ {o} : delivery'[q] = delivery[q]
      <3>1. \E status : SetRun(o, status)
        BY <1>4, <2>1 DEF Commit
      <3> QED
        BY <1>1, <3>1, SetRunGives
    <2>4. About(m, o)
      BY <1>4, <2>1 DEF Commit, CommitMove, About
    <2> QED
      BY <1>2, <1>3, <2>2, <2>3, <2>4 DEF OwnOnly
  <1>5. CASE WriteAdminCancel(m)
    <2>1. /\ timeline \subseteq timeline' /\ UNCHANGED <<selfRun, delivery>>
          /\ \A q \in Orders : q # mover[m].order => order'[q].status = order[q].status
          /\ mover[m].pc # "idle"
      BY <1>5 DEF WriteAdminCancel, AdminCancel, MovesTypeOK, runVars
    <2> QED
      BY <1>2, <1>3, <2>1 DEF OwnOnly, About
  <1>6. CASE ReserveMove(m)
    <2>1. /\ UNCHANGED <<timeline, selfRun, delivery>>
          /\ \A q \in Orders : order'[q].status = order[q].status
      BY <1>6 DEF ReserveMove, Reserve, MovesTypeOK, OrderRow, runVars
    <2> QED
      BY <1>2, <1>3, <2>1 DEF OwnOnly
  <1>7. CASE ~(Commit(m) \/ WriteAdminCancel(m) \/ ReserveMove(m))
    <2>1. UNCHANGED <<timeline, order, selfRun, delivery>>
      BY <1>7 DEF MoveRequest, ReadMove, ReadCompleteSelf, ReadAdminCancel, Gate, SelfGate,
         MoveFails, ReadToMove, ReadToCompleteSelf, AdminRead, LoseReservation, Abandon,
         moveVars, runVars
    <2> QED
      BY <1>2, <1>3, <2>1 DEF OwnOnly
  <1> QED
    BY <1>4, <1>5, <1>6, <1>7

LEMMA SelfRequestIsOwn ==
  ASSUME MovesTypeOK, FulfilmentTypeOK, NEW m \in Movers, SelfRequest(m)
  PROVE  OwnOnly(m)
  <1>1. RunsOK /\ TasksOK
    BY FulfilmentTypeParts
  <1>2. \A n \in Movers \ {m} : mover'[n] = mover[n]
    BY DEF SelfRequest, StartSelf, Hold, Name, NameFails, Claim, ReadUndo, Restore, Clear,
       ReadToStartSelf, ReadToClaimOut, Remember, Abandon, MovesTypeOK, moveVars
  <1>3. \A n \in Movers \ {m} : task'[n] = task[n]
    BY <1>1 DEF SelfRequest, StartSelf, Hold, Name, NameFails, Claim, ReadUndo, Restore, Clear,
       Begin, Then, Done, TasksOK
  <1>4. UNCHANGED <<order, timeline>>
    BY DEF SelfRequest, StartSelf, ReadToStartSelf, ReadToClaimOut, Hold, Name, NameFails, Claim,
           ReadUndo, Restore, Clear, Abandon, moveVars
  <1>5. CASE Hold(m) \/ NameFails(m) \/ Claim(m) \/ Restore(m)
    <2>1. PICK o \in Orders : o = task[m].order
      BY <1>1, <1>5 DEF Hold, NameFails, Claim, Restore, At, TasksOK
    <2>2. About(m, o) /\ UNCHANGED selfRun
      BY <1>5, <2>1 DEF Hold, NameFails, Claim, Restore, At, About
    <2>3. \E status : SetRun(o, status)
      BY <1>5, <2>1 DEF Hold, NameFails, Claim, Restore
    <2>4. \A q \in Orders \ {o} : delivery'[q] = delivery[q]
      BY <1>1, <2>3, SetRunGives
    <2> QED
      BY <1>2, <1>3, <1>4, <2>2, <2>4 DEF OwnOnly
  <1>6. CASE Name(m)
    BY <1>2, <1>3, <1>4, <1>6 DEF OwnOnly, Name, At, About
  <1>7. CASE ~(Hold(m) \/ NameFails(m) \/ Claim(m) \/ Restore(m) \/ Name(m))
    <2>1. UNCHANGED <<delivery, selfRun>>
      BY <1>7 DEF SelfRequest, StartSelf, ReadUndo, Clear
    <2> QED
      BY <1>2, <1>3, <1>4, <2>1 DEF OwnOnly
  <1> QED
    BY <1>5, <1>6, <1>7

LEMMA RunRequestIsOwn ==
  ASSUME MovesTypeOK, FulfilmentTypeOK, NEW m \in Movers, RunRequest(m)
  PROVE  OwnOnly(m)
  <1>1. RunsOK /\ TasksOK
    BY FulfilmentTypeParts
  <1>2. /\ UNCHANGED <<timeline, mover, selfRun>>
        /\ \A q \in Orders : order'[q].status = order[q].status
    <2>1. CASE Assign(m)
      BY <2>1 DEF Assign, SetCourier, MovesTypeOK, OrderRow
    <2>2. CASE ~Assign(m)
      BY <2>2 DEF RunRequest, ReadRun, ReadConfirm, Rank, ReadDecline, ReadSweep, ReadAssign,
                  Offer, Decline, Sweep, Return, Confirm, moveVars
    <2> QED
      BY <2>1, <2>2
  <1>3. \A n \in Movers \ {m} : task'[n] = task[n]
    BY <1>1 DEF RunRequest, ReadRun, ReadConfirm, Rank, ReadDecline, ReadSweep, ReadAssign,
       Offer, Decline, Sweep, Return, Confirm, Assign, Begin, Done, TasksOK
  <1>4. CASE Offer(m) \/ Decline(m) \/ Sweep(m) \/ Confirm(m) \/ Assign(m)
    <2>1. PICK o \in Orders : o = task[m].order
      BY <1>1, <1>4 DEF Offer, Decline, Sweep, Confirm, Assign, At, TasksOK
    <2>2. About(m, o)
      BY <1>4, <2>1 DEF Offer, Decline, Sweep, Confirm, Assign, At, About
    <2>3. \/ \E status : SetRun(o, status)
          \/ \E row : delivery' = [delivery EXCEPT ![o] = row]
      BY <1>4, <2>1 DEF Offer, Decline, Sweep, Return, Confirm, Assign
    <2>4. \A q \in Orders \ {o} : delivery'[q] = delivery[q]
      BY <1>1, <2>3, SetRunGives DEF RunsOK
    <2> QED
      BY <1>2, <1>3, <2>2, <2>4 DEF OwnOnly
  <1>5. CASE ~(Offer(m) \/ Decline(m) \/ Sweep(m) \/ Confirm(m) \/ Assign(m))
    <2>1. UNCHANGED delivery
      BY <1>5 DEF RunRequest, ReadRun, ReadConfirm, Rank, ReadDecline, ReadSweep, ReadAssign
    <2> QED
      BY <1>2, <1>3, <2>1 DEF OwnOnly
  <1> QED
    BY <1>4, <1>5

\* What another request found is still so.
LEMMA OthersStillSo ==
  ASSUME RunsApart, MovesTypeOK, FulfilmentTypeOK, NEW m \in Movers, OwnOnly(m),
         NEW n \in Movers \ {m}, StillSo(n)
  PROVE  StillSo(n)'
  <1>1. mover'[n] = mover[n] /\ task'[n] = task[n]
    BY DEF OwnOnly
  <1>2. \A o \in Orders : About(n, o) =>
          /\ delivery'[o] = delivery[o] /\ order'[o].status = order[o].status
          /\ o \in selfRun' <=> o \in selfRun
          /\ CancelledByOperator(o) => CancelledByOperator(o)'
    BY DEF RunsApart, OwnOnly, CancelledByOperator
  <1>3. MoveFits(n)'
    BY <1>1 DEF StillSo, MoveFits
  <1>4. GateHolds(n)'
    <2>1. mover[n].pc # "idle" => mover[n].order \in Orders /\ About(n, mover[n].order)
      BY DEF MovesTypeOK, About
    <2> QED
      BY <1>1, <1>2, <2>1 DEF StillSo, GateHolds
  <1>5. TaskHolds(n)'
    <2>1. task[n].op # "none" => task[n].order \in Orders /\ About(n, task[n].order)
      BY DEF FulfilmentTypeOK, About
    <2>2. CASE task[n].op = "none"
      BY <1>1, <2>2 DEF TaskHolds, Claiming
    <2>3. CASE task[n].op # "none"
      BY <1>1, <1>2, <2>1, <2>3 DEF StillSo, TaskHolds, Held
    <2> QED
      BY <2>2, <2>3
  <1> QED
    BY <1>3, <1>4, <1>5 DEF StillSo

\* While requests about one order do not overlap the story is kept by every step.
LEMMA StoryNext ==
  ASSUME RunsApart, MovesTypeOK, FulfilmentTypeOK, Legal, UpToDate,
         \A q \in Orders : Story(q), \A n \in Movers : StillSo(n), [FulfilmentNext]_vars
  PROVE  (\A q \in Orders : Story(q)') /\ (\A n \in Movers : StillSo(n)')
  <1>1. ASSUME NEW m \in Movers, MoveRequest(m) \/ SelfRequest(m) \/ RunRequest(m)
        PROVE  (\A q \in Orders : Story(q)') /\ (\A n \in Movers : StillSo(n)')
    <2>1. (\A q \in Orders : Story(q)') /\ StillSo(m)'
      BY <1>1, MoveRequestHolds, SelfRequestTells, RunRequestTells
    <2>2. OwnOnly(m)
      BY <1>1, MoveRequestIsOwn, SelfRequestIsOwn, RunRequestIsOwn
    <2> QED
      BY <2>1, <2>2, OthersStillSo
  <1>2. ASSUME NEW m \in Movers, Drop(m)
        PROVE  (\A q \in Orders : Story(q)') /\ (\A n \in Movers : StillSo(n)')
    <2>1. /\ UNCHANGED <<order, timeline, delivery, offer, selfRun>>
          /\ mover'[m].pc = "idle"
          /\ \A n \in Movers \ {m} : mover'[n] = mover[n] /\ task'[n] = task[n]
      BY <1>2, FulfilmentTypeParts DEF Drop, Done, Abandon, moveVars, MovesTypeOK, Idle, TasksOK
    <2>2. task'[m].op = "none"
      BY <1>2, DoneGives, FulfilmentTypeParts DEF Drop
    <2>3. (\A q \in Orders : Story(q)') /\ StillSo(m)'
      BY <2>1, <2>2, StorySame, DoneHolds
    <2>4. OwnOnly(m)
      BY <2>1 DEF OwnOnly
    <2> QED
      BY <2>3, <2>4, OthersStillSo
  <1>3. ASSUME UNCHANGED vars
        PROVE  (\A q \in Orders : Story(q)') /\ (\A n \in Movers : StillSo(n)')
    <2>1. \A q \in Orders : Story(q)'
      BY <1>3, StorySame DEF vars, moveVars, runVars
    <2>2. \A n \in Movers : StillSo(n)'
      BY <1>3 DEF vars, moveVars, runVars, StillSo, MoveFits, GateHolds, TaskHolds, Held,
                  CancelledByOperator
    <2> QED
      BY <2>1, <2>2
  <1> QED
    BY <1>1, <1>2, <1>3, CouriersTell DEF FulfilmentNext

LEMMA StoryInit == FulfilmentInit => (\A q \in Orders : Story(q)) /\ (\A n \in Movers : StillSo(n))
  <1> SUFFICES ASSUME FulfilmentInit
               PROVE  (\A q \in Orders : Story(q)) /\ (\A n \in Movers : StillSo(n))
    OBVIOUS
  <1>1. \A q \in Orders : Story(q)
    BY DEF FulfilmentInit, MovesInit, Story, Ends, Fits, Asked, Open
  <1>2. \A n \in Movers : StillSo(n)
    BY DEF FulfilmentInit, MovesInit, Idle, NoTask, StillSo, MoveFits, GateHolds, TaskHolds, RunOps,
           Claiming, SelfOps
  <1> QED
    BY <1>1, <1>2

AllStories == (\A o \in Orders : Story(o)) /\ (\A m \in Movers : StillSo(m))

LEMMA StoriesHold == FulfilmentSpec /\ []RunsApart => []AllStories
  <1>1. FulfilmentSpec => []MovesTypeOK /\ []Legal
    BY FulfilmentImplementsMoves, MovesTypeCorrect, PlansStayLegal DEF ImplementsMoves
  <1>2. FulfilmentSpec /\ []RunsApart => []UpToDate
    BY <1>1, FulfilmentImplementsMoves, RunsApartMovesApart, ReadsAreUpToDate, PTL
       DEF ImplementsMoves
  <1>3. FulfilmentInit => AllStories
    BY StoryInit DEF AllStories
  <1>4. RunsApart /\ MovesTypeOK /\ UpToDate /\ Legal /\ FulfilmentTypeOK /\ AllStories
          /\ [FulfilmentNext]_vars => AllStories'
    BY StoryNext DEF AllStories
  <1> QED
    BY <1>1, <1>2, <1>3, <1>4, FulfilmentTypesCorrect, PTL DEF FulfilmentSpec

(***************************************************************************)
(* While no two requests about one order overlap, and whichever of them    *)
(* dies halfway, the run and the order end together and leave no offer to  *)
(* answer, for any number of orders, requests and couriers, who accept and *)
(* ride when they like.                                                    *)
(***************************************************************************)
THEOREM RunsMatchOrders == FulfilmentSpec /\ []RunsApart => []RunMatchesOrder
  <1>1. AllStories => RunMatchesOrder
    <2> SUFFICES ASSUME AllStories, NEW o \in Orders, ~CancelledByOperator(o)
                 PROVE  /\ order[o].status = "COMPLETED" <=> delivery[o].status = "DELIVERED"
                        /\ order[o].status \in {"CANCELLED", "REJECTED"}
                             <=> delivery[o].status = "CANCELLED"
                        /\ isTerminalStatus(order[o].status)
                             /\ (order[o].status = "COMPLETED" => o \in paymentFlow)
                             => \A c \in Couriers : offer[o][c] \notin Open
      BY DEF RunMatchesOrder
    <2> QED
      BY DEF AllStories, Story, Ends, Fits, Held, isTerminalStatus, TERMINAL_STATUSES
  <1> QED
    BY <1>1, StoriesHold, PTL

(***************************************************************************)
(* Nor is a run ever left OFFERED to nobody: a courier still has to answer,*)
(* or the sweep will find the offer (orders.ts:1887).                      *)
(***************************************************************************)
THEOREM OffersAreAnswerable == FulfilmentSpec /\ []RunsApart => []OfferedHasSomebody
  <1>1. AllStories => OfferedHasSomebody
    BY DEF AllStories, Story, Asked, OfferedHasSomebody
  <1> QED
    BY <1>1, StoriesHold, PTL

(***************************************************************************)
(* And the courier of an order that left stays: an acceptance takes a run  *)
(* that is nobody's, and an assignment finds the order READY as it read it *)
(* (orders.ts:1431).                                                       *)
(***************************************************************************)
CourierStep ==
  \A o \in Orders :
    order[o].status \in {"OUT_FOR_DELIVERY", "COMPLETED"} /\ order[o].courier # Nobody =>
      order'[o].courier = order[o].courier

LEMMA CourierIsHistory ==
  ASSUME MovesTypeOK, FulfilmentTypeOK, CourierAgrees, AllStories, FulfilmentNext
  PROVE  CourierStep
  <1>2. ASSUME NEW o \in Orders, NEW c \in Couriers, Accept(o, c)
        PROVE  CourierStep
    <2>1. delivery[o].courier \in {c, Nobody}
      BY <1>2 DEF Accept, CourierAgrees
    <2>2. order' = [order EXCEPT ![o].courier = c]
      BY <1>2 DEF Accept, SetCourier
    <2> QED
      BY <2>1, <2>2 DEF CourierStep, CourierAgrees, MovesTypeOK, OrderRow
  <1>3. ASSUME NEW m \in Movers, Assign(m)
        PROVE  CourierStep
    <2>1. task[m].order \in Orders /\ order[task[m].order].status = "READY"
      BY <1>3 DEF Assign, At, AllStories, StillSo, TaskHolds, FulfilmentTypeOK
    <2>2. order' = [order EXCEPT ![task[m].order].courier = task[m].courier]
      BY <1>3 DEF Assign, SetCourier
    <2> QED
      BY <2>1, <2>2 DEF CourierStep, MovesTypeOK, OrderRow
  <1>4. CASE /\ ~\E o \in Orders, c \in Couriers : Accept(o, c)
             /\ ~\E m \in Movers : Assign(m)
    <2>1. \A m \in Movers : MoveRequest(m) \/ SelfRequest(m) =>
            \A o \in Orders : order'[o].courier = order[o].courier
      BY MoveRequestMoves, SelfRequestMoves, MoverKeepsCourier
    <2>2. \A m \in Movers : RunRequest(m) \/ Drop(m) => UNCHANGED order
      <3>1. \A m \in Movers : RunRequest(m) => UNCHANGED order
        BY <1>4, RunRequestsLeaveOrders DEF moveVars
      <3>2. \A m \in Movers : Drop(m) => UNCHANGED order
        BY DEF Drop, Abandon, moveVars
      <3> QED
        BY <3>1, <3>2
    <2>3. \A o \in Orders : Ride(o) \/ (\E c \in Couriers : Lapse(o, c)) => UNCHANGED order
      BY DEF Ride, Lapse, moveVars
    <2> QED
      BY <1>4, <2>1, <2>2, <2>3 DEF FulfilmentNext, CourierStep
  <1> QED
    BY <1>2, <1>3, <1>4

THEOREM CourierOfARunThatLeftStays == FulfilmentSpec /\ []RunsApart => LeftRunIsHistory
  <1>1. FulfilmentSpec => []MovesTypeOK
    BY FulfilmentImplementsMoves, MovesTypeCorrect DEF ImplementsMoves
  <1>2. MovesTypeOK /\ FulfilmentTypeOK /\ CourierAgrees /\ AllStories /\ [FulfilmentNext]_vars
          => [CourierStep]_vars
    BY CourierIsHistory
  <1>3. LeftRunIsHistory <=> [][CourierStep]_vars
    BY DEF LeftRunIsHistory, CourierStep
  <1> QED
    BY <1>1, <1>2, <1>3, StoriesHold, OneCourier, FulfilmentTypesCorrect, PTL DEF FulfilmentSpec

=============================================================================

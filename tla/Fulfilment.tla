----------------------------- MODULE Fulfilment -----------------------------
(***************************************************************************)
(* The delivery of an order and the offers made to couriers, joined to the *)
(* moves of the order: deliveries.ts, delivery-dispatch.ts, and the        *)
(* handlers of orders.ts that read or write the delivery row.              *)
(*                                                                         *)
(* A request is a mover of OrderMoves that also has a task: what it does   *)
(* to the delivery before, around or after its move, or instead of one.    *)
(* Every read of a handler and every write it decides on that read are two *)
(* steps; a D1 batch is one.  Every handler keeps MovesSpec.               *)
(***************************************************************************)
EXTENDS OrderMoves, FiniteSets

CONSTANT paymentFlow   \* orders whose paymentFlowVersion is above 0

ASSUME FulfilmentAssumption ==
  /\ \A o \in Orders : fulfilment[o] = "DELIVERY"
  /\ paymentFlow \subseteq Orders

VARIABLES delivery,   \* the delivery table: status, courierUserId
          offer,      \* the delivery_offer table, one row per courier at most
          selfRun,    \* the orders with a selfDeliveryUserId
          task        \* what each request is doing to the delivery

runVars == <<delivery, offer, selfRun, task>>
vars == <<moveVars, runVars>>

-----------------------------------------------------------------------------
DeliveryStatuses == {"SEARCHING", "OFFERED", "ACCEPTED", "TO_PICKUP", "AT_PICKUP",
                     "PICKED_UP", "DELIVERED", "CANCELLED"}

\* The statuses of the partial index delivery_courier_active_unique.
ActiveStatuses == {"ACCEPTED", "TO_PICKUP", "AT_PICKUP", "PICKED_UP"}

\* NONE is no row; LAPSED is a row still PENDING whose expiresAt has passed.
Open == {"PENDING", "LAPSED"}
OfferStates == Open \cup {"NONE", "ACCEPTED", "DECLINED", "EXPIRED", "CANCELLED"}

(***************************************************************************)
(* The op of a task is the statement the request is about to run:          *)
(*   gate, selfGate      the delivery read before a move                   *)
(*   hold, name, claim   startSelfDelivery up to its move                  *)
(*   moving              the move of a claimed run, to undo if it fails    *)
(*   undo, restore       the undo of a claim                               *)
(*   clear               cancel the open offers of a claimed run           *)
(*   dispatch, rank, offer  dispatchNext                                   *)
(*   decline, sweep, assign, pickup, deliver  the write of that handler    *)
(* own is whether the request knows a selfDeliveryUserId on the order.     *)
(***************************************************************************)
Ops == {"none", "gate", "selfGate", "hold", "name", "claim", "moving", "undo", "restore",
        "clear", "dispatch", "rank", "offer", "decline", "sweep", "assign", "pickup",
        "deliver"}

\* The ops that concern one courier.
CourierOps == {"offer", "decline", "sweep", "assign", "pickup", "deliver"}

TaskRow == [op : Ops, order : Orders \cup {Nobody}, courier : Couriers \cup {Nobody},
            own : BOOLEAN]
NoTask == [op |-> "none", order |-> Nobody, courier |-> Nobody, own |-> FALSE]

FulfilmentInit ==
  /\ MovesInit
  /\ delivery = [o \in Orders |-> [status |-> "SEARCHING", courier |-> Nobody]]
  /\ offer = [o \in Orders |-> [c \in Couriers |-> "NONE"]]
  /\ selfRun = {}
  /\ task = [m \in Movers |-> NoTask]

-----------------------------------------------------------------------------
Free(m) == mover[m].pc = "idle" /\ task[m].op = "none"
At(m, op) == task[m].op = op

Begin(m, op, o, c, own) ==
  task' = [task EXCEPT ![m] = [op |-> op, order |-> o, courier |-> c, own |-> own]]
Then(m, op) == task' = [task EXCEPT ![m].op = op]
Done(m) == task' = [task EXCEPT ![m] = NoTask]

\* No courier has the run and it may still be taken.
Unclaimed(o) == delivery[o].courier = Nobody /\ delivery[o].status \in {"SEARCHING", "OFFERED"}
SetRun(o, status) == delivery' = [delivery EXCEPT ![o].status = status]

\* update delivery_offer set CANCELLED where delivery and status = PENDING
OffersCancelled(o) ==
  [c \in Couriers |-> IF offer[o][c] \in Open THEN "CANCELLED" ELSE offer[o][c]]
CancelOffers(o) == offer' = [offer EXCEPT ![o] = OffersCancelled(o)]

\* delivery_courier_active_unique refuses c a second run.
CarriesAnother(c, o) ==
  \E p \in Orders \ {o} : delivery[p].courier = c /\ delivery[p].status \in ActiveStatuses

-----------------------------------------------------------------------------
(***************************************************************************)
(* Moves of the order and what their batch does to the delivery.           *)
(***************************************************************************)

\* advance and cancel; the physical steps read the delivery before moving.
ReadMove(m, o, caller, to) ==
  /\ Free(m)
  /\ ReadToMove(m, o, caller, to)
  /\ IF to \in {"OUT_FOR_DELIVERY", "COMPLETED"}
     THEN Begin(m, "gate", o, Nobody, FALSE)
     ELSE UNCHANGED task
  /\ UNCHANGED <<delivery, offer, selfRun>>

\* Mutant: the courier in hand is enough, whatever the run's status.
GateAnyStep(caller, to, d) ==
  \/ caller \in Couriers /\ d.courier = caller
  \/ d.courier = Nobody /\ to = "OUT_FOR_DELIVERY"

(***************************************************************************)
(* The gate of advance: the courier in hand moves the run from the status  *)
(* that says they have it; with none in hand the order may be released.    *)
(***************************************************************************)
GatePasses(caller, to, d) ==
  \/ /\ caller \in Couriers /\ d.courier = caller
     /\ d.status = IF to = "OUT_FOR_DELIVERY" THEN "AT_PICKUP" ELSE "PICKED_UP"
  \/ d.courier = Nobody /\ to = "OUT_FOR_DELIVERY"

Gate(m) ==
  /\ At(m, "gate")
  /\ GatePasses(mover[m].caller, mover[m].to, delivery[mover[m].order])
  /\ Done(m)
  /\ UNCHANGED <<moveVars, delivery, offer, selfRun>>

\* Mutant: an order is completed that is not out for delivery.
ReadCompleteSelfAny(m, o) ==
  /\ Free(m) /\ mover[m].pc = "idle"
  /\ Remember(m, "read", o, "BUSINESS", "COMPLETED", "complete")
  /\ Begin(m, "selfGate", o, Nobody, FALSE)
  /\ UNCHANGED <<order, timeline, outbox, delivery, offer, selfRun>>

\* completeSelfDelivery reads the run: picked up, and by no courier.
ReadCompleteSelf(m, o) ==
  /\ Free(m)
  /\ ReadToCompleteSelf(m, o)
  /\ Begin(m, "selfGate", o, Nobody, FALSE)
  /\ UNCHANGED <<delivery, offer, selfRun>>

SelfGate(m) ==
  /\ At(m, "selfGate")
  /\ delivery[mover[m].order] = [status |-> "PICKED_UP", courier |-> Nobody]
  /\ Done(m)
  /\ UNCHANGED <<moveVars, delivery, offer, selfRun>>

ReserveMove(m) ==
  /\ task[m].op \in {"none", "moving"}
  /\ Reserve(m)
  /\ UNCHANGED runVars

\* The status the batch of a move leaves the run in.
RunAfter(move, d) ==
  CASE move.to \in {"CANCELLED", "REJECTED"} -> "CANCELLED"
    [] move.to = "OUT_FOR_DELIVERY" /\ d.courier = move.caller
         /\ d.status = "AT_PICKUP" -> "PICKED_UP"
    [] move.to = "COMPLETED" /\ d.status = "PICKED_UP"
         /\ (d.courier = move.caller \/ (move.self = "complete" /\ d.courier = Nobody)) -> "DELIVERED"
    [] OTHER -> d.status

\* A move to READY goes on to offer the run once its batch is written.
Commit(m) ==
  LET move == mover[m] o == move.order IN
  /\ CommitMove(m)
  /\ SetRun(o, RunAfter(move, delivery[o]))
  /\ IF move.to \in {"CANCELLED", "REJECTED"} \/ move.self = "start"
     THEN CancelOffers(o) ELSE UNCHANGED offer
  /\ IF move.to = "READY" THEN Begin(m, "dispatch", o, Nobody, FALSE) ELSE Done(m)
  /\ UNCHANGED selfRun

\* The version was taken, or the move fails with an error: a claim is undone.
MoveFails(m) ==
  /\ task[m].op \in {"none", "moving"}
  /\ LoseReservation(m) \/ (At(m, "moving") /\ Abandon(m))
  /\ IF At(m, "moving") THEN Then(m, "undo") ELSE Done(m)
  /\ UNCHANGED <<delivery, offer, selfRun>>

\* admin.cancelOrder touches neither the delivery nor its offers.
ReadAdminCancel(m, o) == Free(m) /\ AdminRead(m, o) /\ UNCHANGED runVars
WriteAdminCancel(m) == AdminCancel(m) /\ UNCHANGED runVars

-----------------------------------------------------------------------------
(***************************************************************************)
(* startSelfDelivery.                                                      *)
(***************************************************************************)
StartSelf(m, o) ==
  /\ Free(m)
  /\ ReadToStartSelf(m, o) \/ ReadToClaimOut(m, o)
  /\ Begin(m, IF o \in paymentFlow \ selfRun THEN "hold" ELSE "claim", o, Nobody,
           o \in paymentFlow \cap selfRun)
  /\ UNCHANGED <<delivery, offer, selfRun>>

\* With the payment flow the shop's driver is named before the payment.
Hold(m) ==
  LET o == task[m].order IN
  /\ At(m, "hold")
  /\ Unclaimed(o)
  /\ SetRun(o, "ACCEPTED")
  /\ Then(m, "name")
  /\ UNCHANGED <<moveVars, offer, selfRun>>

Name(m) ==
  LET o == task[m].order IN
  /\ At(m, "name")
  /\ selfRun' = selfRun \cup {o}
  /\ CancelOffers(o)
  /\ Begin(m, "claim", o, Nobody, TRUE)
  /\ UNCHANGED <<moveVars, delivery>>

\* The naming batch fails and the hold is given back.
NameFails(m) ==
  LET o == task[m].order IN
  /\ At(m, "name")
  /\ delivery[o] = [status |-> "ACCEPTED", courier |-> Nobody]
  /\ SetRun(o, "SEARCHING")
  /\ Abandon(m)
  /\ Done(m)
  /\ UNCHANGED <<offer, selfRun>>

\* Mutant: the claim asks that no courier has the run, and not for its status.
ClaimTwice(m) ==
  /\ At(m, "claim")
  /\ delivery[task[m].order].courier = Nobody
  /\ SetRun(task[m].order, "PICKED_UP")
  /\ Then(m, IF mover[m].pc = "claimOut" THEN "clear" ELSE "moving")
  /\ UNCHANGED <<moveVars, offer, selfRun>>

\* The conditional claim; an order that is out already has no move to make.
Claim(m) ==
  LET o == task[m].order IN
  /\ At(m, "claim")
  /\ IF task[m].own THEN delivery[o] = [status |-> "ACCEPTED", courier |-> Nobody]
                    ELSE Unclaimed(o)
  /\ SetRun(o, "PICKED_UP")
  /\ Then(m, IF mover[m].pc = "claimOut" THEN "clear" ELSE "moving")
  /\ UNCHANGED <<moveVars, offer, selfRun>>

\* The catch: the order is read again, ...
ReadUndo(m) ==
  /\ At(m, "undo")
  /\ order[task[m].order].status = "READY"
  /\ Then(m, "restore")
  /\ UNCHANGED <<moveVars, delivery, offer, selfRun>>

\* ... the run is given back if nobody took it since, ...
Restore(m) ==
  LET o == task[m].order IN
  /\ At(m, "restore")
  /\ delivery[o] = [status |-> "PICKED_UP", courier |-> Nobody]
  /\ SetRun(o, IF task[m].own THEN "ACCEPTED" ELSE "SEARCHING")
  /\ Then(m, "clear")
  /\ UNCHANGED <<moveVars, offer, selfRun>>

\* ... and its open offers are cancelled by a statement of their own.
Clear(m) ==
  /\ At(m, "clear")
  /\ CancelOffers(task[m].order)
  /\ IF mover[m].pc = "claimOut"
     THEN Abandon(m) /\ Done(m)
     ELSE Then(m, "dispatch") /\ UNCHANGED moveVars
  /\ UNCHANGED <<delivery, selfRun>>

-----------------------------------------------------------------------------
(***************************************************************************)
(* dispatchNext, from the sweep of the cron, a courier's ping, the board, a*)
(* pin just saved, or the end of another handler.                          *)
(***************************************************************************)
ReadRun(m, o) ==
  /\ Free(m) \/ (At(m, "dispatch") /\ task[m].order = o)
  /\ delivery[o].status = "SEARCHING"
  /\ order[o].status \in {"READY", "OUT_FOR_DELIVERY"}
  /\ Begin(m, "rank", o, Nobody, FALSE)
  /\ UNCHANGED <<moveVars, delivery, offer, selfRun>>

\* candidateFor: never offered this run, carrying nothing, nothing to answer.
Candidate(c, o) ==
  /\ offer[o][c] = "NONE"
  /\ \A p \in Orders :
       /\ offer[p][c] # "PENDING"
       /\ ~(delivery[p].courier = c /\ delivery[p].status \in ActiveStatuses)

Rank(m, c) ==
  /\ At(m, "rank")
  /\ Candidate(c, task[m].order)
  /\ Begin(m, "offer", task[m].order, c, FALSE)
  /\ UNCHANGED <<moveVars, delivery, offer, selfRun>>

\* The batch: OFFERED where SEARCHING, and the offer whatever that matched.
\* An offer still open makes the unique index roll both back.
Offer(m) ==
  LET o == task[m].order  c == task[m].courier IN
  /\ At(m, "offer")
  /\ offer[o][c] = "NONE"
  /\ \A b \in Couriers : offer[o][b] \notin Open
  /\ SetRun(o, IF delivery[o].status = "SEARCHING" THEN "OFFERED" ELSE delivery[o].status)
  /\ offer' = [offer EXCEPT ![o][c] = "PENDING"]
  /\ Done(m)
  /\ UNCHANGED <<moveVars, selfRun>>

-----------------------------------------------------------------------------
(***************************************************************************)
(* What couriers answer, and what time does to an offer.                   *)
(***************************************************************************)

\* acceptOffer is one batch whose later statements ask for the first's effect.
Accept(o, c) ==
  LET takes == /\ offer[o][c] = "PENDING"
               /\ delivery[o].status = "OFFERED"
               /\ order[o].status \in {"READY", "OUT_FOR_DELIVERY"}
      again == offer[o][c] # "NONE" /\ delivery[o] = [status |-> "ACCEPTED", courier |-> c]
  IN
  /\ takes \/ again
  /\ ~CarriesAnother(c, o)
  /\ delivery' = [delivery EXCEPT ![o] = [status |-> "ACCEPTED", courier |-> c]]
  /\ offer[o][c] = "PENDING" => \A b \in Couriers : offer[o][b] # "ACCEPTED"
  /\ offer' = [offer EXCEPT ![o] =
                 [OffersCancelled(o) EXCEPT ![c] =
                    IF offer[o][c] = "PENDING" THEN "ACCEPTED" ELSE offer[o][c]]]
  /\ SetCourier(o, c)
  /\ UNCHANGED <<selfRun, task>>

ReadDecline(m, o, c) ==
  /\ Free(m)
  /\ offer[o][c] \in Open
  /\ Begin(m, "decline", o, c, FALSE)
  /\ UNCHANGED <<moveVars, delivery, offer, selfRun>>

\* expiresAt passes.
Lapse(o, c) ==
  /\ offer[o][c] = "PENDING"
  /\ offer' = [offer EXCEPT ![o][c] = "LAPSED"]
  /\ UNCHANGED <<moveVars, delivery, selfRun, task>>

\* Mutant: the sweep selects the offers of runs that are offered.
ReadSweepOffered(m, o, c) ==
  /\ Free(m)
  /\ offer[o][c] = "LAPSED" /\ delivery[o].status = "OFFERED"
  /\ Begin(m, "sweep", o, c, FALSE)
  /\ UNCHANGED <<moveVars, delivery, offer, selfRun>>

ReadSweep(m, o, c) ==
  /\ Free(m)
  /\ offer[o][c] = "LAPSED"
  /\ Begin(m, "sweep", o, c, FALSE)
  /\ UNCHANGED <<moveVars, delivery, offer, selfRun>>

\* Mutant: the offer is written by id, answered or not.
ReturnAnswered(m, answer) ==
  LET o == task[m].order  c == task[m].courier IN
  /\ offer' = [offer EXCEPT ![o][c] = answer]
  /\ SetRun(o, IF delivery[o].status = "OFFERED" THEN "SEARCHING" ELSE delivery[o].status)
  /\ Begin(m, "dispatch", o, Nobody, FALSE)
  /\ UNCHANGED <<moveVars, selfRun>>

\* Mutant: the run stays offered when its offer is answered.
ReturnOffered(m, answer) ==
  LET o == task[m].order  c == task[m].courier IN
  /\ offer' = [offer EXCEPT ![o][c] = IF @ \in Open THEN answer ELSE @]
  /\ Begin(m, "dispatch", o, Nobody, FALSE)
  /\ UNCHANGED <<moveVars, delivery, selfRun>>

\* The batch of declineOffer and of sweepExpiredOffers: the offer where it is
\* still PENDING, the run where it is OFFERED whether or not the offer matched.
Return(m, answer) ==
  LET o == task[m].order  c == task[m].courier IN
  /\ offer' = [offer EXCEPT ![o][c] = IF @ \in Open THEN answer ELSE @]
  /\ SetRun(o, IF delivery[o].status = "OFFERED" THEN "SEARCHING" ELSE delivery[o].status)
  /\ Begin(m, "dispatch", o, Nobody, FALSE)
  /\ UNCHANGED <<moveVars, selfRun>>

Decline(m) == At(m, "decline") /\ Return(m, "DECLINED")
Sweep(m) == At(m, "sweep") /\ Return(m, "EXPIRED")

-----------------------------------------------------------------------------
(***************************************************************************)
(* The courier's own steps, and the manager's assignment.                  *)
(***************************************************************************)

\* START_TO_PICKUP and ARRIVE_PICKUP are one conditional update each.
Ride(o) ==
  /\ delivery[o].courier # Nobody
  /\ \/ delivery[o].status = "ACCEPTED" /\ SetRun(o, "TO_PICKUP")
     \/ delivery[o].status = "TO_PICKUP" /\ SetRun(o, "AT_PICKUP")
  /\ UNCHANGED <<moveVars, offer, selfRun, task>>

\* CONFIRM_PICKUP and COMPLETE of an order that made the move already.
ReadConfirm(m, o) ==
  /\ Free(m)
  /\ delivery[o].courier # Nobody
  /\ \/ /\ delivery[o].status = "AT_PICKUP" /\ order[o].status = "OUT_FOR_DELIVERY"
        /\ Begin(m, "pickup", o, delivery[o].courier, FALSE)
     \/ /\ delivery[o].status = "PICKED_UP" /\ order[o].status = "COMPLETED"
        /\ Begin(m, "deliver", o, delivery[o].courier, FALSE)
  /\ UNCHANGED <<moveVars, delivery, offer, selfRun>>

Confirm(m) ==
  LET o == task[m].order IN
  /\ task[m].op \in {"pickup", "deliver"} /\ delivery[o].courier = task[m].courier
  /\ \/ At(m, "pickup") /\ delivery[o].status = "AT_PICKUP" /\ SetRun(o, "PICKED_UP")
     \/ At(m, "deliver") /\ delivery[o].status = "PICKED_UP" /\ SetRun(o, "DELIVERED")
  /\ Done(m)
  /\ UNCHANGED <<moveVars, offer, selfRun>>

\* Mutant: the courier of an order that left is written as well.
ReadAssignLeft(m, o, c) ==
  /\ Free(m)
  /\ order[o].status \in {"READY", "OUT_FOR_DELIVERY"}
  /\ Begin(m, "assign", o, c, FALSE)
  /\ UNCHANGED <<moveVars, delivery, offer, selfRun>>

ReadAssign(m, o, c) ==
  /\ Free(m)
  /\ order[o].status = "READY"
  /\ Begin(m, "assign", o, c, FALSE)
  /\ UNCHANGED <<moveVars, delivery, offer, selfRun>>

\* Mutant: the run gets its courier and the order does not.
AssignRunOnly(m) ==
  /\ At(m, "assign")
  /\ ~CarriesAnother(task[m].courier, task[m].order)
  /\ delivery' = [delivery EXCEPT ![task[m].order] =
                    [status |-> "AT_PICKUP", courier |-> task[m].courier]]
  /\ CancelOffers(task[m].order)
  /\ Done(m)
  /\ UNCHANGED <<moveVars, selfRun>>

\* The batch asks for nothing of what was read.
Assign(m) ==
  LET o == task[m].order  c == task[m].courier IN
  /\ At(m, "assign")
  /\ ~CarriesAnother(c, o)
  /\ delivery' = [delivery EXCEPT ![o] = [status |-> "AT_PICKUP", courier |-> c]]
  /\ CancelOffers(o)
  /\ SetCourier(o, c)
  /\ Done(m)
  /\ UNCHANGED selfRun

\* A request is refused, has nothing to write, or its Worker dies.
Drop(m) ==
  /\ ~Free(m)
  /\ Abandon(m) \/ (mover[m].pc = "idle" /\ UNCHANGED moveVars)
  /\ Done(m)
  /\ UNCHANGED <<delivery, offer, selfRun>>

-----------------------------------------------------------------------------
MoveRequest(m) ==
  \/ \E o \in Orders, caller \in Couriers \cup Sides, to \in OrderStatuses :
       ReadMove(m, o, caller, to)
  \/ \E o \in Orders : ReadCompleteSelf(m, o) \/ ReadAdminCancel(m, o)
  \/ Gate(m) \/ SelfGate(m) \/ ReserveMove(m) \/ Commit(m) \/ MoveFails(m)
  \/ WriteAdminCancel(m)

SelfRequest(m) ==
  \/ \E o \in Orders : StartSelf(m, o)
  \/ Hold(m) \/ Name(m) \/ NameFails(m) \/ Claim(m)
  \/ ReadUndo(m) \/ Restore(m) \/ Clear(m)

RunRequest(m) ==
  \/ \E o \in Orders : ReadRun(m, o) \/ ReadConfirm(m, o)
  \/ \E c \in Couriers : Rank(m, c)
  \/ \E o \in Orders, c \in Couriers :
       ReadDecline(m, o, c) \/ ReadSweep(m, o, c) \/ ReadAssign(m, o, c)
  \/ Offer(m) \/ Decline(m) \/ Sweep(m) \/ Confirm(m) \/ Assign(m)

FulfilmentNext ==
  \/ \E m \in Movers : MoveRequest(m) \/ SelfRequest(m) \/ RunRequest(m) \/ Drop(m)
  \/ \E o \in Orders, c \in Couriers : Accept(o, c) \/ Lapse(o, c)
  \/ \E o \in Orders : Ride(o)

FulfilmentSpec == FulfilmentInit /\ [][FulfilmentNext]_vars

-----------------------------------------------------------------------------
(***************************************************************************)
(* Properties.                                                             *)
(***************************************************************************)

\* Every row and every task has its type.
FulfilmentTypeOK ==
  /\ delivery \in [Orders -> [status : DeliveryStatuses, courier : Couriers \cup {Nobody}]]
  /\ offer \in [Orders -> [Couriers -> OfferStates]]
  /\ selfRun \subseteq Orders
  /\ task \in [Movers -> TaskRow]
  /\ \A m \in Movers :
       /\ task[m].op # "none" => task[m].order \in Orders
       /\ task[m].op \in CourierOps => task[m].courier \in Couriers

(***************************************************************************)
(* The order's moves are those of OrderMoves whatever its delivery does, so*)
(* what is proved of MovesSpec holds here: unique versions, a legal        *)
(* history, one write for a move and its event.                            *)
(***************************************************************************)
ImplementsMoves == MovesSpec

(***************************************************************************)
(* The courier on the run and the courier on the order are one person: the *)
(* gate asks the first, reachableOrder the second (deliveries.ts:481,      *)
(* orders.ts:1514), whoever accepts, re-accepts or is assigned meanwhile.  *)
(* A run that is put up, or put up again, is nobody's.                     *)
(***************************************************************************)
CourierAgrees ==
  \A o \in Orders :
    /\ order[o].courier = delivery[o].courier
    /\ delivery[o].status \in {"SEARCHING", "OFFERED"} => delivery[o].courier = Nobody

(***************************************************************************)
(* A courier carries one run at a time: only acceptOffer and assign make a *)
(* run of somebody active, and delivery_courier_active_unique refuses both *)
(* a second one; no later step of a run makes it active again.             *)
(***************************************************************************)
CouriersCarryOne ==
  \A o, p \in Orders :
    /\ delivery[o].courier # Nobody /\ delivery[o].courier = delivery[p].courier
    /\ delivery[o].status \in ActiveStatuses /\ delivery[p].status \in ActiveStatuses
    => o = p

\* An offer that was answered keeps its answer: accept, decline, the sweep and
\* the cancellations race for it, and the first one wins.
AnsweredStaysAnswered ==
  [][\A o \in Orders, c \in Couriers :
       offer[o][c] \notin Open \cup {"NONE"} => offer'[o][c] = offer[o][c]]_vars

(***************************************************************************)
(* startSelfDelivery's claim wins or loses against acceptOffer's write     *)
(* (orders.ts:1224): an accepted offer belongs to a run some courier has,  *)
(* a run is accepted once, and while the shop that claimed a run moves its *)
(* order nobody else's undo, sweep or decline puts the run up again.       *)
(***************************************************************************)
ShopOrCourier ==
  /\ \A o \in Orders, c \in Couriers : offer[o][c] = "ACCEPTED" =>
       /\ delivery[o].courier # Nobody
       /\ \A b \in Couriers : offer[o][b] = "ACCEPTED" => b = c
  /\ \A m \in Movers : At(m, "moving") =>
       LET d == delivery[task[m].order] IN
       d.courier = Nobody => d.status \notin {"SEARCHING", "OFFERED", "ACCEPTED"}

(***************************************************************************)
(* While requests about one order do not overlap, its run and the order    *)
(* tell one story between any two statements, and when a request died      *)
(* halfway: what was handed over was delivered, and a cancelled order has  *)
(* no run and no offer to answer.  An operator's cancellation is the       *)
(* exception: it leaves the run alone.  A completed order may still have an*)
(* offer to answer outside the payment flow, where a shop's claim may die  *)
(* before it cancels the offers.                                           *)
(***************************************************************************)
RunMatchesOrder ==
  \A o \in Orders :
    ~CancelledByOperator(o) =>
      /\ order[o].status = "COMPLETED" <=> delivery[o].status = "DELIVERED"
      /\ order[o].status \in {"CANCELLED", "REJECTED"} <=> delivery[o].status = "CANCELLED"
      /\ isTerminalStatus(order[o].status) /\ (order[o].status = "COMPLETED" => o \in paymentFlow)
           => \A c \in Couriers : offer[o][c] \notin Open

(***************************************************************************)
(* "Once the run left, the courier is history and only the machine moves   *)
(* it" (orders.ts:1431): the courier of an order that is out or finished   *)
(* stays.  True while requests about one order do not overlap.  Violated   *)
(* when they do: assign writes on a READY it read before the run left.     *)
(***************************************************************************)
LeftRunIsHistory ==
  [][\A o \in Orders :
       order[o].status \in {"OUT_FOR_DELIVERY", "COMPLETED"} /\ order[o].courier # Nobody =>
         order'[o].courier = order[o].courier]_vars

(***************************************************************************)
(* "A run that is already OFFERED has somebody to answer" (orders.ts:1887):*)
(* no sweep looks at an offered run again.  True while requests about one  *)
(* order do not overlap.  Violated when they do: the undo of               *)
(* startSelfDelivery gives the run back and then cancels its open offers   *)
(* in another statement, after a dispatch made a new one.                  *)
(***************************************************************************)
OfferedHasSomebody ==
  \A o \in Orders : delivery[o].status = "OFFERED" => \E c \in Couriers : offer[o][c] \in Open

-----------------------------------------------------------------------------
(***************************************************************************)
(* Fairness: time passes, a request ends (or its Worker dies), and the cron*)
(* keeps finding what has lapsed: every tick is a new chance, so a sweep   *)
(* that may run again and again does so once without dying.  Nobody is     *)
(* assumed to accept, decline, move an order or come online.               *)
(***************************************************************************)
Finish(m) ==
  \/ Gate(m) \/ SelfGate(m) \/ ReserveMove(m) \/ Commit(m) \/ MoveFails(m)
  \/ WriteAdminCancel(m) \/ Hold(m) \/ Name(m) \/ NameFails(m) \/ Claim(m)
  \/ ReadUndo(m) \/ Restore(m) \/ Clear(m)
  \/ \E c \in Couriers : Rank(m, c)
  \/ Offer(m) \/ Decline(m) \/ Sweep(m) \/ Confirm(m) \/ Assign(m) \/ Drop(m)

SweepOffer(m, o, c) == task[m].order = o /\ task[m].courier = c /\ Sweep(m)

Fairness ==
  /\ \A m \in Movers : WF_vars(Finish(m))
  /\ \A o \in Orders, c \in Couriers :
       /\ WF_vars(Lapse(o, c))
       /\ SF_vars(\E m \in Movers : ReadSweep(m, o, c))
       /\ SF_vars(\E m \in Movers : SweepOffer(m, o, c))

FairSpec == FulfilmentSpec /\ Fairness

(***************************************************************************)
(* Every offer is answered, also one that was orphaned by a run that moved *)
(* on: sweepExpiredOffers selects by the offer, not by the run.  A row left*)
(* PENDING would make the unique index refuse the run's next offer.        *)
(***************************************************************************)
OfferIsAnswered ==
  \A o \in Orders, c \in Couriers : offer[o][c] \in Open ~> offer[o][c] \notin Open

=============================================================================

------------------------------- MODULE Payments -------------------------------
(***************************************************************************)
(* The separate payments of an order (services/order-payments.ts) composed *)
(* with the moves of the order.  An order owes up to three legs; the payer *)
(* of a leg chooses its method and sends a receipt, its recipient confirms *)
(* or rejects it, and applyMove asks requirePaymentStage before it         *)
(* reserves a version.                                                     *)
(*                                                                         *)
(* A request reads the order and its legs, decides, and commits a batch    *)
(* whose only real compare-and-set is the primary key of the audit row:    *)
(* one per leg and version.  order[o].courier is paymentCourierId here:    *)
(* CourierAgrees of Fulfilment is why the two columns may be taken as one; *)
(* selfDeliveryUserId is a courier too.  The accounts of the parties exist *)
(* and do not change; every order has paymentFlowVersion 1.                *)
(***************************************************************************)
EXTENDS OrderMoves

CONSTANTS paymentMethod,   \* of each order, fixed when placed
          due,             \* the purposes whose amount is not zero
          Receipts,        \* proof ids: one R2 object and at most one row each
          image,           \* the picture a receipt shows, by its sha256
          checkout,        \* the receipt the order was placed with, or Nobody
          Requests,        \* concurrent requests about payments
          MaxPayVersion    \* bound: no request starts at this version of a leg

Purposes == {"MERCHANT_ORDER", "COURIER_COLLECTION", "MERCHANT_DELIVERY"}
Methods == {"CASH", "SINPE_MOVIL"}
Legs == Orders \X Purposes

ASSUME PaymentsAssumption ==
  /\ paymentMethod \in [Orders -> Methods]
  /\ due \in [Orders -> SUBSET Purposes]
  /\ checkout \in [Orders -> Receipts \cup {Nobody}]
  /\ \A o, p \in Orders : checkout[o] \in Receipts /\ image[checkout[o]] = image[checkout[p]] => o = p
  /\ \A o \in Orders : checkout[o] # Nobody =>
       "MERCHANT_ORDER" \in due[o] /\ paymentMethod[o] = "SINPE_MOVIL"
  /\ MaxPayVersion \in Nat
  /\ Nobody \notin Receipts \cup Legs /\ "MERCHANT" \notin Couriers \cup {Nobody}

VARIABLES pay,       \* the order_payment table
          proof,     \* the order_payment_proof table: the leg of each receipt
          media,     \* the receipts' objects in R2
          audit,     \* ids payment:<leg>:<version> of the audit_log table
          paid,      \* order.merchantPaymentConfirmed and order.paymentStatus
          request,   \* the payment requests in flight
          cleared    \* movers whose move passed requirePaymentStage

payVars == <<pay, proof, media, audit, paid, request>>
paymentVars == <<moveVars, payVars, cleared>>

PaymentStatuses == {"NOT_REQUIRED", "AWAITING_PAYMENT", "AWAITING_VERIFICATION",
                    "CONFIRMED", "REJECTED"}
Parties == Couriers \cup {"MERCHANT", Nobody}

\* account is the sinpePhone of the row, reviewedBy its reviewedByUserId.
PaymentRow == [method : Methods, status : PaymentStatuses,
               proof : Receipts \cup {Nobody}, account : Parties, reviewedBy : Parties,
               version : Nat]

\* checked is past the reads, unsure a submission whose batch did not answer.
RequestRow == [pc : {"idle", "checked", "unsure"},
               act : Methods \cup {"submit", "CONFIRM", "REJECT"},
               leg : Legs \cup {Nobody}, base : Nat, party : Parties,
               receipt : Receipts \cup {Nobody}]

NoRequest == [pc |-> "idle", act |-> "submit", leg |-> Nobody, base |-> 0,
              party |-> Nobody, receipt |-> Nobody]

-----------------------------------------------------------------------------
isSettled(status) == status \in {"CONFIRMED", "NOT_REQUIRED"}
settledOf(p) == {l \in Legs : isSettled(p[l].status)}
Settled == settledOf(pay)

cashAdvance(o) == fulfilment[o] = "DELIVERY" /\ paymentMethod[o] = "CASH"
MerchantLeg(o) == <<o, "MERCHANT_ORDER">>
LegsOf(o) == {o} \X Purposes

\* The order's columns, recomputed by every commit from the legs p.
PaidColumns(p, o) ==
  [merchant |-> isSettled(p[MerchantLeg(o)].status),
   status |->
     IF \A l \in LegsOf(o) : l[2] = "MERCHANT_DELIVERY" \/ isSettled(p[l].status)
     THEN "PAID"
     ELSE IF \E l \in LegsOf(o) : p[l].status = "AWAITING_VERIFICATION"
     THEN "PENDING" ELSE "UNPAID"]

\* paymentRows: the legs place writes, and the receipt of a checkout.
PlacedLeg(l) ==
  LET o == l[1]
      receipt == IF l[2] = "MERCHANT_ORDER" THEN checkout[o] ELSE Nobody
  IN [method |-> IF l[2] = "MERCHANT_ORDER" THEN paymentMethod[o] ELSE "CASH",
      status |-> IF l[2] \notin due[o] THEN "NOT_REQUIRED"
                 ELSE IF receipt # Nobody THEN "AWAITING_VERIFICATION"
                 ELSE "AWAITING_PAYMENT",
      proof |-> receipt,
      account |-> IF l[2] = "MERCHANT_ORDER" THEN "MERCHANT" ELSE Nobody,
      reviewedBy |-> Nobody,
      version |-> IF receipt # Nobody THEN 1 ELSE 0]

CheckoutReceipts == {checkout[o] : o \in Orders} \ {Nobody}

PaymentsInit ==
  /\ MovesInit
  /\ pay = [l \in Legs |-> PlacedLeg(l)]
  /\ proof = [x \in Receipts |->
                IF x \in CheckoutReceipts
                THEN MerchantLeg(CHOOSE o \in Orders : checkout[o] = x) ELSE Nobody]
  /\ media = [x \in Receipts |-> IF x \in CheckoutReceipts THEN "stored" ELSE "none"]
  /\ audit = {}
  /\ paid = [o \in Orders |-> PaidColumns(pay, o)]
  /\ request = [r \in Requests |-> NoRequest]
  /\ cleared = {}

-----------------------------------------------------------------------------
(***************************************************************************)
(* Reading: payable, permission and the checks of each handler.            *)
(***************************************************************************)
payee(l) == IF l[2] = "MERCHANT_ORDER" THEN "MERCHANT" ELSE order[l[1]].courier

unlocked(l) ==
  IF l[2] = "MERCHANT_ORDER"
  THEN cashAdvance(l[1]) => order[l[1]].courier # Nobody
  ELSE order[l[1]].courier # Nobody /\ MerchantLeg(l[1]) \in Settled

payable(l) == order[l[1]].status \notin {"CANCELLED", "REJECTED"} /\ unlocked(l)
Unpaid(l) == pay[l].status \in {"AWAITING_PAYMENT", "REJECTED"}

Check(r, act, l, party, receipt) ==
  /\ request[r].pc = "idle"
  /\ pay[l].version < MaxPayVersion
  /\ request' = [request EXCEPT ![r] =
       [pc |-> "checked", act |-> act, leg |-> l, base |-> pay[l].version,
        party |-> party, receipt |-> receipt]]
  /\ UNCHANGED <<moveVars, pay, proof, audit, paid, cleared>>

\* The customer's transfer to the shop keeps the method of the checkout.
chooseMethod(r, l, method) ==
  /\ payable(l) /\ Unpaid(l)
  /\ l[2] = "MERCHANT_ORDER" /\ ~cashAdvance(l[1]) => method = paymentMethod[l[1]]
  /\ Check(r, method, l, IF method = "SINPE_MOVIL" THEN payee(l) ELSE Nobody, Nobody)
  /\ UNCHANGED media

KnownImage(x) == \E y \in Receipts : proof[y] # Nobody /\ image[y] = image[x]

\* The object is put under a fresh key before the batch, and nobody reads it yet.
submitProof(r, l, x) ==
  /\ payable(l) /\ Unpaid(l)
  /\ pay[l].method = "SINPE_MOVIL" /\ pay[l].account # Nobody
  /\ media[x] = "none" /\ ~KnownImage(x)
  /\ Check(r, "submit", l, Nobody, x)
  /\ media' = [media EXCEPT ![x] = "stored"]

\* Mutant: forgets that a transfer needs its receipt.
reviewableUnshown(l) == l \notin Settled

\* Cash is confirmed when it is handed over, a transfer when its receipt is there.
reviewable(l) == /\ l \notin Settled
                 /\ pay[l].method = "SINPE_MOVIL" => pay[l].status = "AWAITING_VERIFICATION"

\* A transfer is reviewed with the receipt the recipient was shown.
reviewPayment(r, l, decision) ==
  /\ payable(l) /\ reviewable(l)
  /\ decision = "REJECT" => pay[l].method = "SINPE_MOVIL"
  /\ Check(r, decision, l, payee(l), pay[l].proof)
  /\ UNCHANGED media

-----------------------------------------------------------------------------
(***************************************************************************)
(* commit: one batch of the proof row, the leg where id and version, the   *)
(* audit row and the order's columns.  A primary key, the unique sha256 or *)
(* the trigger order_payment_not_cancelled rolls all of it back.           *)
(***************************************************************************)
\* The values each handler passes to commit.
Updated(req) ==
  LET row == pay[req.leg] IN
  CASE req.act = "submit" ->
         [row EXCEPT !.status = "AWAITING_VERIFICATION", !.proof = req.receipt]
    [] req.act = "CONFIRM" ->
         [row EXCEPT !.status = "CONFIRMED", !.reviewedBy = req.party]
    [] req.act = "REJECT" ->
         [row EXCEPT !.status = "REJECTED", !.reviewedBy = req.party]
    [] req.act = "SINPE_MOVIL" ->
         [row EXCEPT !.status = "AWAITING_PAYMENT", !.proof = Nobody,
                     !.method = "SINPE_MOVIL", !.account = req.party]
    [] req.act = "CASH" ->
         [row EXCEPT !.status = "AWAITING_PAYMENT", !.proof = Nobody, !.method = "CASH"]

\* Mutant: the version is compared and never counted up.
PayAfterUncounted(req) ==
  IF pay[req.leg].version = req.base THEN [pay EXCEPT ![req.leg] = Updated(req)] ELSE pay

\* The update asks for the version that was read; no row may match.
PayAfter(req) ==
  IF pay[req.leg].version = req.base
  THEN [pay EXCEPT ![req.leg] = [Updated(req) EXCEPT !.version = req.base + 1]]
  ELSE pay

\* Mutant: the columns are computed from the legs as they were read.
PaidAfterRead(req) == [paid EXCEPT ![req.leg[1]] = PaidColumns(pay, req.leg[1])]

\* The columns of the order are set in the same batch, from the legs after it.
PaidAfter(req) == [paid EXCEPT ![req.leg[1]] = PaidColumns(PayAfter(req), req.leg[1])]

\* Mutant: without the trigger on called-off orders.
AbortsUnguarded(req) == \/ <<req.leg, req.base>> \in audit
                        \/ req.act = "submit" /\ KnownImage(req.receipt)

\* What rolls the batch back.
Aborts(req) ==
  \/ <<req.leg, req.base>> \in audit
  \/ req.act = "submit" /\ KnownImage(req.receipt)
  \/ /\ pay[req.leg].version = req.base
     /\ order[req.leg[1]].status \in {"CANCELLED", "REJECTED"}

\* The answer of a batch that landed may be lost: a submission then looks.
commit(r) ==
  LET req == request[r] IN
  /\ req.pc = "checked"
  /\ ~Aborts(req)
  /\ pay' = PayAfter(req)
  /\ audit' = audit \cup {<<req.leg, req.base>>}
  /\ proof' = IF req.act = "submit" THEN [proof EXCEPT ![req.receipt] = req.leg] ELSE proof
  /\ paid' = PaidAfter(req)
  /\ \/ request' = [request EXCEPT ![r] = NoRequest]
     \/ req.act = "submit" /\ request' = [request EXCEPT ![r].pc = "unsure"]
  /\ UNCHANGED <<moveVars, media, cleared>>

\* The batch is rolled back, by a constraint or because D1 failed.
CommitFails(r) ==
  /\ request[r].pc = "checked"
  /\ request' = [request EXCEPT ![r] =
       IF @.act = "submit" THEN [@ EXCEPT !.pc = "unsure"] ELSE NoRequest]
  /\ UNCHANGED <<moveVars, pay, proof, media, audit, paid, cleared>>

\* Mutant: deletes the object without looking for the row.
CleanUpAlways(r) ==
  /\ request[r].pc = "unsure"
  /\ media' = [media EXCEPT ![request[r].receipt] = "deleted"]
  /\ request' = [request EXCEPT ![r] = NoRequest]
  /\ UNCHANGED <<moveVars, pay, proof, audit, paid, cleared>>

\* The catch of submitProof: "Never delete evidence if the database committed".
CleanUp(r) ==
  LET x == request[r].receipt IN
  /\ request[r].pc = "unsure"
  /\ media' = [media EXCEPT ![x] = IF proof[x] = Nobody THEN "deleted" ELSE @]
  /\ request' = [request EXCEPT ![r] = NoRequest]
  /\ UNCHANGED <<moveVars, pay, proof, audit, paid, cleared>>

\* The Worker dies, or the look or the deletion of the catch fails.
RequestDies(r) ==
  /\ request[r].pc # "idle"
  /\ request' = [request EXCEPT ![r] = NoRequest]
  /\ UNCHANGED <<moveVars, pay, proof, media, audit, paid, cleared>>

PayStep(r) ==
  \/ \E l \in Legs : \/ \E method \in Methods : chooseMethod(r, l, method)
                    \/ \E x \in Receipts : submitProof(r, l, x)
                    \/ \E decision \in {"CONFIRM", "REJECT"} : reviewPayment(r, l, decision)
  \/ commit(r) \/ CommitFails(r) \/ CleanUp(r) \/ RequestDies(r)

-----------------------------------------------------------------------------
(***************************************************************************)
(* The moves of OrderMoves, with the payment stage between the read and    *)
(* the reservation.                                                        *)
(***************************************************************************)
\* requirePaymentStage: the legs that must be settled before a move to it.
needs == [o \in Orders |-> [to \in OrderStatuses |->
  CASE to = "READY" -> IF paymentMethod[o] = "SINPE_MOVIL" /\ fulfilment[o] = "DELIVERY"
                       THEN {MerchantLeg(o)} ELSE {}
    [] to = "OUT_FOR_DELIVERY" -> {MerchantLeg(o)}
    [] to = "COMPLETED" -> LegsOf(o)
    [] OTHER -> {}]]

\* A request reads the order; startSelfDelivery asks for merchantPaymentConfirmed.
ReadMove(m) ==
  /\ \E o \in Orders :
       \/ \E caller \in Couriers \cup Sides, to \in OrderStatuses : ReadToMove(m, o, caller, to)
       \/ paid[o].merchant /\ (ReadToStartSelf(m, o) \/ ReadToClaimOut(m, o))
       \/ ReadToCompleteSelf(m, o)
       \/ AdminRead(m, o)
  /\ UNCHANGED <<payVars, cleared>>

\* Mutant: asks for the shop's leg alone.
PassStageMerchant(m) ==
  /\ mover[m].pc = "read" /\ m \notin cleared
  /\ needs[mover[m].order][mover[m].to] \cap {MerchantLeg(mover[m].order)} \subseteq Settled
  /\ cleared' = cleared \cup {m}
  /\ UNCHANGED <<moveVars, payVars>>

\* applyMove begins: the legs are read, and the move is refused or goes on.
PassStage(m) ==
  /\ mover[m].pc = "read" /\ m \notin cleared
  /\ needs[mover[m].order][mover[m].to] \subseteq Settled
  /\ cleared' = cleared \cup {m}
  /\ UNCHANGED <<moveVars, payVars>>

ReserveMove(m) == m \in cleared /\ Reserve(m) /\ UNCHANGED <<payVars, cleared>>

\* The request's last statement, whichever it is.
EndMove(m) ==
  /\ \/ m \in cleared /\ LoseReservation(m)
     \/ CommitMove(m)
     \/ AdminCancel(m)
     \/ Abandon(m)
  /\ cleared' = cleared \ {m}
  /\ UNCHANGED payVars

\* acceptOffer and assign name the driver of a run that has been READY; orders.assign
\* overwrites the one it had.
NameDriver(o, c) ==
  /\ \E t \in timeline : t.order = o /\ t.to = "READY"
  /\ SetCourier(o, c)
  /\ UNCHANGED <<payVars, cleared>>

PaymentsNext ==
  \/ \E r \in Requests : PayStep(r)
  \/ \E m \in Movers : ReadMove(m) \/ PassStage(m) \/ ReserveMove(m) \/ EndMove(m)
  \/ \E o \in Orders, c \in Couriers : NameDriver(o, c)

PaymentsSpec == PaymentsInit /\ [][PaymentsNext]_paymentVars

-----------------------------------------------------------------------------
(***************************************************************************)
(* Properties.                                                             *)
(***************************************************************************)

\* Every table and every request holds rows of its type.
PaymentsTypeOK ==
  /\ MovesTypeOK
  /\ pay \in [Legs -> PaymentRow]
  /\ proof \in [Receipts -> Legs \cup {Nobody}]
  /\ media \in [Receipts -> {"none", "stored", "deleted"}]
  /\ audit \subseteq Legs \X Nat
  /\ paid \in [Orders -> [merchant : BOOLEAN, status : {"PAID", "PENDING", "UNPAID"}]]
  /\ request \in [Requests -> RequestRow]
  /\ cleared \subseteq Movers
  /\ \A r \in Requests : request[r].pc # "idle" =>
       /\ request[r].leg \in Legs
       /\ request[r].act = "submit" => request[r].receipt \in Receipts

(***************************************************************************)
(* No order reaches a stage that its payments do not allow, whoever moves  *)
(* it and however stale the read of the legs: the stage an order stands    *)
(* at, and every move its events tell of, has its legs settled.            *)
(***************************************************************************)
PaidStages ==
  /\ \A o \in Orders : needs[o][order[o].status] \subseteq Settled
  /\ \A e \in outbox : needs[e.order][e.to] \subseteq Settled

\* What the payments promise; see PaymentPromise.
Promise == INSTANCE PaymentPromise
  WITH Orders <- Orders, Legs <- Legs, needs <- needs, settledLegs <- Settled,
       stage <- [o \in Orders |-> order[o].status]

(***************************************************************************)
(* A settled leg stays settled, none is settled while its order stands     *)
(* called off, and no move passes an unpaid stage: stale requests and the  *)
(* moves of the order together implement PaymentPromise.                   *)
(***************************************************************************)
KeepsPromise == Promise!PromiseSpec

(***************************************************************************)
(* The columns the lists and the clients read say what the legs say:       *)
(* merchantPaymentConfirmed and paymentStatus are written far from the     *)
(* legs they are derived from, by requests about different legs.           *)
(***************************************************************************)
ColumnsAgree == \A o \in Orders : paid[o] = PaidColumns(pay, o)

(***************************************************************************)
(* Evidence is never lost: every proof row has its object in R2, whatever  *)
(* batch failed, lost its answer or raced with the same picture; and the   *)
(* receipt a leg shows is a receipt of that leg.                           *)
(***************************************************************************)
EvidenceKept ==
  /\ \A x \in Receipts : proof[x] # Nobody => media[x] = "stored"
  /\ \A l \in Legs : pay[l].proof # Nobody => proof[pay[l].proof] = l
  /\ \A x, y \in Receipts :
       proof[x] # Nobody /\ proof[y] # Nobody /\ image[x] = image[y] => x = y

(***************************************************************************)
(* The audit log tells every change of a leg once, version by version:     *)
(* that row is what makes the batch a compare-and-set.                     *)
(***************************************************************************)
AuditTellsAll ==
  \A l \in Legs : {a \in audit : a[1] = l}
                     = {l} \X (PlacedLeg(l).version..(pay[l].version - 1))

(***************************************************************************)
(* "A stale review cannot confirm the replacement" (the test of rejected   *)
(* evidence): a transfer is confirmed by the request that was shown the    *)
(* receipt the leg still has, awaiting its verification.                   *)
(***************************************************************************)
ConfirmedAsShown ==
  [][\A l \in Legs :
       /\ pay[l].status # "CONFIRMED" /\ pay'[l].status = "CONFIRMED"
       /\ pay[l].method = "SINPE_MOVIL"
       => /\ pay[l].status = "AWAITING_VERIFICATION"
          /\ \E r \in Requests : /\ request[r].leg = l /\ request[r].act = "CONFIRM"
                                  /\ request[r].receipt = pay[l].proof]_paymentVars

(***************************************************************************)
(* "Each recipient verifies only their own transfer" (the test of SINPE):  *)
(* who confirmed a transfer is who the leg told the customer to pay.       *)
(* Violated: a run assigned again keeps the leg with the first courier's   *)
(* account, and the second one confirms it.                                *)
(***************************************************************************)
OwnTransferOnly ==
  \A l \in Legs : pay[l].status = "CONFIRMED" /\ pay[l].method = "SINPE_MOVIL"
                   => pay[l].reviewedBy = pay[l].account

\* The customer was told to pay the courier of the order by transfer, or is about to
\* be, and the courier did not confirm it yet.
TransferUnderWay(o) ==
  \E l \in LegsOf(o) :
    /\ l[2] # "MERCHANT_ORDER"
    /\ \/ pay[l].method = "SINPE_MOVIL" /\ l \notin Settled
       \/ \E r \in Requests : /\ request[r].pc = "checked" /\ request[r].leg = l
                              /\ request[r].act = "SINPE_MOVIL"

\* No courier is replaced under a transfer.
PayeeStays == \A o \in Orders : TransferUnderWay(o) => order'[o].courier = order[o].courier
=============================================================================

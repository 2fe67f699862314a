---------------------------- MODULE PaymentsProofs ----------------------------
(***************************************************************************)
(* Proofs about Payments, for any orders, legs, receipts and requests.     *)
(*                                                                         *)
(* A leg changes only with its version, so a request whose version is      *)
(* still the leg's decided on the leg as it is (ChecksHold): what it       *)
(* settles was not settled.  Settled legs therefore only grow, and a stage *)
(* that was passed on an old read of the legs is passed on any later one   *)
(* (StagesPassed).  These two are inductive with the types; the promise    *)
(* and PaidStages follow.                                                  *)
(***************************************************************************)
EXTENDS Payments, OrderMovesProofs

-----------------------------------------------------------------------------
\* A step of a payment request leaves the moves alone.
LEMMA PayStepKeepsMoves ==
  ASSUME NEW r \in Requests, PayStep(r)
  PROVE  UNCHANGED <<moveVars, cleared>>
  BY DEF PayStep, chooseMethod, submitProof, reviewPayment, Check, commit,
         CommitFails, CleanUp, RequestDies

\* Every step moves the orders as OrderMoves does, or not at all.
LEMMA PaymentsStepMoves ==
  ASSUME [PaymentsNext]_paymentVars
  PROVE  [MovesNext]_moveVars
  <1>1. ASSUME NEW r \in Requests, PayStep(r)
        PROVE  UNCHANGED moveVars
    BY <1>1, PayStepKeepsMoves
  <1>2. ASSUME NEW m \in Movers, ReadMove(m) \/ PassStage(m) \/ ReserveMove(m) \/ EndMove(m)
        PROVE  MoverStep(m) \/ UNCHANGED moveVars
    BY <1>2 DEF ReadMove, PassStage, ReserveMove, EndMove, MoverStep
  <1>3. ASSUME NEW o \in Orders, NEW c \in Couriers, NameDriver(o, c)
        PROVE  SetCourier(o, c)
    BY <1>3 DEF NameDriver
  <1> QED
    BY <1>1, <1>2, <1>3 DEF PaymentsNext, MovesNext, paymentVars

(***************************************************************************)
(* An order under separate payments still moves as OrderMoves lets it, so  *)
(* its log keeps its promise and each event is written with its move,      *)
(* whatever payers, recipients and receipts do meanwhile.                  *)
(***************************************************************************)
THEOREM PaymentsImplementMoves == PaymentsSpec => MovesSpec
  <1>1. PaymentsInit => MovesInit
    BY DEF PaymentsInit
  <1>2. [PaymentsNext]_paymentVars => [MovesNext]_moveVars
    BY PaymentsStepMoves
  <1> QED
    BY <1>1, <1>2, PTL DEF PaymentsSpec, MovesSpec

THEOREM PaymentsKeepTheLog ==
  PaymentsSpec => /\ []UniqueVersions /\ []LegalHistory /\ []ReservationsHeld
                  /\ ImplementsLog /\ MoveAndEvent
  BY PaymentsImplementMoves, VersionsAreUnique, HistoryIsLegal, ReservationsAreHeld,
     MovesImplementLog, MovesAndEventsAreOneWrite

\* A step of a payment request leaves the moves alone; a step of a move leaves
\* the payments alone.
LEMMA PayOrMove ==
  ASSUME [PaymentsNext]_paymentVars
  PROVE  \/ UNCHANGED <<moveVars, cleared>> /\ \E r \in Requests : PayStep(r)
         \/ UNCHANGED payVars
  <1>1. ASSUME NEW r \in Requests, PayStep(r)
        PROVE  UNCHANGED <<moveVars, cleared>>
    BY <1>1, PayStepKeepsMoves
  <1>2. ASSUME NEW m \in Movers, ReadMove(m) \/ PassStage(m) \/ ReserveMove(m) \/ EndMove(m)
        PROVE  UNCHANGED payVars
    BY <1>2 DEF ReadMove, PassStage, ReserveMove, EndMove
  <1>3. ASSUME NEW o \in Orders, NEW c \in Couriers, NameDriver(o, c)
        PROVE  UNCHANGED payVars
    BY <1>3 DEF NameDriver
  <1> QED
    BY <1>1, <1>2, <1>3 DEF PaymentsNext, paymentVars

-----------------------------------------------------------------------------
(***************************************************************************)
(* Types.                                                                  *)
(***************************************************************************)
PayOK == pay \in [Legs -> PaymentRow]
EvidenceOK == /\ proof \in [Receipts -> Legs \cup {Nobody}]
              /\ media \in [Receipts -> {"none", "stored", "deleted"}]
ColumnsOK == paid \in [Orders -> [merchant : BOOLEAN, status : {"PAID", "PENDING", "UNPAID"}]]
RequestsOK ==
  /\ request \in [Requests -> RequestRow]
  /\ \A r \in Requests : request[r].pc # "idle" =>
       /\ request[r].leg \in Legs
       /\ request[r].act = "submit" => request[r].receipt \in Receipts
AuditOK == audit \subseteq Legs \X Nat
PayTypes == PayOK /\ EvidenceOK /\ ColumnsOK /\ RequestsOK /\ AuditOK

\* The parts are the whole.
LEMMA PaymentsTypeParts ==
  PaymentsTypeOK <=> MovesTypeOK /\ PayTypes /\ cleared \subseteq Movers
  BY DEF PaymentsTypeOK, PayTypes, PayOK, EvidenceOK, ColumnsOK, RequestsOK, AuditOK

LEMMA PaymentsTypePartsNext ==
  PaymentsTypeOK' <=> (MovesTypeOK /\ PayTypes /\ cleared \subseteq Movers)'
  BY DEF PaymentsTypeOK, PayTypes, PayOK, EvidenceOK, ColumnsOK, RequestsOK, AuditOK

LEMMA NoRequestTypes == NoRequest \in RequestRow /\ NoRequest.pc = "idle"
  BY DEF NoRequest, RequestRow, Methods, Parties

\* A request that starts or ends.
LEMMA CheckTypes ==
  ASSUME RequestsOK, PayOK, NEW r \in Requests, NEW l \in Legs,
         NEW act \in Methods \cup {"submit", "CONFIRM", "REJECT"}, NEW party \in Parties,
         NEW x \in Receipts \cup {Nobody}, act = "submit" => x \in Receipts,
         Check(r, act, l, party, x)
  PROVE  RequestsOK'
  <1>1. [pc |-> "checked", act |-> act, leg |-> l, base |-> pay[l].version,
         party |-> party, receipt |-> x] \in RequestRow
    BY DEF RequestRow, PayOK, PaymentRow
  <1> QED
    BY <1>1 DEF Check, RequestsOK

LEMMA EndTypes ==
  ASSUME RequestsOK, NEW r \in Requests, request' = [request EXCEPT ![r] = NoRequest]
  PROVE  RequestsOK'
  BY NoRequestTypes DEF RequestsOK

LEMMA UnsureTypes ==
  ASSUME RequestsOK, NEW r \in Requests, request[r].pc = "checked",
         request' = [request EXCEPT ![r].pc = "unsure"]
  PROVE  RequestsOK'
  BY DEF RequestsOK, RequestRow

\* What a handler passes to commit is a row.
LEMMA UpdatedRow ==
  ASSUME PayOK, NEW req \in RequestRow, req.leg \in Legs,
         req.act = "submit" => req.receipt \in Receipts
  PROVE  Updated(req) \in PaymentRow
  <1>1. /\ pay[req.leg] \in PaymentRow /\ req.party \in Parties
        /\ req.act \in Methods \cup {"submit", "CONFIRM", "REJECT"}
    BY DEF PayOK, RequestRow
  <1> QED
    BY <1>1 DEF Updated, PaymentRow, PaymentStatuses, Methods

LEMMA UpdatedTypes ==
  ASSUME PayOK, NEW req \in RequestRow, req.leg \in Legs,
         req.act = "submit" => req.receipt \in Receipts
  PROVE  /\ [Updated(req) EXCEPT !.version = req.base + 1] \in PaymentRow
         /\ [Updated(req) EXCEPT !.version = req.base + 1].version = req.base + 1
  <1>1. Updated(req) \in PaymentRow /\ req.base + 1 \in Nat
    BY UpdatedRow DEF RequestRow
  <1> QED
    BY <1>1 DEF PaymentRow

LEMMA PayAfterTypes ==
  ASSUME PayOK, NEW req \in RequestRow, req.leg \in Legs,
         req.act = "submit" => req.receipt \in Receipts
  PROVE  PayAfter(req) \in [Legs -> PaymentRow]
  BY UpdatedTypes DEF PayAfter, PayOK

LEMMA ColumnsTypes ==
  ASSUME NEW p, NEW o
  PROVE  PaidColumns(p, o) \in [merchant : BOOLEAN, status : {"PAID", "PENDING", "UNPAID"}]
  <1>1. isSettled(p[MerchantLeg(o)].status) \in BOOLEAN
    BY DEF isSettled
  <1> QED
    BY <1>1 DEF PaidColumns

\* The payee of a leg is the shop or the driver.
LEMMA PayeeTypes ==
  ASSUME MovesTypeOK, NEW l \in Legs
  PROVE  payee(l) \in Parties
  BY DEF payee, MovesTypeOK, OrderRow, Parties, Legs, Purposes

LEMMA CommitTypes ==
  ASSUME PayTypes, NEW r \in Requests, commit(r)
  PROVE  PayTypes'
  <1> DEFINE req == request[r]
  <1>1. /\ req \in RequestRow /\ req.leg \in Legs /\ req.pc = "checked"
        /\ req.act = "submit" => req.receipt \in Receipts
        /\ req.base \in Nat /\ req.leg[1] \in Orders
    BY DEF PayTypes, RequestsOK, RequestRow, commit, Legs
  <1>2. PayOK'
    BY <1>1, PayAfterTypes DEF PayTypes, commit, PayOK
  <1>3. EvidenceOK'
    BY <1>1 DEF PayTypes, commit, EvidenceOK
  <1>4. ColumnsOK'
    <2>1. paid' = [paid EXCEPT ![req.leg[1]] = PaidColumns(pay', req.leg[1])]
      BY DEF commit, PaidAfter
    <2> QED
      BY <2>1, ColumnsTypes DEF PayTypes, ColumnsOK
  <1>5. RequestsOK'
    BY <1>1, EndTypes, UnsureTypes DEF PayTypes, commit
  <1>6. AuditOK'
    BY <1>1 DEF PayTypes, commit, AuditOK
  <1> QED
    BY <1>2, <1>3, <1>4, <1>5, <1>6 DEF PayTypes

LEMMA PayStepTypes ==
  ASSUME MovesTypeOK, PayTypes, NEW r \in Requests, PayStep(r)
  PROVE  PayTypes'
  <1> USE DEF PayTypes
  <1> DEFINE Same == UNCHANGED <<pay, proof, audit, paid>>
  <1>0. /\ "SINPE_MOVIL" \in Methods /\ "CASH" \in Methods /\ Nobody \in Parties
    BY DEF Methods, Parties
  <1>1. ASSUME NEW l \in Legs, NEW method \in Methods, chooseMethod(r, l, method)
        PROVE  PayTypes'
    <2>1. (IF method = "SINPE_MOVIL" THEN payee(l) ELSE Nobody) \in Parties /\ method # "submit"
      BY PayeeTypes, <1>0 DEF Methods
    <2>2. RequestsOK'
      BY <1>1, <2>1, CheckTypes DEF chooseMethod
    <2> QED
      BY <1>1, <2>2 DEF chooseMethod, Check, PayOK, EvidenceOK, ColumnsOK, AuditOK
  <1>2. ASSUME NEW l \in Legs, NEW x \in Receipts, submitProof(r, l, x)
        PROVE  PayTypes'
    <2>1. RequestsOK'
      BY <1>2, <1>0, CheckTypes DEF submitProof
    <2> QED
      BY <1>2, <2>1 DEF submitProof, Check, PayOK, EvidenceOK, ColumnsOK, AuditOK
  <1>3. ASSUME NEW l \in Legs, NEW decision \in {"CONFIRM", "REJECT"}, reviewPayment(r, l, decision)
        PROVE  PayTypes'
    <2>1. pay[l].proof \in Receipts \cup {Nobody}
      BY DEF PayOK, PaymentRow
    <2>2. RequestsOK'
      BY <1>3, <2>1, PayeeTypes, CheckTypes DEF reviewPayment
    <2> QED
      BY <1>3, <2>2 DEF reviewPayment, Check, PayOK, EvidenceOK, ColumnsOK, AuditOK
  <1>4. CASE commit(r)
    BY <1>4, CommitTypes
  <1>5. CASE CommitFails(r)
    <2>1. RequestsOK'
      BY <1>5, EndTypes, UnsureTypes DEF CommitFails
    <2> QED
      BY <1>5, <2>1 DEF CommitFails, PayOK, EvidenceOK, ColumnsOK, AuditOK
  <1>6. CASE CleanUp(r)
    <2>1. RequestsOK'
      BY <1>6, EndTypes DEF CleanUp
    <2> QED
      BY <1>6, <2>1 DEF CleanUp, PayOK, EvidenceOK, ColumnsOK, AuditOK
  <1>7. CASE RequestDies(r)
    <2>1. RequestsOK'
      BY <1>7, EndTypes DEF RequestDies
    <2> QED
      BY <1>7, <2>1 DEF RequestDies, PayOK, EvidenceOK, ColumnsOK, AuditOK
  <1> QED
    BY <1>1, <1>2, <1>3, <1>4, <1>5, <1>6, <1>7 DEF PayStep

LEMMA PaymentsTypeInit == PaymentsInit => PaymentsTypeOK
  <1> SUFFICES ASSUME PaymentsInit PROVE PaymentsTypeOK
    OBVIOUS
  <1> USE PaymentsAssumption
  <1>1. MovesTypeOK
    BY MovesTypeInit DEF PaymentsInit
  <1>2. ASSUME NEW l \in Legs PROVE PlacedLeg(l) \in PaymentRow
    <2>1. l[1] \in Orders /\ "CASH" \in Methods /\ checkout[l[1]] \in Receipts \cup {Nobody}
      BY DEF Legs, Methods
    <2> QED
      BY <2>1 DEF PlacedLeg, PaymentRow, PaymentStatuses, Parties
  <1>3. PayOK
    BY <1>2 DEF PaymentsInit, PayOK
  <1>4. EvidenceOK
    <2>1. ASSUME NEW x \in CheckoutReceipts
          PROVE  MerchantLeg(CHOOSE o \in Orders : checkout[o] = x) \in Legs
      BY DEF CheckoutReceipts, MerchantLeg, Legs, Purposes
    <2> QED
      BY <2>1 DEF PaymentsInit, EvidenceOK
  <1>5. ColumnsOK
    BY ColumnsTypes DEF PaymentsInit, ColumnsOK
  <1>6. RequestsOK /\ AuditOK
    BY NoRequestTypes DEF PaymentsInit, RequestsOK, AuditOK
  <1> QED
    BY <1>1, <1>3, <1>4, <1>5, <1>6, PaymentsTypeParts DEF PayTypes, PaymentsInit

LEMMA PaymentsTypeNext == PaymentsTypeOK /\ [PaymentsNext]_paymentVars => PaymentsTypeOK'
  <1> SUFFICES ASSUME PaymentsTypeOK, [PaymentsNext]_paymentVars PROVE PaymentsTypeOK'
    OBVIOUS
  <1>1. MovesTypeOK /\ PayTypes /\ cleared \subseteq Movers
    BY PaymentsTypeParts
  <1>2. MovesTypeOK'
    BY <1>1, PaymentsStepMoves, MovesTypeNext
  <1>3. PayTypes'
    <2>1. CASE \E r \in Requests : PayStep(r)
      BY <1>1, <2>1, PayStepTypes
    <2>2. CASE UNCHANGED payVars
      BY <1>1, <2>2 DEF payVars, PayTypes, PayOK, EvidenceOK, ColumnsOK, RequestsOK, AuditOK
    <2> QED
      BY <2>1, <2>2, PayOrMove
  <1>4. (cleared \subseteq Movers)'
    <2>1. ASSUME NEW m \in Movers, ReadMove(m) \/ PassStage(m) \/ ReserveMove(m) \/ EndMove(m)
          PROVE  cleared' \subseteq Movers
      BY <1>1, <2>1 DEF ReadMove, PassStage, ReserveMove, EndMove
    <2>2. ASSUME NEW o \in Orders, NEW c \in Couriers, NameDriver(o, c)
          PROVE  cleared' = cleared
      BY <2>2 DEF NameDriver
    <2>3. ASSUME NEW r \in Requests, PayStep(r)
          PROVE  cleared' = cleared
      BY <2>3, PayStepKeepsMoves
    <2> QED
      BY <1>1, <2>1, <2>2, <2>3 DEF PaymentsNext, paymentVars
  <1> QED
    BY <1>2, <1>3, <1>4, PaymentsTypePartsNext

\* The tables and the requests of the payments hold rows of their types.
THEOREM PaymentsTypesCorrect == PaymentsSpec => []PaymentsTypeOK
  BY PaymentsTypeInit, PaymentsTypeNext, PTL DEF PaymentsSpec

-----------------------------------------------------------------------------
(***************************************************************************)
(* Settled legs only grow.                                                 *)
(***************************************************************************)
\* A request never is ahead of its leg, and one that is not behind decided on
\* the leg as it is.
ChecksHold ==
  \A r \in Requests : request[r].pc = "checked" =>
    /\ request[r].base <= pay[request[r].leg].version
    /\ request[r].base = pay[request[r].leg].version => request[r].leg \notin Settled

\* What a commit does to the legs.
LEMMA CommitLegs ==
  ASSUME PayTypes, ChecksHold, NEW r \in Requests, commit(r)
  PROVE  /\ request[r].leg \in Legs
         /\ \A k \in Legs : \/ pay'[k] = pay[k]
                            \/ /\ k = request[r].leg
                               /\ pay'[k].version = pay[k].version + 1
                               /\ pay[k].version = request[r].base
                               /\ k \notin Settled
                               /\ order[k[1]].status \notin {"CANCELLED", "REJECTED"}
  <1> DEFINE req == request[r]
  <1>1. /\ req.leg \in Legs /\ req \in RequestRow /\ req.pc = "checked" /\ req.base \in Nat
        /\ req.act = "submit" => req.receipt \in Receipts
    BY DEF commit, PayTypes, RequestsOK, RequestRow
  <1>2. [Updated(req) EXCEPT !.version = req.base + 1].version = req.base + 1
    BY <1>1, UpdatedTypes DEF PayTypes
  <1>3. pay' = PayAfter(req) /\ ~Aborts(req)
    BY DEF commit
  <1>4. CASE pay[req.leg].version # req.base
    BY <1>1, <1>3, <1>4 DEF PayAfter
  <1>5. CASE pay[req.leg].version = req.base
    <2>1. pay' = [pay EXCEPT ![req.leg] = [Updated(req) EXCEPT !.version = req.base + 1]]
      BY <1>3, <1>5 DEF PayAfter
    <2>2. /\ pay'[req.leg].version = pay[req.leg].version + 1
          /\ \A k \in Legs \ {req.leg} : pay'[k] = pay[k]
      BY <1>1, <1>2, <1>5, <2>1 DEF PayTypes, PayOK
    <2>3. req.leg \notin Settled /\ order[req.leg[1]].status \notin {"CANCELLED", "REJECTED"}
      BY <1>1, <1>3, <1>5 DEF ChecksHold, Aborts
    <2> QED
      BY <1>1, <1>5, <2>2, <2>3
  <1> QED
    BY <1>1, <1>4, <1>5

\* The steps about payments but for commit leave the legs alone.
LEMMA OnlyCommitPays ==
  ASSUME NEW r \in Requests, PayStep(r), ~commit(r)
  PROVE  UNCHANGED <<pay, proof, audit, paid>>
  BY DEF PayStep, chooseMethod, submitProof, reviewPayment, Check, CommitFails, CleanUp,
         RequestDies

LEMMA SettledGrows ==
  ASSUME PayTypes, ChecksHold, [PaymentsNext]_paymentVars
  PROVE  Settled \subseteq Settled'
  <1>1. CASE UNCHANGED pay
    BY <1>1 DEF Settled, settledOf
  <1>2. ASSUME NEW r \in Requests, commit(r)
        PROVE  Settled \subseteq Settled'
    BY <1>2, CommitLegs DEF Settled, settledOf
  <1> QED
    BY <1>1, <1>2, PayOrMove, OnlyCommitPays DEF payVars

\* Requests other than r keep their row, and r is checked or not.
LEMMA ChecksFrame ==
  ASSUME PayTypes, ChecksHold, UNCHANGED pay,
         \A r \in Requests : request'[r].pc = "checked" =>
           \/ request'[r] = request[r]
           \/ /\ request'[r].leg \in Legs \ Settled
              /\ request'[r].base = pay[request'[r].leg].version
  PROVE  ChecksHold'
  <1>1. Settled' = Settled
    BY DEF Settled, settledOf
  <1>2. \A l \in Legs : pay[l].version \in Nat
    BY DEF PayTypes, PayOK, PaymentRow
  <1> QED
    BY <1>1, <1>2 DEF ChecksHold

LEMMA CheckHolds ==
  ASSUME PayTypes, ChecksHold, NEW r \in Requests, NEW act, NEW l \in Legs \ Settled,
         NEW party, NEW x, Check(r, act, l, party, x)
  PROVE  ChecksHold'
  <1>1. /\ UNCHANGED pay
        /\ request'[r] = [pc |-> "checked", act |-> act, leg |-> l,
                          base |-> pay[l].version, party |-> party, receipt |-> x]
        /\ \A q \in Requests \ {r} : request'[q] = request[q]
    BY DEF Check, PayTypes, RequestsOK
  <1> QED
    BY <1>1, ChecksFrame

LEMMA ChecksHoldNext ==
  ASSUME PayTypes, ChecksHold, [PaymentsNext]_paymentVars
  PROVE  ChecksHold'
  <1>1. CASE UNCHANGED payVars
    BY <1>1, ChecksFrame DEF payVars
  <1>2. ASSUME NEW r \in Requests, PayStep(r)
        PROVE  ChecksHold'
    <2>1. ASSUME NEW l \in Legs, Unpaid(l)
          PROVE  l \notin Settled
      BY <2>1 DEF Unpaid, Settled, settledOf, isSettled
    <2>2. ASSUME NEW l \in Legs, NEW method \in Methods, chooseMethod(r, l, method)
          PROVE  ChecksHold'
      BY <2>1, <2>2, CheckHolds DEF chooseMethod
    <2>3. ASSUME NEW l \in Legs, NEW x \in Receipts, submitProof(r, l, x)
          PROVE  ChecksHold'
      BY <2>1, <2>3, CheckHolds DEF submitProof
    <2>4. ASSUME NEW l \in Legs, NEW decision, reviewPayment(r, l, decision)
          PROVE  ChecksHold'
      BY <2>4, CheckHolds DEF reviewPayment, reviewable
    <2>5. ASSUME commit(r)
          PROVE  ChecksHold'
      <3>1. ASSUME NEW q \in Requests, request'[q].pc = "checked"
            PROVE  q # r /\ request'[q] = request[q] /\ request[q].leg \in Legs
                   /\ request[q].base \in Nat
        BY <2>5, <3>1, NoRequestTypes DEF commit, PayTypes, RequestsOK, RequestRow
      <3>2. \A l \in Legs : pay[l].version \in Nat
        BY DEF PayTypes, PayOK, PaymentRow
      <3>3. ASSUME NEW l \in Legs, pay'[l] = pay[l]
            PROVE  l \in Settled' <=> l \in Settled
        BY <3>3 DEF Settled, settledOf
      <3> QED
        BY <2>5, <3>1, <3>2, <3>3, CommitLegs DEF ChecksHold
    <2>6. ASSUME CommitFails(r) \/ CleanUp(r) \/ RequestDies(r)
          PROVE  ChecksHold'
      <3>1. /\ UNCHANGED pay
            /\ \A q \in Requests : request'[q].pc = "checked" => request'[q] = request[q]
        BY <2>6, NoRequestTypes DEF CommitFails, CleanUp, RequestDies, PayTypes, RequestsOK, RequestRow
      <3> QED
        BY <3>1, ChecksFrame
    <2> QED
      BY <1>2, <2>2, <2>3, <2>4, <2>5, <2>6 DEF PayStep
  <1> QED
    BY <1>1, <1>2, PayOrMove

-----------------------------------------------------------------------------
(***************************************************************************)
(* No move passes an unpaid stage.                                         *)
(***************************************************************************)
StagesPassed ==
  /\ \A m \in cleared : /\ mover[m].pc \in {"read", "reserved"}
                        /\ needs[mover[m].order][mover[m].to] \subseteq Settled
  /\ \A m \in Movers : mover[m].pc = "reserved" => m \in cleared

PaymentsInv == PaymentsTypeOK /\ ChecksHold /\ StagesPassed /\ PaidStages

\* The stages that ask for nothing.
LEMMA NoNeeds ==
  ASSUME NEW o \in Orders
  PROVE  needs[o]["PENDING"] = {} /\ needs[o]["CANCELLED"] = {}
  BY DEF needs, OrderStatuses

\* What the moves of a request do to its row and to the order.
LEMMA ReadMoveRow ==
  ASSUME MovesTypeOK, NEW m \in Movers, ReadMove(m)
  PROVE  /\ UNCHANGED <<order, outbox, cleared, payVars>>
         /\ mover[m].pc = "idle" /\ mover'[m].pc # "reserved"
         /\ \A n \in Movers \ {m} : mover'[n] = mover[n]
  BY DEF ReadMove, ReadToMove, ReadToStartSelf, ReadToClaimOut, ReadToCompleteSelf, AdminRead,
         Remember, MovesTypeOK

LEMMA EndMoveRow ==
  ASSUME MovesTypeOK, NEW m \in Movers, EndMove(m)
  PROVE  /\ cleared' = cleared \ {m} /\ UNCHANGED payVars
         /\ mover'[m].pc = "idle"
         /\ \A n \in Movers \ {m} : mover'[n] = mover[n]
  BY DEF EndMove, LoseReservation, CommitMove, AdminCancel, Abandon, Idle, MovesTypeOK

\* A step that moves no order and takes no stage, but may settle legs.
LEMMA StagesFrame ==
  ASSUME PaymentsInv, Settled \subseteq Settled', cleared' \subseteq cleared, UNCHANGED outbox,
         \A o \in Orders : order'[o].status = order[o].status,
         \A m \in cleared' : mover'[m] = mover[m],
         \A m \in Movers : mover'[m].pc = "reserved" => m \in cleared' \/ (mover'[m] = mover[m] /\ m \notin cleared)
  PROVE  (StagesPassed /\ PaidStages)'
  <1>1. needs' = needs
    BY DEF needs, MerchantLeg, LegsOf
  <1>2. StagesPassed'
    BY <1>1 DEF PaymentsInv, StagesPassed
  <1>3. PaidStages'
    BY <1>1 DEF PaymentsInv, PaidStages
  <1> QED
    BY <1>2, <1>3

LEMMA StagesNext ==
  ASSUME PaymentsInv, [PaymentsNext]_paymentVars
  PROVE  (StagesPassed /\ PaidStages)'
  <1> USE DEF PaymentsInv
  <1>1. MovesTypeOK /\ PayTypes /\ cleared \subseteq Movers
    BY PaymentsTypeParts
  <1>2. Settled \subseteq Settled'
    BY <1>1, SettledGrows
  <1>3. CASE UNCHANGED <<moveVars, cleared>>
    BY <1>2, <1>3, StagesFrame DEF moveVars, StagesPassed
  <1>4. ASSUME NEW m \in Movers, ReadMove(m)
        PROVE  (StagesPassed /\ PaidStages)'
    BY <1>1, <1>2, <1>4, ReadMoveRow, StagesFrame DEF StagesPassed
  <1>5. ASSUME NEW m \in Movers, PassStage(m)
        PROVE  (StagesPassed /\ PaidStages)'
    <2>1. UNCHANGED <<order, mover, outbox, pay>> /\ needs' = needs
      BY <1>5 DEF PassStage, moveVars, payVars, needs, MerchantLeg, LegsOf
    <2>2. Settled' = Settled
      BY <2>1 DEF Settled, settledOf
    <2> QED
      BY <1>5, <2>1, <2>2 DEF PassStage, StagesPassed, PaidStages
  <1>6. ASSUME NEW m \in Movers, ReserveMove(m)
        PROVE  (StagesPassed /\ PaidStages)'
    <2>1. /\ m \in cleared /\ UNCHANGED <<cleared, outbox, pay>> /\ needs' = needs
          /\ mover'[m].pc = "reserved" /\ mover'[m].order = mover[m].order
          /\ mover'[m].to = mover[m].to
          /\ \A n \in Movers \ {m} : mover'[n] = mover[n]
          /\ \A o \in Orders : order'[o].status = order[o].status
      BY <1>1, <1>6 DEF ReserveMove, Reserve, payVars, needs, MerchantLeg, LegsOf, MovesTypeOK,
                        MoverRow, OrderRow
    <2>2. Settled' = Settled
      BY <2>1 DEF Settled, settledOf
    <2>3. StagesPassed'
      BY <1>1, <2>1, <2>2 DEF StagesPassed
    <2>4. PaidStages'
      BY <2>1, <2>2 DEF PaidStages
    <2> QED
      BY <2>3, <2>4
  <1>7. ASSUME NEW m \in Movers, EndMove(m)
        PROVE  (StagesPassed /\ PaidStages)'
    <2>1. /\ cleared' = cleared \ {m} /\ UNCHANGED payVars /\ mover'[m].pc = "idle"
          /\ \A n \in Movers \ {m} : mover'[n] = mover[n]
      BY <1>1, <1>7, EndMoveRow
    <2>2. Settled' = Settled /\ needs' = needs
      BY <2>1 DEF payVars, Settled, settledOf, needs, MerchantLeg, LegsOf
    <2>3. StagesPassed'
      BY <1>1, <2>1, <2>2 DEF StagesPassed
    <2>4. CASE LoseReservation(m) \/ Abandon(m)
      BY <2>2, <2>3, <2>4 DEF LoseReservation, Abandon, PaidStages
    <2>5. CASE AdminCancel(m)
      <3>1. /\ UNCHANGED outbox
            /\ \A o \in Orders : \/ order'[o].status = order[o].status
                                 \/ order'[o].status = "CANCELLED"
        <4> DEFINE p == mover[m].order
        <4>1. /\ order' = [order EXCEPT ![p].status = "CANCELLED"]
              /\ order \in [Orders -> OrderRow]
          BY <1>1, <2>5 DEF AdminCancel, MovesTypeOK
        <4>2. UNCHANGED outbox
          BY <2>5 DEF AdminCancel
        <4> QED
          BY <4>1, <4>2 DEF OrderRow
      <3>2. ASSUME NEW o \in Orders
            PROVE  needs[o][order'[o].status] \subseteq Settled
        BY <3>1, NoNeeds DEF PaidStages
      <3> QED
        BY <2>2, <2>3, <3>1, <3>2 DEF PaidStages
    <2>6. CASE CommitMove(m)
      <3>1. m \in cleared /\ needs[mover[m].order][mover[m].to] \subseteq Settled
        BY <2>6 DEF CommitMove, StagesPassed
      <3>2. MoveEvent(m).order = mover[m].order /\ MoveEvent(m).to = mover[m].to
        BY DEF MoveEvent
      <3>3. /\ outbox' = outbox \cup {MoveEvent(m)}
            /\ \A o \in Orders : \/ order'[o].status = order[o].status
                                 \/ o = mover[m].order /\ order'[o].status = mover[m].to
        BY <1>1, <2>6, <3>2 DEF CommitMove, MovesTypeOK, OrderRow
      <3> QED
        BY <2>2, <2>3, <3>1, <3>2, <3>3 DEF PaidStages
    <2> QED
      BY <1>7, <2>3, <2>4, <2>5, <2>6 DEF EndMove
  <1>8. ASSUME NEW o \in Orders, NEW c \in Couriers, NameDriver(o, c)
        PROVE  (StagesPassed /\ PaidStages)'
    <2>1. /\ UNCHANGED <<outbox, mover, cleared>>
          /\ \A p \in Orders : order'[p].status = order[p].status
      BY <1>1, <1>8 DEF NameDriver, SetCourier, MovesTypeOK, OrderRow
    <2> QED
      BY <1>2, <2>1, StagesFrame DEF StagesPassed
  <1>9. ASSUME NEW r \in Requests, PayStep(r)
        PROVE  (StagesPassed /\ PaidStages)'
    BY <1>3, <1>9, PayStepKeepsMoves
  <1> QED
    BY <1>3, <1>4, <1>5, <1>6, <1>7, <1>8, <1>9 DEF PaymentsNext, paymentVars

LEMMA PaymentsInvInit == PaymentsInit => PaymentsInv
  <1> SUFFICES ASSUME PaymentsInit PROVE PaymentsInv
    OBVIOUS
  <1>1. ChecksHold
    BY NoRequestTypes DEF PaymentsInit, ChecksHold
  <1>2. StagesPassed
    BY DEF PaymentsInit, MovesInit, Idle, StagesPassed
  <1>3. PaidStages
    <2>1. /\ \A o \in Orders : order[o].status = "PENDING"
          /\ \A e \in outbox : e.order \in Orders /\ e.to = "PENDING"
      BY DEF PaymentsInit, MovesInit, Log!PlacedEvent
    <2> QED
      BY <2>1, NoNeeds DEF PaidStages
  <1> QED
    BY <1>1, <1>2, <1>3, PaymentsTypeInit DEF PaymentsInv

LEMMA PaymentsInvNext == PaymentsInv /\ [PaymentsNext]_paymentVars => PaymentsInv'
  <1> SUFFICES ASSUME PaymentsInv, [PaymentsNext]_paymentVars PROVE PaymentsInv'
    OBVIOUS
  <1>1. ChecksHold'
    BY PaymentsTypeParts, ChecksHoldNext DEF PaymentsInv
  <1>2. PaymentsTypeOK'
    BY PaymentsTypeNext DEF PaymentsInv
  <1> QED
    BY <1>1, <1>2, StagesNext DEF PaymentsInv

\* The stage every order stands at, and every stage an event tells of, is paid.
THEOREM StagesArePaid == PaymentsSpec => []PaidStages
  <1>1. PaymentsInv => PaidStages
    BY DEF PaymentsInv
  <1> QED
    BY <1>1, PaymentsInvInit, PaymentsInvNext, PTL DEF PaymentsSpec

-----------------------------------------------------------------------------
(***************************************************************************)
(* The payments implement PaymentPromise.                                  *)
(***************************************************************************)
\* PaymentPromise speaks of the same statuses.
LEMMA PromiseNames == Promise!OrderStatuses = OrderStatuses
  BY DEF Promise!OrderStatuses, OrderStatuses

\* A step that neither settles a leg nor moves an order.
LEMMA PromiseStutters ==
  ASSUME Settled' = Settled, \A o \in Orders : order'[o].status = order[o].status
  PROVE  UNCHANGED Promise!promiseVars
  BY DEF Promise!promiseVars

\* A step that moves one order to a stage that is paid.
LEMMA PromiseReaches ==
  ASSUME MovesTypeOK, NEW o \in Orders, NEW to \in OrderStatuses, Settled' = Settled,
         needs[o][to] \subseteq Settled,
         \A p \in Orders : order'[p].status = IF p = o THEN to ELSE order[p].status
  PROVE  Promise!PromiseNext
  <1>1. [p \in Orders |-> order'[p].status]
          = [[p \in Orders |-> order[p].status] EXCEPT ![o] = to]
    OBVIOUS
  <1> QED
    BY <1>1, PromiseNames DEF Promise!PromiseNext, Promise!Reach

LEMMA MoveKeepsPromise ==
  ASSUME PaymentsInv, UNCHANGED payVars, [PaymentsNext]_paymentVars
  PROVE  [Promise!PromiseNext]_(Promise!promiseVars)
  <1> USE DEF PaymentsInv
  <1>1. MovesTypeOK
    BY PaymentsTypeParts
  <1>2. Settled' = Settled
    BY DEF payVars, Settled, settledOf
  <1>3. CASE \A o \in Orders : order'[o].status = order[o].status
    BY <1>2, <1>3, PromiseStutters
  <1>4. ASSUME NEW m \in Movers, CommitMove(m)
        PROVE  Promise!PromiseNext
    <2> DEFINE o == mover[m].order
               to == mover[m].to
    <2>1. /\ o \in Orders /\ to \in OrderStatuses
          /\ MoveEvent(m).order = o /\ MoveEvent(m).to = to
      BY <1>1, <1>4 DEF CommitMove, MovesTypeOK, MoverRow, MoveEvent
    <2>2. needs[o][to] \subseteq Settled
      BY <1>4 DEF CommitMove, StagesPassed
    <2>3. \A p \in Orders : order'[p].status = IF p = o THEN to ELSE order[p].status
      BY <1>1, <1>4, <2>1 DEF CommitMove, MovesTypeOK, OrderRow
    <2> QED
      BY <1>1, <1>2, <2>1, <2>2, <2>3, PromiseReaches
  <1>5. ASSUME NEW m \in Movers, AdminCancel(m)
        PROVE  Promise!PromiseNext
    <2> DEFINE o == mover[m].order
    <2>1. o \in Orders /\ "CANCELLED" \in OrderStatuses
      BY <1>1, <1>5 DEF AdminCancel, MovesTypeOK, OrderStatuses
    <2>2. \A p \in Orders : order'[p].status = IF p = o THEN "CANCELLED" ELSE order[p].status
      BY <1>1, <1>5, <2>1 DEF AdminCancel, MovesTypeOK, OrderRow
    <2> QED
      BY <1>1, <1>2, <2>1, <2>2, NoNeeds, PromiseReaches
  <1>6. ASSUME NEW m \in Movers, ReadMove(m) \/ PassStage(m) \/ LoseReservation(m) \/ Abandon(m)
        PROVE  \A o \in Orders : order'[o].status = order[o].status
    BY <1>6 DEF ReadMove, ReadToMove, ReadToStartSelf, ReadToClaimOut, ReadToCompleteSelf,
                AdminRead, PassStage, LoseReservation, Abandon, moveVars
  <1>7. ASSUME NEW m \in Movers, ReserveMove(m)
        PROVE  \A o \in Orders : order'[o].status = order[o].status
    BY <1>1, <1>7 DEF ReserveMove, Reserve, MovesTypeOK, OrderRow
  <1>8. ASSUME NEW o \in Orders, NEW c \in Couriers, NameDriver(o, c)
        PROVE  \A p \in Orders : order'[p].status = order[p].status
    BY <1>1, <1>8 DEF NameDriver, SetCourier, MovesTypeOK, OrderRow
  <1>9. ASSUME NEW r \in Requests, PayStep(r)
        PROVE  \A o \in Orders : order'[o].status = order[o].status
    BY <1>9, PayStepKeepsMoves DEF moveVars
  <1> QED
    BY <1>3, <1>4, <1>5, <1>6, <1>7, <1>8, <1>9 DEF PaymentsNext, EndMove, paymentVars, moveVars

LEMMA PayKeepsPromise ==
  ASSUME PaymentsInv, NEW r \in Requests, PayStep(r)
  PROVE  [Promise!PromiseNext]_(Promise!promiseVars)
  <1> USE DEF PaymentsInv
  <1>1. PayTypes /\ UNCHANGED order
    BY PaymentsTypeParts, PayStepKeepsMoves DEF moveVars
  <1>2. CASE Settled' = Settled
    BY <1>1, <1>2, PromiseStutters
  <1>3. CASE commit(r) /\ Settled' # Settled
    <2> DEFINE l == request[r].leg
    <2>1. /\ l \in Legs /\ l[1] \in Orders
          /\ \A k \in Legs \ {l} : pay'[k] = pay[k]
          /\ pay'[l] # pay[l] => l \notin Settled /\ order[l[1]].status \notin {"CANCELLED", "REJECTED"}
      BY <1>1, <1>3, CommitLegs DEF Legs
    <2>2. \A k \in Legs \ {l} : k \in Settled' <=> k \in Settled
      BY <2>1 DEF Settled, settledOf
    <2>3. pay'[l] # pay[l]
      BY <1>3, <2>1, <2>2 DEF Settled, settledOf
    <2>4. Settled' = Settled \cup {l}
      BY <1>3, <2>1, <2>2, <2>3 DEF Settled, settledOf
    <2>5. [o \in Orders |-> order[o].status][l[1]] \notin {"CANCELLED", "REJECTED"}
      BY <2>1, <2>3
    <2>6. [o \in Orders |-> order'[o].status] = [o \in Orders |-> order[o].status]
      BY <1>1
    <2>7. Promise!Settle(l)
      BY <2>1, <2>3, <2>4, <2>5, <2>6 DEF Promise!Settle
    <2> QED
      BY <2>1, <2>7 DEF Promise!PromiseNext
  <1>4. CASE ~commit(r)
    BY <1>2, <1>4, OnlyCommitPays DEF Settled, settledOf
  <1> QED
    BY <1>2, <1>3, <1>4

\* A settled leg stays settled, none is settled while its order stands called
\* off, and no move passes an unpaid stage.
THEOREM PaymentsKeepPromise == PaymentsSpec => KeepsPromise
  <1>1. PaymentsInit => Promise!PromiseInit
    <2> SUFFICES ASSUME PaymentsInit PROVE Promise!PromiseInit
      OBVIOUS
    <2>1. [o \in Orders |-> order[o].status] = [o \in Orders |-> "PENDING"]
      BY DEF PaymentsInit, MovesInit
    <2>2. Settled \subseteq Legs
      BY DEF Settled, settledOf
    <2> QED
      BY <2>1, <2>2 DEF Promise!PromiseInit
  <1>2. PaymentsInv /\ [PaymentsNext]_paymentVars
          => [Promise!PromiseNext]_(Promise!promiseVars)
    BY PayOrMove, PayKeepsPromise, MoveKeepsPromise
  <1> QED
    BY <1>1, <1>2, PaymentsInvInit, PaymentsInvNext, PTL
       DEF PaymentsSpec, KeepsPromise, Promise!PromiseSpec

-----------------------------------------------------------------------------
(***************************************************************************)
(* The order's columns agree with its legs.                                *)
(***************************************************************************)
LEMMA SameLegsSameColumns ==
  ASSUME NEW o, NEW p, NEW q, \A k \in LegsOf(o) : p[k] = q[k]
  PROVE  PaidColumns(p, o) = PaidColumns(q, o)
  <1>1. MerchantLeg(o) \in LegsOf(o)
    BY DEF MerchantLeg, LegsOf, Purposes
  <1> QED
    BY <1>1 DEF PaidColumns

LEMMA ColumnsNext == PaymentsInv /\ ColumnsAgree /\ [PaymentsNext]_paymentVars => ColumnsAgree'
  <1> SUFFICES ASSUME PaymentsInv, ColumnsAgree, [PaymentsNext]_paymentVars PROVE ColumnsAgree'
    OBVIOUS
  <1>1. PayTypes /\ ChecksHold
    BY PaymentsTypeParts DEF PaymentsInv
  <1>2. CASE UNCHANGED <<pay, paid>>
    BY <1>2 DEF ColumnsAgree, PaidColumns
  <1>3. ASSUME NEW r \in Requests, commit(r)
        PROVE  ColumnsAgree'
    <2> DEFINE l == request[r].leg
    <2>1. /\ l \in Legs /\ l[1] \in Orders
          /\ \A k \in Legs \ {l} : pay'[k] = pay[k]
      BY <1>1, <1>3, CommitLegs DEF Legs
    <2>2. paid' = [paid EXCEPT ![l[1]] = PaidColumns(pay', l[1])]
      BY <1>3 DEF commit, PaidAfter
    <2>3. ASSUME NEW o \in Orders, o # l[1]
          PROVE  PaidColumns(pay', o) = PaidColumns(pay, o)
      <3>1. \A k \in LegsOf(o) : k \in Legs /\ k # l
        BY <2>3 DEF LegsOf, Legs
      <3> QED
        BY <2>1, <3>1, SameLegsSameColumns
    <2>4. paid \in [Orders -> [merchant : BOOLEAN, status : {"PAID", "PENDING", "UNPAID"}]]
      BY <1>1 DEF PayTypes, ColumnsOK
    <2> QED
      BY <2>1, <2>2, <2>3, <2>4 DEF ColumnsAgree
  <1> QED
    BY <1>2, <1>3, PayOrMove, OnlyCommitPays DEF payVars

\* merchantPaymentConfirmed and paymentStatus say what the legs say.
THEOREM ColumnsAlwaysAgree == PaymentsSpec => []ColumnsAgree
  <1>1. PaymentsInit => ColumnsAgree
    BY DEF PaymentsInit, ColumnsAgree
  <1> QED
    BY <1>1, ColumnsNext, PaymentsInvInit, PaymentsInvNext, PTL DEF PaymentsSpec

-----------------------------------------------------------------------------
(***************************************************************************)
(* The audit row is a compare-and-set.                                     *)
(***************************************************************************)
Started(l) == PlacedLeg(l).version

AuditInv ==
  /\ AuditTellsAll
  /\ \A l \in Legs : Started(l) <= pay[l].version
  /\ \A r \in Requests : request[r].pc = "checked" => Started(request[r].leg) <= request[r].base

LEMMA StartedTypes == ASSUME NEW l PROVE Started(l) \in Nat
  BY DEF Started, PlacedLeg

LEMMA AuditFrame ==
  ASSUME AuditInv, UNCHANGED <<pay, audit>>,
         \A r \in Requests : request'[r].pc = "checked" =>
           \/ request'[r] = request[r]
           \/ /\ request'[r].leg \in Legs
              /\ request'[r].base = pay[request'[r].leg].version
  PROVE  AuditInv'
  <1>1. AuditTellsAll'
    BY DEF AuditInv, AuditTellsAll
  <1>2. \A l \in Legs : (Started(l) <= pay[l].version)'
    BY DEF AuditInv, Started, PlacedLeg
  <1> QED
    BY <1>1, <1>2 DEF AuditInv

\* A commit that does not abort finds the leg as its request read it.
LEMMA CommitIsCurrent ==
  ASSUME PayTypes, ChecksHold, AuditInv, NEW r \in Requests, commit(r)
  PROVE  /\ request[r].leg \in Legs
         /\ request[r].base = pay[request[r].leg].version
  <1> DEFINE req == request[r]
             l == req.leg
  <1>1. /\ l \in Legs /\ req.base \in Nat /\ req.pc = "checked" /\ pay[l].version \in Nat
    BY DEF commit, PayTypes, RequestsOK, RequestRow, PayOK, PaymentRow
  <1>2. req.base <= pay[l].version /\ Started(l) <= req.base /\ Started(l) \in Nat
    BY <1>1, StartedTypes DEF ChecksHold, AuditInv
  <1>3. <<l, req.base>> \notin audit
    BY DEF commit, Aborts
  <1>4. {a \in audit : a[1] = l} = {l} \X (Started(l)..(pay[l].version - 1))
    BY <1>1 DEF AuditInv, AuditTellsAll, Started
  <1>5. req.base \notin Started(l)..(pay[l].version - 1)
    BY <1>3, <1>4
  <1> QED
    BY <1>1, <1>2, <1>5

LEMMA AuditNext == PaymentsInv /\ AuditInv /\ [PaymentsNext]_paymentVars => AuditInv'
  <1> SUFFICES ASSUME PaymentsInv, AuditInv, [PaymentsNext]_paymentVars PROVE AuditInv'
    OBVIOUS
  <1>1. PayTypes /\ ChecksHold
    BY PaymentsTypeParts DEF PaymentsInv
  <1>2. CASE UNCHANGED payVars
    BY <1>2, AuditFrame DEF payVars
  <1>3. ASSUME NEW r \in Requests, NEW act, NEW l \in Legs, NEW party, NEW x,
               Check(r, act, l, party, x)
        PROVE  AuditInv'
    <2>1. /\ UNCHANGED <<pay, audit>>
          /\ request'[r] = [pc |-> "checked", act |-> act, leg |-> l,
                            base |-> pay[l].version, party |-> party, receipt |-> x]
          /\ \A q \in Requests \ {r} : request'[q] = request[q]
      BY <1>1, <1>3 DEF Check, PayTypes, RequestsOK
    <2> QED
      BY <2>1, AuditFrame
  <1>4. ASSUME NEW r \in Requests, CommitFails(r) \/ CleanUp(r) \/ RequestDies(r)
        PROVE  AuditInv'
    <2>1. /\ UNCHANGED <<pay, audit>>
          /\ \A q \in Requests : request'[q].pc = "checked" => request'[q] = request[q]
      BY <1>1, <1>4, NoRequestTypes
         DEF CommitFails, CleanUp, RequestDies, PayTypes, RequestsOK, RequestRow
    <2> QED
      BY <2>1, AuditFrame
  <1>5. ASSUME NEW r \in Requests, commit(r)
        PROVE  AuditInv'
    <2> DEFINE l == request[r].leg
               v == pay[l].version
    <2>1. l \in Legs /\ request[r].base = v /\ v \in Nat
      BY <1>1, <1>5, CommitIsCurrent DEF PayTypes, PayOK, PaymentRow
    <2>2. /\ \A k \in Legs \ {l} : pay'[k] = pay[k]
          /\ pay'[l].version = v + 1
      <3>1. pay' = [pay EXCEPT ![l] = [Updated(request[r]) EXCEPT !.version = v + 1]]
        BY <1>5, <2>1 DEF commit, PayAfter
      <3>2. [Updated(request[r]) EXCEPT !.version = v + 1].version = v + 1
        BY <1>1, <1>5, <2>1, UpdatedTypes DEF commit, PayTypes, RequestsOK
      <3> QED
        BY <1>1, <2>1, <3>1, <3>2 DEF PayTypes, PayOK
    <2>3. audit' = audit \cup {<<l, v>>}
      BY <1>5, <2>1 DEF commit
    <2>4. AuditTellsAll'
      <3> SUFFICES ASSUME NEW k \in Legs
                   PROVE  {a \in audit' : a[1] = k}
                            = {k} \X (PlacedLeg(k).version..(pay'[k].version - 1))
        BY DEF AuditTellsAll, PlacedLeg
      <3>1. {a \in audit : a[1] = k} = {k} \X (Started(k)..(pay[k].version - 1))
        BY DEF AuditInv, AuditTellsAll, Started
      <3>2. CASE k # l
        BY <2>2, <2>3, <3>1, <3>2 DEF Started
      <3>3. CASE k = l
        <4>1. Started(k) \in Nat /\ Started(k) <= v
          BY <3>3, StartedTypes DEF AuditInv
        <4>2. Started(k)..v = (Started(k)..(v - 1)) \cup {v}
          BY <2>1, <4>1
        <4>3. {a \in audit' : a[1] = k} = {a \in audit : a[1] = k} \cup {<<k, v>>}
          BY <2>3, <3>3
        <4>4. {a \in audit' : a[1] = k} = {k} \X (Started(k)..v)
          BY <3>1, <3>3, <4>2, <4>3
        <4>5. pay'[k].version - 1 = v
          BY <2>1, <2>2, <3>3
        <4> QED
          BY <4>4, <4>5 DEF Started
      <3> QED
        BY <3>2, <3>3
    <2>5. \A k \in Legs : Started(k) <= pay'[k].version
      BY <2>1, <2>2, StartedTypes DEF AuditInv
    <2>6. \A q \in Requests : request'[q].pc = "checked" => request'[q] = request[q]
      BY <1>1, <1>5, NoRequestTypes DEF commit, PayTypes, RequestsOK, RequestRow
    <2> QED
      BY <2>4, <2>5, <2>6 DEF AuditInv, Started, PlacedLeg
  <1> QED
    BY <1>2, <1>3, <1>4, <1>5, PayOrMove
       DEF PayStep, chooseMethod, submitProof, reviewPayment

LEMMA AuditInit == PaymentsInit => AuditInv
  <1> SUFFICES ASSUME PaymentsInit PROVE AuditInv
    OBVIOUS
  <1>1. /\ audit = {} /\ \A l \in Legs : pay[l].version = Started(l)
        /\ \A r \in Requests : request[r].pc = "idle"
    BY NoRequestTypes DEF PaymentsInit, Started
  <1>2. \A l \in Legs : Started(l) \in Nat /\ Started(l)..(Started(l) - 1) = {}
    BY StartedTypes
  <1> QED
    BY <1>1, <1>2 DEF AuditInv, AuditTellsAll, Started

\* Every version of a leg has exactly one audit row.
THEOREM AuditTellsEveryChange == PaymentsSpec => []AuditTellsAll
  <1>1. AuditInv => AuditTellsAll
    BY DEF AuditInv
  <1> QED
    BY <1>1, AuditInit, AuditNext, PaymentsInvInit, PaymentsInvNext, PTL DEF PaymentsSpec

-----------------------------------------------------------------------------
(***************************************************************************)
(* Evidence is kept: an object whose submission is under way is no other   *)
(* submission's, so only its own clean-up could delete it, and that looks  *)
(* for the row first.                                                      *)
(***************************************************************************)
Submitting(r) == request[r].pc # "idle" /\ request[r].act = "submit"

\* No two submissions share their object.
Separate ==
  \A q, r \in Requests :
    Submitting(q) /\ Submitting(r) /\ request[q].receipt = request[r].receipt => q = r

EvidenceInv ==
  /\ EvidenceKept
  /\ \A r \in Requests : Submitting(r) => media[request[r].receipt] = "stored"
  /\ \A r \in Requests : request[r].pc = "unsure" => request[r].act = "submit"
  /\ Separate

\* A step that writes no proof and keeps the objects of rows and submissions.
LEMMA EvidenceFrame ==
  ASSUME EvidenceInv, PayTypes, UNCHANGED <<pay, proof>>,
         \A x \in Receipts : proof[x] # Nobody => media'[x] = media[x],
         \A r \in Requests : request'[r].pc = "unsure" => request'[r].act = "submit",
         \A r \in Requests : Submitting(r)' =>
           /\ Submitting(r) /\ request'[r].receipt = request[r].receipt
           /\ media'[request[r].receipt] = media[request[r].receipt]
  PROVE  EvidenceInv'
  <1>1. EvidenceKept'
    BY DEF EvidenceInv, EvidenceKept
  <1>2. \A r \in Requests : Submitting(r)' => media'[request'[r].receipt] = "stored"
    BY DEF EvidenceInv
  <1>3. Separate'
    BY DEF EvidenceInv, Separate
  <1> QED
    BY <1>1, <1>2, <1>3 DEF EvidenceInv

LEMMA EvidenceCheck ==
  ASSUME EvidenceInv, PayTypes, NEW r \in Requests, NEW act, act # "submit", NEW l, NEW party, NEW x,
         Check(r, act, l, party, x), UNCHANGED media
  PROVE  EvidenceInv'
  <1>1. /\ request'[r].act = act /\ request'[r].pc = "checked"
        /\ \A q \in Requests \ {r} : request'[q] = request[q]
    BY DEF Check, PayTypes, RequestsOK
  <1> QED
    BY <1>1, EvidenceFrame DEF Check, Submitting, EvidenceInv

LEMMA EvidenceSubmit ==
  ASSUME EvidenceInv, PayTypes, NEW r \in Requests, NEW l \in Legs, NEW x \in Receipts,
         submitProof(r, l, x)
  PROVE  EvidenceInv'
  <1>1. /\ request'[r].act = "submit" /\ request'[r].receipt = x
        /\ \A q \in Requests \ {r} : request'[q] = request[q]
        /\ media[x] = "none" /\ UNCHANGED <<pay, proof>>
        /\ media'[x] = "stored" /\ \A y \in Receipts \ {x} : media'[y] = media[y]
    BY DEF submitProof, Check, PayTypes, RequestsOK, EvidenceOK
  <1>2. \A q \in Requests \ {r} :
          Submitting(q) => request[q].receipt \in Receipts /\ request[q].receipt # x
    BY <1>1 DEF EvidenceInv, Submitting, PayTypes, RequestsOK
  <1>3. EvidenceKept'
    BY <1>1 DEF EvidenceInv, EvidenceKept
  <1>4. \A q \in Requests : Submitting(q)' => media'[request'[q].receipt] = "stored"
    BY <1>1, <1>2 DEF EvidenceInv, Submitting
  <1>5. Separate'
    BY <1>1, <1>2 DEF EvidenceInv, Submitting, Separate
  <1>6. \A q \in Requests : request'[q].pc = "unsure" => request'[q].act = "submit"
    BY <1>1 DEF EvidenceInv
  <1> QED
    BY <1>3, <1>4, <1>5, <1>6 DEF EvidenceInv

LEMMA EvidenceCommit ==
  ASSUME EvidenceInv, PayTypes, ChecksHold, AuditInv, NEW r \in Requests, commit(r)
  PROVE  EvidenceInv'
  <1> DEFINE req == request[r]
             l == req.leg
             x == req.receipt
  <1>1. /\ l \in Legs /\ req \in RequestRow /\ req.pc = "checked" /\ pay[l] \in PaymentRow
        /\ req.act = "submit" => x \in Receipts
        /\ req.base = pay[l].version
    BY CommitIsCurrent DEF commit, PayTypes, RequestsOK, PayOK
  <1>2. \A q \in Requests : Submitting(q)' => /\ Submitting(q)
                                              /\ request'[q].receipt = request[q].receipt
    BY <1>1, NoRequestTypes DEF commit, Submitting, PayTypes, RequestsOK, RequestRow
  <1>3. /\ UNCHANGED media
        /\ pay' = [pay EXCEPT ![l] = [Updated(req) EXCEPT !.version = req.base + 1]]
        /\ proof' = IF req.act = "submit" THEN [proof EXCEPT ![x] = l] ELSE proof
    BY <1>1 DEF commit, PayAfter
  <1>4. req.act = "submit" => media[x] = "stored" /\ ~KnownImage(x)
    BY <1>1 DEF EvidenceInv, Submitting, commit, Aborts
  <1>5. pay'[l].proof \in {Nobody, pay[l].proof} \/ (req.act = "submit" /\ pay'[l].proof = x)
    <2>1. /\ req.act \in Methods \cup {"submit", "CONFIRM", "REJECT"}
          /\ Updated(req) \in PaymentRow
      BY <1>1, UpdatedRow DEF RequestRow, PayTypes
    <2>2. pay'[l].proof = Updated(req).proof
      BY <1>1, <1>3, <2>1 DEF PaymentRow, PayTypes, PayOK
    <2>3. Updated(req).proof \in {Nobody, pay[l].proof} \/ (req.act = "submit" /\ Updated(req).proof = x)
      BY <1>1, <2>1 DEF Updated, PaymentRow, Methods
    <2> QED
      BY <2>2, <2>3
  <1>6. \A k \in Legs \ {l} : pay'[k] = pay[k]
    BY <1>1, <1>3 DEF PayTypes, PayOK
  <1>7. /\ l # Nobody => \A y \in Receipts : proof[y] # Nobody => proof'[y] = proof[y]
        /\ req.act = "submit" => proof'[x] = l /\ proof[x] = Nobody
        /\ \A y \in Receipts : y # x \/ req.act # "submit" => proof'[y] = proof[y]
    BY <1>1, <1>3, <1>4 DEF PayTypes, EvidenceOK, KnownImage
  <1>8. \A y \in Receipts : proof[y] # Nobody => proof'[y] = proof[y]
    BY <1>7
  <1>9. EvidenceKept'
    <2>1. \A y \in Receipts : proof'[y] # Nobody => media[y] = "stored"
      BY <1>1, <1>4, <1>7 DEF EvidenceInv, EvidenceKept
    <2>2. ASSUME NEW k \in Legs, pay'[k].proof # Nobody
          PROVE  proof'[pay'[k].proof] = k
      <3>1. pay[k].proof \in Receipts \cup {Nobody}
        BY DEF PayTypes, PayOK, PaymentRow
      <3>2. CASE pay'[k].proof = pay[k].proof
        <4>1. pay[k].proof \in Receipts /\ proof[pay[k].proof] = k
          BY <2>2, <3>1, <3>2 DEF EvidenceInv, EvidenceKept
        <4>2. CASE pay[k].proof = x /\ req.act = "submit"
          BY <1>6, <1>7, <3>2, <4>1, <4>2, PaymentsAssumption
        <4>3. CASE ~(pay[k].proof = x /\ req.act = "submit")
          BY <1>7, <3>2, <4>1, <4>3
        <4> QED
          BY <4>2, <4>3
      <3>3. CASE k = l /\ req.act = "submit" /\ pay'[k].proof = x
        BY <1>7, <3>3
      <3> QED
        BY <1>5, <1>6, <2>2, <3>2, <3>3
    <2>3. ASSUME NEW y \in Receipts, NEW z \in Receipts, proof'[y] # Nobody, proof'[z] # Nobody,
                 image[y] = image[z]
          PROVE  y = z
      BY <1>4, <1>7, <2>3 DEF EvidenceInv, EvidenceKept, KnownImage
    <2> QED
      BY <1>3, <2>1, <2>2, <2>3 DEF EvidenceKept
  <1>10. \A q \in Requests : request'[q].pc = "unsure" => request'[q].act = "submit"
    BY <1>1, NoRequestTypes DEF EvidenceInv, commit, PayTypes, RequestsOK, RequestRow
  <1>11. \A q \in Requests : Submitting(q)' => media'[request'[q].receipt] = "stored"
    BY <1>2, <1>3 DEF EvidenceInv
  <1>12. Separate'
    BY <1>2 DEF EvidenceInv, Separate
  <1> QED
    BY <1>9, <1>10, <1>11, <1>12 DEF EvidenceInv

LEMMA EvidenceNext ==
  PaymentsInv /\ AuditInv /\ EvidenceInv /\ [PaymentsNext]_paymentVars => EvidenceInv'
  <1> SUFFICES ASSUME PaymentsInv, AuditInv, EvidenceInv, [PaymentsNext]_paymentVars
               PROVE  EvidenceInv'
    OBVIOUS
  <1>1. PayTypes /\ ChecksHold
    BY PaymentsTypeParts DEF PaymentsInv
  <1>2. CASE UNCHANGED payVars
    BY <1>1, <1>2, EvidenceFrame DEF payVars, Submitting, EvidenceInv
  <1>3. ASSUME NEW r \in Requests, CommitFails(r)
        PROVE  EvidenceInv'
    <2>1. /\ UNCHANGED <<pay, proof, media>>
          /\ \A q \in Requests : Submitting(q)' => /\ Submitting(q)
                                                   /\ request'[q].receipt = request[q].receipt
          /\ \A q \in Requests : request'[q].pc = "unsure" => request'[q].act = "submit"
      BY <1>1, <1>3, NoRequestTypes
         DEF CommitFails, Submitting, PayTypes, RequestsOK, RequestRow, EvidenceInv
    <2> QED
      BY <1>1, <2>1, EvidenceFrame
  <1>4. ASSUME NEW r \in Requests, RequestDies(r)
        PROVE  EvidenceInv'
    <2>1. /\ UNCHANGED <<pay, proof, media>>
          /\ \A q \in Requests : Submitting(q)' => /\ Submitting(q)
                                                   /\ request'[q].receipt = request[q].receipt
          /\ \A q \in Requests : request'[q].pc = "unsure" => request'[q].act = "submit"
      BY <1>1, <1>4, NoRequestTypes DEF RequestDies, Submitting, PayTypes, RequestsOK, EvidenceInv
    <2> QED
      BY <1>1, <2>1, EvidenceFrame
  <1>5. ASSUME NEW r \in Requests, CleanUp(r)
        PROVE  EvidenceInv'
    <2> DEFINE x == request[r].receipt
    <2>1. /\ UNCHANGED <<pay, proof>>
          /\ \A q \in Requests : Submitting(q)' => /\ Submitting(q) /\ q # r
                                                   /\ request'[q].receipt = request[q].receipt
          /\ \A q \in Requests : request'[q].pc = "unsure" => request'[q].act = "submit"
      BY <1>1, <1>5, NoRequestTypes DEF CleanUp, Submitting, PayTypes, RequestsOK, EvidenceInv
    <2>2. \A y \in Receipts : \/ media'[y] = media[y]
                              \/ y = x /\ proof[y] = Nobody
      BY <1>1, <1>5 DEF CleanUp, PayTypes, EvidenceOK
    <2>3. request[r].act = "submit" /\ request[r].pc # "idle"
      BY <1>5 DEF CleanUp, EvidenceInv
    <2>4. \A q \in Requests : Submitting(q) /\ q # r =>
            request[q].receipt # x /\ request[q].receipt \in Receipts
      BY <1>1, <2>3 DEF EvidenceInv, Separate, Submitting, PayTypes, RequestsOK
    <2> QED
      BY <1>1, <2>1, <2>2, <2>4, EvidenceFrame
  <1>6. ASSUME NEW r \in Requests, NEW l \in Legs, NEW method \in Methods, chooseMethod(r, l, method)
        PROVE  EvidenceInv'
    BY <1>1, <1>6, EvidenceCheck DEF chooseMethod, Methods
  <1>7. ASSUME NEW r \in Requests, NEW l \in Legs, NEW decision \in {"CONFIRM", "REJECT"},
               reviewPayment(r, l, decision)
        PROVE  EvidenceInv'
    BY <1>1, <1>7, EvidenceCheck DEF reviewPayment
  <1> QED
    BY <1>1, <1>2, <1>3, <1>4, <1>5, <1>6, <1>7, EvidenceSubmit, EvidenceCommit, PayOrMove
       DEF PayStep

\* No proof row loses its object, shows another leg's receipt or repeats a picture.
THEOREM EvidenceIsKept == PaymentsSpec => []EvidenceKept
  <1>1. PaymentsInit => EvidenceInv
    <2> SUFFICES ASSUME PaymentsInit PROVE EvidenceInv
      OBVIOUS
    <2> USE PaymentsAssumption
    <2>1. \A r \in Requests : ~Submitting(r) /\ request[r].pc # "unsure"
      BY NoRequestTypes DEF PaymentsInit, Submitting
    <2>2. ASSUME NEW x \in Receipts
          PROVE  /\ proof[x] # Nobody <=> x \in CheckoutReceipts
                 /\ x \in CheckoutReceipts => media[x] = "stored"
      <3>1. x \in CheckoutReceipts =>
              MerchantLeg(CHOOSE o \in Orders : checkout[o] = x) \in Legs
        BY DEF CheckoutReceipts, MerchantLeg, Legs, Purposes
      <3> QED
        BY <3>1 DEF PaymentsInit
    <2>3. ASSUME NEW o \in Orders, checkout[o] # Nobody
          PROVE  checkout[o] \in CheckoutReceipts /\ proof[checkout[o]] = MerchantLeg(o)
      <3>1. checkout[o] \in CheckoutReceipts /\ checkout[o] \in Receipts
        BY <2>3 DEF CheckoutReceipts
      <3>2. (CHOOSE p \in Orders : checkout[p] = checkout[o]) = o
        BY <3>1
      <3> QED
        BY <3>1, <3>2 DEF PaymentsInit
    <2>4. ASSUME NEW l \in Legs, pay[l].proof # Nobody
          PROVE  proof[pay[l].proof] = l
      <3>1. pay[l].proof = checkout[l[1]] /\ l[2] = "MERCHANT_ORDER" /\ l[1] \in Orders
        BY <2>4 DEF PaymentsInit, PlacedLeg, Legs
      <3>2. l = MerchantLeg(l[1])
        BY <3>1 DEF MerchantLeg, Legs
      <3> QED
        BY <2>3, <2>4, <3>1, <3>2
    <2>5. ASSUME NEW x \in Receipts, NEW y \in Receipts, proof[x] # Nobody, proof[y] # Nobody,
                 image[x] = image[y]
          PROVE  x = y
      <3>1. PICK o \in Orders : x = checkout[o]
        BY <2>2, <2>5 DEF CheckoutReceipts
      <3>2. PICK p \in Orders : y = checkout[p]
        BY <2>2, <2>5 DEF CheckoutReceipts
      <3> QED
        BY <2>5, <3>1, <3>2
    <2> QED
      BY <2>1, <2>2, <2>4, <2>5 DEF EvidenceInv, EvidenceKept, Separate
  <1>2. PaymentsInit => AuditInv
    BY AuditInit
  <1>3. EvidenceInv => EvidenceKept
    BY DEF EvidenceInv
  <1> QED
    BY <1>1, <1>2, <1>3, AuditNext, EvidenceNext, PaymentsInvInit, PaymentsInvNext, PTL
       DEF PaymentsSpec

-----------------------------------------------------------------------------
(***************************************************************************)
(* A confirmation is of the receipt that was shown: a review whose version *)
(* is still the leg's was decided on the leg as it is.                     *)
(***************************************************************************)
ReviewsShown ==
  \A r \in Requests :
    LET l == request[r].leg IN
    /\ request[r].pc = "checked" /\ request[r].act = "CONFIRM"
    /\ request[r].base = pay[l].version
    => reviewable(l) /\ request[r].receipt = pay[l].proof

\* Reviews stay as they are, or are begun on the leg as it is.
LEMMA ReviewsFrame ==
  ASSUME ReviewsShown, UNCHANGED pay,
         \A r \in Requests : request'[r].pc = "checked" =>
           \/ request'[r] = request[r]
           \/ request'[r].act # "CONFIRM"
           \/ /\ reviewable(request'[r].leg)
              /\ request'[r].receipt = pay[request'[r].leg].proof
  PROVE  ReviewsShown'
  BY DEF ReviewsShown, reviewable, Settled, settledOf

LEMMA ReviewsNext == PaymentsInv /\ ReviewsShown /\ [PaymentsNext]_paymentVars => ReviewsShown'
  <1> SUFFICES ASSUME PaymentsInv, ReviewsShown, [PaymentsNext]_paymentVars PROVE ReviewsShown'
    OBVIOUS
  <1>1. PayTypes /\ ChecksHold
    BY PaymentsTypeParts DEF PaymentsInv
  <1>2. CASE UNCHANGED payVars
    BY <1>2, ReviewsFrame DEF payVars
  <1>3. ASSUME NEW r \in Requests, NEW act, NEW l \in Legs, NEW party, NEW x,
               Check(r, act, l, party, x),
               act = "CONFIRM" => reviewable(l) /\ x = pay[l].proof
        PROVE  ReviewsShown'
    <2>1. /\ UNCHANGED pay
          /\ request'[r] = [pc |-> "checked", act |-> act, leg |-> l,
                            base |-> pay[l].version, party |-> party, receipt |-> x]
          /\ \A q \in Requests \ {r} : request'[q] = request[q]
      BY <1>1, <1>3 DEF Check, PayTypes, RequestsOK
    <2> QED
      BY <1>3, <2>1, ReviewsFrame
  <1>4. ASSUME NEW r \in Requests, CommitFails(r) \/ CleanUp(r) \/ RequestDies(r)
        PROVE  ReviewsShown'
    <2>1. /\ UNCHANGED pay
          /\ \A q \in Requests : request'[q].pc = "checked" => request'[q] = request[q]
      BY <1>1, <1>4, NoRequestTypes
         DEF CommitFails, CleanUp, RequestDies, PayTypes, RequestsOK, RequestRow
    <2> QED
      BY <2>1, ReviewsFrame
  <1>5. ASSUME NEW r \in Requests, commit(r)
        PROVE  ReviewsShown'
    <2> SUFFICES ASSUME NEW q \in Requests,
                        request'[q].pc = "checked", request'[q].act = "CONFIRM",
                        request'[q].base = pay'[request'[q].leg].version
                 PROVE  /\ reviewable(request[q].leg)'
                        /\ request'[q].receipt = pay'[request'[q].leg].proof
      BY DEF ReviewsShown
    <2> DEFINE l == request[q].leg
    <2>1. request'[q] = request[q]
      BY <1>1, <1>5, NoRequestTypes DEF commit, PayTypes, RequestsOK, RequestRow
    <2>2. l \in Legs /\ request[q].base \in Nat /\ pay[l].version \in Nat
      BY <1>1, <2>1 DEF PayTypes, RequestsOK, RequestRow, PayOK, PaymentRow
    <2>3. request[q].base <= pay[l].version
      BY <1>1, <2>1 DEF ChecksHold
    <2>4. pay'[l] = pay[l]
      BY <1>1, <1>5, <2>1, <2>2, <2>3, CommitLegs
    <2>5. reviewable(l) /\ request[q].receipt = pay[l].proof
      BY <2>1, <2>4 DEF ReviewsShown
    <2>6. reviewable(l)'
      BY <2>1, <2>2, <2>4, <2>5 DEF reviewable, Settled, settledOf
    <2> QED
      BY <2>1, <2>4, <2>5, <2>6
  <1>6. ASSUME NEW r \in Requests, PayStep(r)
        PROVE  ReviewsShown'
    <2>1. ASSUME NEW l \in Legs, NEW method \in Methods, chooseMethod(r, l, method)
          PROVE  ReviewsShown'
      BY <1>3, <2>1 DEF chooseMethod, Methods
    <2>2. ASSUME NEW l \in Legs, NEW x \in Receipts, submitProof(r, l, x)
          PROVE  ReviewsShown'
      BY <1>3, <2>2 DEF submitProof
    <2>3. ASSUME NEW l \in Legs, NEW decision, reviewPayment(r, l, decision)
          PROVE  ReviewsShown'
      BY <1>3, <2>3 DEF reviewPayment
    <2> QED
      BY <1>4, <1>5, <1>6, <2>1, <2>2, <2>3 DEF PayStep
  <1> QED
    BY <1>2, <1>6, PayOrMove

LEMMA ReviewConfirms ==
  ASSUME PaymentsInv, AuditInv, ReviewsShown, [PaymentsNext]_paymentVars,
         NEW l \in Legs, pay[l].status # "CONFIRMED", pay'[l].status = "CONFIRMED",
         pay[l].method = "SINPE_MOVIL"
  PROVE  /\ pay[l].status = "AWAITING_VERIFICATION"
         /\ \E r \in Requests : /\ request[r].leg = l /\ request[r].act = "CONFIRM"
                                /\ request[r].receipt = pay[l].proof
  <1>1. PayTypes /\ ChecksHold
    BY PaymentsTypeParts DEF PaymentsInv
  <1>2. PICK r \in Requests : commit(r)
    BY PayOrMove, OnlyCommitPays DEF payVars
  <1> DEFINE req == request[r]
  <1>3. /\ req.leg \in Legs /\ req.base = pay[req.leg].version
        /\ req \in RequestRow /\ req.pc = "checked"
    BY <1>1, <1>2, CommitIsCurrent DEF commit, PayTypes, RequestsOK
  <1>4. pay' = [pay EXCEPT ![req.leg] = [Updated(req) EXCEPT !.version = req.base + 1]]
    BY <1>2, <1>3 DEF commit, PayAfter
  <1>5. req.leg = l
    BY <1>1, <1>3, <1>4 DEF PayTypes, PayOK
  <1>6. pay'[l] = [Updated(req) EXCEPT !.version = req.base + 1]
    BY <1>1, <1>3, <1>4, <1>5 DEF PayTypes, PayOK
  <1>7. Updated(req) \in PaymentRow
    BY <1>1, <1>3, UpdatedRow DEF PayTypes, RequestsOK
  <1>8. Updated(req).status = "CONFIRMED"
    BY <1>6, <1>7 DEF PaymentRow
  <1>9. pay[l] \in PaymentRow /\ req.act \in Methods \cup {"submit", "CONFIRM", "REJECT"}
    BY <1>1, <1>3 DEF PayTypes, PayOK, RequestRow
  <1>10. req.act = "CONFIRM"
    BY <1>5, <1>8, <1>9 DEF Updated, PaymentRow, Methods
  <1> QED
    BY <1>3, <1>5, <1>10 DEF ReviewsShown, reviewable

(***************************************************************************)
(* A transfer is confirmed awaiting its verification, by a request that    *)
(* was shown the receipt it still has.                                     *)
(***************************************************************************)
THEOREM ConfirmationsAreShown == PaymentsSpec => ConfirmedAsShown
  <1>1. PaymentsInit => ReviewsShown
    BY NoRequestTypes DEF PaymentsInit, ReviewsShown
  <1>2. PaymentsInv /\ AuditInv /\ ReviewsShown /\ [PaymentsNext]_paymentVars =>
          [\A l \in Legs :
             /\ pay[l].status # "CONFIRMED" /\ pay'[l].status = "CONFIRMED"
             /\ pay[l].method = "SINPE_MOVIL"
             => /\ pay[l].status = "AWAITING_VERIFICATION"
                /\ \E r \in Requests : /\ request[r].leg = l /\ request[r].act = "CONFIRM"
                                        /\ request[r].receipt = pay[l].proof]_paymentVars
    BY ReviewConfirms
  <1> QED
    BY <1>1, <1>2, ReviewsNext, AuditInit, AuditNext, PaymentsInvInit, PaymentsInvNext, PTL
       DEF PaymentsSpec, ConfirmedAsShown

-----------------------------------------------------------------------------
(***************************************************************************)
(* Each recipient confirms their own transfer, as long as no courier is    *)
(* replaced under one.  An unsettled transfer names who is paid today, and *)
(* a request whose version is still the leg's read that.                   *)
(***************************************************************************)
Transfer(l) == pay[l].method = "SINPE_MOVIL" /\ l \notin Settled

PayeesAgree ==
  /\ \A l \in Legs : Transfer(l) => pay[l].account = payee(l)
  /\ \A r \in Requests : request[r].pc = "checked" =>
       /\ request[r].act = "SINPE_MOVIL" => request[r].party = payee(request[r].leg)
       /\ /\ request[r].act = "CONFIRM" /\ request[r].base = pay[request[r].leg].version
          /\ pay[request[r].leg].method = "SINPE_MOVIL"
          => request[r].party = payee(request[r].leg)

OwnInv == PaymentsInv /\ AuditInv /\ PayeesAgree /\ OwnTransferOnly

LEMMA LegOfOrder == ASSUME NEW l \in Legs PROVE l[1] \in Orders /\ l \in LegsOf(l[1])
  BY DEF Legs, LegsOf

\* What a move, or a driver named, leaves of it.
LEMMA PayeesMove ==
  ASSUME PaymentsInv, PayeesAgree, PayeeStays, UNCHANGED payVars
  PROVE  PayeesAgree'
  <1>1. PayTypes /\ ChecksHold /\ UNCHANGED <<pay, request>> /\ Settled' = Settled
    BY PaymentsTypeParts DEF PaymentsInv, payVars, Settled, settledOf
  <1>2. ASSUME NEW l \in Legs,
               Transfer(l) \/ \E r \in Requests : /\ request[r].pc = "checked"
                                                  /\ request[r].leg = l
                                                  /\ request[r].act = "SINPE_MOVIL"
        PROVE  payee(l)' = payee(l)
    <2>1. CASE l[2] = "MERCHANT_ORDER"
      BY <2>1 DEF payee
    <2>2. CASE l[2] # "MERCHANT_ORDER"
      <3>1. TransferUnderWay(l[1])
        BY <1>2, <2>2, LegOfOrder DEF Transfer, TransferUnderWay
      <3>2. order'[l[1]].courier = order[l[1]].courier
        BY <3>1, LegOfOrder DEF PayeeStays
      <3> QED
        BY <2>2, <3>2 DEF payee
    <2> QED
      BY <2>1, <2>2
  <1>3. \A l \in Legs : Transfer(l)' => pay'[l].account = payee(l)'
    BY <1>1, <1>2 DEF PayeesAgree, Transfer
  <1>4. ASSUME NEW r \in Requests, request[r].pc = "checked", request[r].act = "SINPE_MOVIL"
        PROVE  request[r].party = payee(request[r].leg)'
    <2>1. PICK l \in Legs : l = request[r].leg
      BY <1>1, <1>4 DEF PayTypes, RequestsOK
    <2>2. payee(l)' = payee(l) /\ request[r].party = payee(l)
      BY <1>2, <1>4, <2>1 DEF PayeesAgree
    <2> QED
      BY <1>1, <2>1, <2>2
  <1>5. ASSUME NEW r \in Requests, request[r].pc = "checked", request[r].act = "CONFIRM",
               request[r].base = pay[request[r].leg].version,
               pay[request[r].leg].method = "SINPE_MOVIL"
        PROVE  request[r].party = payee(request[r].leg)'
    <2>1. PICK l \in Legs : l = request[r].leg /\ Transfer(l)
      BY <1>1, <1>5 DEF PayTypes, RequestsOK, ChecksHold, Transfer
    <2>2. payee(l)' = payee(l) /\ request[r].party = payee(l)
      BY <1>2, <1>5, <2>1 DEF PayeesAgree
    <2> QED
      BY <1>1, <2>1, <2>2
  <1> QED
    BY <1>1, <1>3, <1>4, <1>5 DEF PayeesAgree

\* A step of a request that leaves the legs alone: it begins on what they say.
LEMMA PayeesFrame ==
  ASSUME PayeesAgree, UNCHANGED <<pay, order>>,
         \A r \in Requests : request'[r].pc = "checked" =>
           \/ request'[r] = request[r]
           \/ request'[r].act \notin {"SINPE_MOVIL", "CONFIRM"}
           \/ \E l \in Legs : request'[r].leg = l /\ request'[r].party = payee(l)
  PROVE  PayeesAgree'
  <1>1. Settled' = Settled /\ \A l : payee(l)' = payee(l)
    BY DEF Settled, settledOf, payee
  <1>2. \A l \in Legs : Transfer(l)' => pay'[l].account = payee(l)'
    BY <1>1 DEF PayeesAgree, Transfer
  <1> QED
    BY <1>1, <1>2 DEF PayeesAgree

LEMMA PayeesCommit ==
  ASSUME OwnInv, NEW r \in Requests, commit(r)
  PROVE  (PayeesAgree /\ OwnTransferOnly)'
  <1> DEFINE req == request[r]
             new == [Updated(req) EXCEPT !.version = req.base + 1]
  <1>1. PayTypes /\ ChecksHold /\ PaymentsInv /\ AuditInv /\ UNCHANGED order
    BY PaymentsTypeParts DEF OwnInv, PaymentsInv, commit, moveVars
  <1>2. /\ req.leg \in Legs /\ req.base = pay[req.leg].version
        /\ req \in RequestRow /\ req.pc = "checked"
        /\ req.act = "submit" => req.receipt \in Receipts
    BY <1>1, CommitIsCurrent DEF commit, PayTypes, RequestsOK
  <1>3. pay' = [pay EXCEPT ![req.leg] = new]
    BY <1>2 DEF commit, PayAfter
  <1>4. /\ pay'[req.leg] = new /\ \A l \in Legs \ {req.leg} : pay'[l] = pay[l]
    BY <1>1, <1>2, <1>3 DEF PayTypes, PayOK
  <1>5. Updated(req) \in PaymentRow
    BY <1>1, <1>2, UpdatedRow DEF PayTypes
  <1>6. /\ new.method = Updated(req).method /\ new.status = Updated(req).status
        /\ new.account = Updated(req).account /\ new.reviewedBy = Updated(req).reviewedBy
    BY <1>5 DEF PaymentRow
  <1>7. pay[req.leg] \in PaymentRow /\ req.act \in Methods \cup {"submit", "CONFIRM", "REJECT"}
        /\ req.leg \notin Settled
    BY <1>1, <1>2 DEF PayTypes, PayOK, RequestRow, ChecksHold
  <1>8. /\ new.method = "SINPE_MOVIL" => new.account = payee(req.leg)
        /\ new.method = "SINPE_MOVIL" /\ new.status = "CONFIRMED" => new.reviewedBy = payee(req.leg)
    <2>1. pay[req.leg].method = "SINPE_MOVIL" => pay[req.leg].account = payee(req.leg)
      BY <1>2, <1>7 DEF OwnInv, PayeesAgree, Transfer
    <2>2. CASE req.act = "SINPE_MOVIL"
      <3>1. Updated(req).account = req.party /\ Updated(req).status = "AWAITING_PAYMENT"
        BY <1>7, <2>2 DEF Updated, PaymentRow
      <3>2. req.party = payee(req.leg)
        BY <1>2, <2>2 DEF OwnInv, PayeesAgree
      <3> QED
        BY <1>6, <3>1, <3>2
    <2>3. CASE req.act = "CASH"
      BY <1>6, <1>7, <2>3 DEF Updated, PaymentRow
    <2>4. CASE req.act = "CONFIRM"
      <3>1. /\ Updated(req).account = pay[req.leg].account
            /\ Updated(req).method = pay[req.leg].method
            /\ Updated(req).reviewedBy = req.party
        BY <1>7, <2>4 DEF Updated, PaymentRow
      <3>2. pay[req.leg].method = "SINPE_MOVIL" => req.party = payee(req.leg)
        BY <1>2, <2>4 DEF OwnInv, PayeesAgree
      <3> QED
        BY <1>6, <2>1, <3>1, <3>2
    <2>5. CASE req.act \in {"submit", "REJECT"}
      <3>1. /\ Updated(req).account = pay[req.leg].account
            /\ Updated(req).method = pay[req.leg].method
            /\ Updated(req).status # "CONFIRMED"
        BY <1>7, <2>5 DEF Updated, PaymentRow
      <3> QED
        BY <1>6, <2>1, <3>1
    <2> QED
      BY <1>7, <2>2, <2>3, <2>4, <2>5 DEF Methods
  <1> HIDE DEF new
  <1>9. \A l : payee(l)' = payee(l)
    BY <1>1 DEF payee
  <1>10. ASSUME NEW l \in Legs, Transfer(l)' PROVE pay'[l].account = payee(l)'
    <2>1. CASE l = req.leg
      BY <1>4, <1>8, <1>9, <1>10, <2>1 DEF Transfer
    <2>2. CASE l # req.leg
      <3>1. pay'[l] = pay[l]
        BY <1>4, <2>2
      <3>2. Transfer(l)
        BY <1>10, <3>1 DEF Transfer, Settled, settledOf
      <3> QED
        BY <1>9, <3>1, <3>2 DEF OwnInv, PayeesAgree
    <2> QED
      BY <2>1, <2>2
  <1>11. OwnTransferOnly'
    <2> SUFFICES ASSUME NEW l \in Legs, pay'[l].status = "CONFIRMED",
                        pay'[l].method = "SINPE_MOVIL"
                 PROVE  pay'[l].reviewedBy = pay'[l].account
      BY DEF OwnTransferOnly
    <2>1. CASE l = req.leg
      BY <1>4, <1>8, <2>1
    <2>2. CASE l # req.leg
      BY <1>4, <2>2 DEF OwnInv, OwnTransferOnly
    <2> QED
      BY <2>1, <2>2
  <1>12. ASSUME NEW q \in Requests, request'[q].pc = "checked",
                NEW l \in Legs, l = request'[q].leg
         PROVE  /\ request'[q].act = "SINPE_MOVIL" => request'[q].party = payee(l)'
                /\ /\ request'[q].act = "CONFIRM" /\ request'[q].base = pay'[l].version
                   /\ pay'[l].method = "SINPE_MOVIL"
                   => request'[q].party = payee(l)'
    <2>1. request'[q] = request[q]
      BY <1>1, <1>12, NoRequestTypes DEF commit, PayTypes, RequestsOK, RequestRow
    <2>2. request[q].base \in Nat /\ pay[l].version \in Nat /\ request[q].base <= pay[l].version
      BY <1>1, <1>12, <2>1 DEF PayTypes, RequestsOK, RequestRow, PayOK, PaymentRow, ChecksHold
    <2>3. request[q].base = pay'[l].version => pay'[l] = pay[l]
      BY <1>1, <2>2, CommitLegs
    <2>4. /\ request[q].act = "SINPE_MOVIL" => request[q].party = payee(l)
          /\ /\ request[q].act = "CONFIRM" /\ request[q].base = pay[l].version
             /\ pay[l].method = "SINPE_MOVIL"
             => request[q].party = payee(l)
      <3>1. l = request[q].leg /\ request[q].pc = "checked"
        BY <1>12, <2>1
      <3>2. /\ request[q].act = "SINPE_MOVIL" => request[q].party = payee(request[q].leg)
            /\ /\ request[q].act = "CONFIRM" /\ request[q].base = pay[request[q].leg].version
               /\ pay[request[q].leg].method = "SINPE_MOVIL"
               => request[q].party = payee(request[q].leg)
        BY <3>1 DEF OwnInv, PayeesAgree
      <3> QED
        BY <3>1, <3>2
    <2> QED
      BY <1>9, <2>1, <2>3, <2>4
  <1>13. \A q \in Requests : request'[q].pc = "checked" => request'[q].leg \in Legs
    BY <1>1, NoRequestTypes DEF commit, PayTypes, RequestsOK, RequestRow
  <1> QED
    BY <1>10, <1>11, <1>12, <1>13 DEF PayeesAgree

LEMMA OwnNext == OwnInv /\ [PaymentsNext]_paymentVars /\ [PayeeStays]_paymentVars => OwnInv'
  <1> SUFFICES ASSUME OwnInv, [PaymentsNext]_paymentVars, [PayeeStays]_paymentVars
               PROVE  (PayeesAgree /\ OwnTransferOnly)'
    BY PaymentsInvNext, AuditNext DEF OwnInv
  <1>1. PayTypes /\ PaymentsInv /\ PayeesAgree /\ OwnTransferOnly
    BY PaymentsTypeParts DEF OwnInv, PaymentsInv
  <1>2. ASSUME UNCHANGED pay PROVE OwnTransferOnly'
    BY <1>1, <1>2 DEF OwnTransferOnly
  <1>3. CASE UNCHANGED paymentVars
    <2>1. PayeesAgree'
      BY <1>1, <1>3, PayeesFrame DEF paymentVars, payVars, moveVars
    <2> QED
      BY <1>2, <1>3, <2>1 DEF paymentVars, payVars
  <1>4. CASE UNCHANGED payVars /\ PayeeStays
    BY <1>1, <1>2, <1>4, PayeesMove DEF payVars
  <1>5. ASSUME NEW r \in Requests, NEW act, NEW l \in Legs, NEW party, NEW x,
               Check(r, act, l, party, x),
               act \in {"SINPE_MOVIL", "CONFIRM"} => party = payee(l)
        PROVE  PayeesAgree' /\ UNCHANGED pay
    <2>1. /\ UNCHANGED <<pay, order>>
          /\ request'[r] = [pc |-> "checked", act |-> act, leg |-> l,
                            base |-> pay[l].version, party |-> party, receipt |-> x]
          /\ \A q \in Requests \ {r} : request'[q] = request[q]
      BY <1>1, <1>5 DEF Check, PayTypes, RequestsOK, moveVars
    <2> QED
      BY <1>1, <1>5, <2>1, PayeesFrame
  <1>6. ASSUME NEW r \in Requests, CommitFails(r) \/ CleanUp(r) \/ RequestDies(r)
        PROVE  PayeesAgree' /\ UNCHANGED pay
    <2>1. /\ UNCHANGED <<pay, order>>
          /\ \A q \in Requests : request'[q].pc = "checked" => request'[q] = request[q]
      BY <1>1, <1>6, NoRequestTypes
         DEF CommitFails, CleanUp, RequestDies, PayTypes, RequestsOK, RequestRow, moveVars
    <2> QED
      BY <1>1, <2>1, PayeesFrame
  <1>7. ASSUME NEW r \in Requests, PayStep(r), ~commit(r)
        PROVE  PayeesAgree' /\ UNCHANGED pay
    <2>1. ASSUME NEW l \in Legs, NEW method \in Methods, chooseMethod(r, l, method)
          PROVE  PayeesAgree' /\ UNCHANGED pay
      BY <1>5, <2>1 DEF chooseMethod, Methods
    <2>2. ASSUME NEW l \in Legs, NEW x \in Receipts, submitProof(r, l, x)
          PROVE  PayeesAgree' /\ UNCHANGED pay
      BY <1>5, <2>2 DEF submitProof
    <2>3. ASSUME NEW l \in Legs, NEW decision, reviewPayment(r, l, decision)
          PROVE  PayeesAgree' /\ UNCHANGED pay
      BY <1>5, <2>3 DEF reviewPayment
    <2> QED
      BY <1>6, <1>7, <2>1, <2>2, <2>3 DEF PayStep
  <1> QED
    BY <1>2, <1>3, <1>4, <1>7, PayOrMove, PayeesCommit

(***************************************************************************)
(* Who confirmed a transfer is who the leg told the customer to pay, as    *)
(* long as no courier is replaced under a transfer: a courier assigned     *)
(* again is the only way to what the run own_transfer_only finds.          *)
(***************************************************************************)
THEOREM OwnTransfersAreVerified ==
  PaymentsSpec /\ [][PayeeStays]_paymentVars => []OwnTransferOnly
  <1>1. PaymentsInit => PayeesAgree /\ OwnTransferOnly
    <2> SUFFICES ASSUME PaymentsInit PROVE PayeesAgree /\ OwnTransferOnly
      OBVIOUS
    <2>1. pay = [l \in Legs |-> PlacedLeg(l)] /\ \A r \in Requests : request[r].pc = "idle"
      BY NoRequestTypes DEF PaymentsInit
    <2>2. ASSUME NEW l \in Legs
          PROVE  /\ pay[l].method = "SINPE_MOVIL" => pay[l].account = payee(l)
                 /\ pay[l].status # "CONFIRMED"
      BY <2>1 DEF PlacedLeg, payee
    <2> QED
      BY <2>1, <2>2 DEF PayeesAgree, Transfer, OwnTransferOnly
  <1>2. OwnInv => OwnTransferOnly
    BY DEF OwnInv
  <1> QED
    BY <1>1, <1>2, OwnNext, AuditInit, PaymentsInvInit, PTL DEF PaymentsSpec, OwnInv
=============================================================================

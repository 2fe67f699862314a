------------------------------ MODULE PlansProofs ------------------------------
(***************************************************************************)
(* Proofs about Plans, for any shops, plans, cadences, windows and quotas. *)
(*                                                                         *)
(* What a shop is granted is right while no plan changes under a sweep     *)
(* (SweepsApart): a sweep then still knows, when it writes the copies,     *)
(* what it read (Knows).  Whatever else overlaps does no harm: changes and *)
(* assignments write the row and its copy together, and a payment moves a  *)
(* date forward, however old the row it read.  The bound on express orders *)
(* needs no condition: what counts is orders and acceptances together      *)
(* (Counting), against the plans the shop's copy held that day (HeldOK).   *)
(***************************************************************************)
EXTENDS Plans, FiniteSetTheorems, TLAPS

\* A row that charges has its dates.
RowOK(s) == LET row == subscription[s] IN
  row.plan # "FREE" => row.periodEnd > 0 /\ row.createdAt > 0 /\ row.cadence > 0

\* The copy gives no more than the row, and takes nothing from a free one.
CopyOK(s) ==
  /\ business[s].plan \in {"FREE", subscription[s].plan}
  /\ subscription[s].plan = "FREE" => business[s].listed

\* What a sweep read is still so, as far as it matters.
Knows(c) ==
  call[c].pc = "fix" => \A fix \in call[c].fixes :
    /\ fix[2] \in {"FREE", subscription[fix[1]].plan}
    /\ subscription[fix[1]].plan = "FREE" => fix[3]

Granted == /\ \A s \in Shops : RowOK(s) /\ CopyOK(s)
           /\ \A c \in Agents : Knows(c)

\* Acceptances that counted and have not spent.
Counting(s) == {c \in Acceptors : At(c, "accept") /\ call[c].shop = s}

\* A handler's clock is a day that was.
ClocksOK == \A c \in Agents \cup Acceptors : call[c].pc # "idle" => call[c].at \in 1..now

PlansTypes == PlansTypeOK /\ ClocksOK

-----------------------------------------------------------------------------
(***************************************************************************)
(* Types.                                                                  *)
(***************************************************************************)
Callers == Agents \cup Acceptors
CallOK(row, day) == row \in CallRow /\ (row.pc # "idle" => row.at \in 1..day)
CallsOK == call \in [Callers -> CallRow] /\ \A c \in Callers : CallOK(call[c], now)
TablesOK ==
  /\ subscription \in [Shops -> SubscriptionRow]
  /\ business \in [Shops -> [plan : Plan, listed : BOOLEAN]]
  /\ express \in [Shops -> Nat]
  /\ held \in [Shops -> SUBSET Plan]
  /\ now \in 1..Horizon
  /\ swept \in 1..now

LEMMA PlansTypeParts == PlansTypes <=> TablesOK /\ CallsOK
  BY DEF PlansTypes, PlansTypeOK, ClocksOK, TablesOK, CallsOK, CallOK, Callers

LEMMA HorizonType == Horizon \in Nat /\ Horizon > 0 /\ Cadences \subseteq Nat \ {0}
  BY PlansAssumption

LEMMA CadenceType == \A days \in Cadences \cup {0} : days \in Nat
  <1>1. ASSUME NEW days \in Cadences \cup {0}, days # 0 PROVE days \in Nat
    <2>1. days \in Cadences
      BY <1>1
    <2> QED
      BY <2>1, HorizonType
  <1> QED
    BY <1>1

LEMMA NoRowType == NoRow \in SubscriptionRow
  BY HorizonType DEF NoRow, SubscriptionRow, Plan

LEMMA NoCallType == \A day : CallOK(NoCall, day)
  BY NoRowType, HorizonType, PlansAssumption DEF NoCall, CallOK, CallRow

LEMMA NoCallIdle == NoCall.pc = "idle"
  BY DEF NoCall

\* A step that gives one caller a row.
LEMMA CallSteps ==
  ASSUME CallsOK, NEW c \in Callers, NEW row, CallOK(row, now),
         call' = [call EXCEPT ![c] = row], now' = now
  PROVE  CallsOK' /\ call'[c] = row /\ \A d \in Callers \ {c} : call'[d] = call[d]
  BY DEF CallsOK, CallOK

LEMMA OverSteps ==
  ASSUME CallsOK, NEW c \in Callers, Over(c), now' = now
  PROVE  CallsOK' /\ call'[c] = NoCall /\ \A d \in Callers \ {c} : call'[d] = call[d]
  BY NoCallType, CallSteps DEF Over

LEMMA StartSteps ==
  ASSUME TablesOK, CallsOK, NEW c \in Callers, NEW s \in Shops, NEW row \in SubscriptionRow,
         NEW pc \in {"change", "assign", "owed", "fix", "accept"},
         NEW fixes \in SUBSET (Shops \X Plan \X BOOLEAN),
         Start(c, pc, s, row, fixes), now' = now
  PROVE  LET new == [pc |-> pc, shop |-> s, row |-> row, at |-> now, fixes |-> fixes]
         IN CallsOK' /\ call'[c] = new /\ \A d \in Callers \ {c} : call'[d] = call[d]
  <1> DEFINE new == [pc |-> pc, shop |-> s, row |-> row, at |-> now, fixes |-> fixes]
  <1>1. now \in 1..Horizon /\ now \in 1..now /\ now \in 0..Horizon
    BY HorizonType DEF TablesOK
  <1>2. CallOK(new, now)
    BY <1>1 DEF CallOK, CallRow
  <1>3. call' = [call EXCEPT ![c] = new]
    BY DEF Start
  <1> HIDE DEF new
  <1>4. CallsOK' /\ call'[c] = new /\ \A d \in Callers \ {c} : call'[d] = call[d]
    BY <1>2, <1>3, CallSteps
  <1> QED
    BY <1>4 DEF new

\* The copy a row asks for.
LEMMA CopyType ==
  ASSUME NEW row \in SubscriptionRow, NEW day
  PROVE  /\ Copy(row, day) \in [plan : Plan, listed : BOOLEAN]
         /\ Copy(row, day).plan \in {"FREE", row.plan}
         /\ row.plan = "FREE" => Copy(row, day).listed
  <1> DEFINE status == subscriptionStatusAt(row.plan, row, day)
  <1>1. row.plan \in Plan /\ "FREE" \in Plan
    BY DEF SubscriptionRow, Plan
  <1>2. row.plan = "FREE" => status = "ACTIVE"
    BY DEF subscriptionStatusAt
  <1> HIDE DEF status
  <1>3. effectivePlan(row.plan, status) \in {"FREE", row.plan} /\ isListed(status) \in BOOLEAN
        /\ (row.plan = "FREE" => isListed(status))
    BY <1>2 DEF effectivePlan, isListed
  <1>4. Copy(row, day) = [plan |-> effectivePlan(row.plan, status), listed |-> isListed(status)]
    BY DEF Copy, status
  <1> QED
    BY <1>1, <1>3, <1>4

LEMMA SweptFixes ==
  ASSUME TablesOK
  PROVE  {<<s, Copy(subscription[s], now).plan, Copy(subscription[s], now).listed>> :
            s \in {t \in Shops : Drifted(t, now)}} \in SUBSET (Shops \X Plan \X BOOLEAN)
  <1>1. ASSUME NEW s \in Shops
        PROVE  Copy(subscription[s], now).plan \in Plan
               /\ Copy(subscription[s], now).listed \in BOOLEAN
    <2>1. subscription[s] \in SubscriptionRow
      BY DEF TablesOK
    <2> QED
      BY <2>1, CopyType
  <1> QED
    BY <1>1

\* What a sweep leaves: the copy it read for the shops it read, and nothing else.
LEMMA SweepWrites ==
  ASSUME TablesOK, CallsOK, NEW c \in Agents, sweepLapsed(c), NEW s \in Shops
  PROVE  \/ business'[s] = business[s]
         \/ \E fix \in call[c].fixes :
              fix[1] = s /\ business'[s] = [plan |-> fix[2], listed |-> fix[3]]
  <1> DEFINE fix == CHOOSE f \in call[c].fixes : f[1] = s
  <1>1. business'[s] = IF \E f \in call[c].fixes : f[1] = s
                       THEN [plan |-> fix[2], listed |-> fix[3]] ELSE business[s]
    BY DEF sweepLapsed
  <1>2. (\E f \in call[c].fixes : f[1] = s) => fix \in call[c].fixes /\ fix[1] = s
    OBVIOUS
  <1> HIDE DEF fix
  <1> QED
    BY <1>1, <1>2

\* What a handler that places a plan writes.
LEMMA PlaceWrites ==
  ASSUME TablesOK, CallsOK, NEW c \in Agents, call[c].pc # "idle",
         NEW plan \in Plan, NEW cadence \in Cadences \cup {0},
         plan # "FREE" => cadence \in Cadences, Place(c, plan, cadence)
  PROVE  /\ TablesOK' /\ CallsOK' /\ call'[c] = NoCall
         /\ \/ UNCHANGED <<subscription, business>>
            \/ \E s \in Shops, row \in SubscriptionRow :
                 /\ row.plan = plan
                 /\ plan # "FREE" => row.periodEnd > 0 /\ row.createdAt > 0 /\ row.cadence > 0
                 /\ subscription' = [subscription EXCEPT ![s] = row]
                 /\ business' = [business EXCEPT ![s] = [plan |-> plan, listed |-> TRUE]]
  <1> DEFINE s == call[c].shop
             row == Position(plan, cadence, call[c].row, call[c].at)
  <1>1. /\ s \in Shops /\ call[c].row \in SubscriptionRow
        /\ call[c].at \in 1..now /\ call[c].at \in 0..Horizon
    BY DEF CallsOK, CallOK, CallRow, Callers
  <1>2. /\ UNCHANGED <<express, now, swept>> /\ Over(c)
        /\ \/ UNCHANGED <<subscription, business, held>>
           \/ /\ subscription' = [subscription EXCEPT ![s] = row]
              /\ business' = [business EXCEPT ![s] = [plan |-> plan, listed |-> isListed("ACTIVE")]]
              /\ Hold
    BY DEF Place
  <1>3. CallsOK' /\ call'[c] = NoCall
    BY <1>2, OverSteps DEF Callers
  <1>4. /\ row.plan = plan /\ row.cadence = cadence
        /\ row.periodEnd = IF plan = "FREE" THEN 0 ELSE call[c].at + cadence
        /\ row.createdAt = IF call[c].row.createdAt = 0 THEN call[c].at ELSE call[c].row.createdAt
        /\ row = [plan |-> row.plan, cadence |-> row.cadence, periodEnd |-> row.periodEnd,
                  createdAt |-> row.createdAt]
    BY DEF Position
  <1>5. call[c].row.createdAt \in 0..Horizon /\ now \in 1..Horizon
    BY <1>1 DEF SubscriptionRow, TablesOK
  <1> HIDE DEF row, s
  <1>6. /\ row.periodEnd \in Nat /\ row.createdAt \in 0..Horizon /\ row.createdAt > 0
        /\ row.cadence \in Cadences \cup {0}
        /\ plan # "FREE" => row.periodEnd > 0 /\ row.cadence > 0
    BY <1>1, <1>4, <1>5, HorizonType
  <1>7. row \in SubscriptionRow
    BY <1>4, <1>6 DEF SubscriptionRow
  <1>8. isListed("ACTIVE") = TRUE
    BY DEF isListed
  <1>9. subscription' \in [Shops -> SubscriptionRow]
        /\ business' \in [Shops -> [plan : Plan, listed : BOOLEAN]]
    <2>1. [plan |-> plan, listed |-> isListed("ACTIVE")] \in [plan : Plan, listed : BOOLEAN]
      BY <1>8
    <2>2. subscription' \in [Shops -> SubscriptionRow]
      BY <1>1, <1>2, <1>7 DEF TablesOK
    <2>3. business' \in [Shops -> [plan : Plan, listed : BOOLEAN]]
      BY <1>1, <1>2, <2>1 DEF TablesOK
    <2> QED
      BY <2>2, <2>3
  <1>10. held' \in [Shops -> SUBSET Plan]
    BY <1>2, <1>9 DEF Hold, TablesOK
  <1>11. TablesOK'
    BY <1>2, <1>9, <1>10 DEF TablesOK
  <1> QED
    BY <1>1, <1>2, <1>3, <1>4, <1>6, <1>7, <1>8, <1>11

\* The handlers that place a plan, with the position they choose.
LEMMA Places ==
  ASSUME NEW c \in Agents, changePlan(c) \/ assignPlan(c)
  PROVE  /\ call[c].pc # "idle"
         /\ \E plan \in Plan, cadence \in Cadences \cup {0} :
              (plan # "FREE" => cadence \in Cadences) /\ Place(c, plan, cadence)
  <1>0. Priced \subseteq Paid /\ "FREE" \notin Paid
    BY PlansAssumption
  <1>1. CASE changePlan(c)
    <2>1. PICK position \in (Priced \X Cadences) \cup {<<"FREE", 0>>} :
            Place(c, position[1], position[2])
      BY <1>1 DEF changePlan
    <2>2. /\ position[1] \in Plan /\ position[2] \in Cadences \cup {0}
          /\ position[1] # "FREE" => position[2] \in Cadences
      BY <1>0 DEF Plan
    <2> QED
      BY <1>1, <2>1, <2>2 DEF changePlan, At
  <1>2. CASE assignPlan(c)
    BY <1>0, <1>2 DEF assignPlan, At, Plan
  <1> QED
    BY <1>1, <1>2

\* The steps of the handlers that read or write one row.
LEMMA HandlerTypes ==
  ASSUME TablesOK, CallsOK, NEW c \in Agents, HandlerStep(c)
  PROVE  TablesOK' /\ CallsOK'
  <1>0. call[c] \in CallRow /\ c \in Callers
    BY DEF CallsOK, CallOK, Callers
  <1>1. ASSUME NEW s \in Shops, ReadHandler(c, s)
        PROVE  TablesOK' /\ CallsOK'
    <2>1. PICK pc \in {"change", "assign", "owed"} : ReadRow(c, pc, s)
      BY <1>1 DEF ReadHandler, ReadOwed
    <2>2. subscription[s] \in SubscriptionRow
      BY DEF TablesOK
    <2>3. CallsOK'
      BY <1>0, <2>1, <2>2, StartSteps DEF ReadRow
    <2> QED
      BY <2>1, <2>3 DEF ReadRow, TablesOK
  <1>2. CASE changePlan(c) \/ assignPlan(c)
    BY <1>2, Places, PlaceWrites
  <1>3. CASE ReadToRenew(c)
    <2> DEFINE s == call[c].shop
               new == [call[c] EXCEPT !.pc = "renew", !.row = subscription[s]]
    <2>1. s \in Shops /\ subscription[s] \in SubscriptionRow
      BY <1>0 DEF CallRow, TablesOK
    <2>2. call' = [call EXCEPT ![c] = new] /\ call[c].pc = "owed"
      BY <1>0, <1>3 DEF ReadToRenew, At, CallsOK
    <2>3. CallOK(new, now)
      BY <1>0, <2>1, <2>2 DEF CallsOK, CallOK, CallRow
    <2> HIDE DEF new
    <2>4. CallsOK'
      BY <1>0, <1>3, <2>2, <2>3, CallSteps DEF ReadToRenew
    <2> QED
      BY <1>3, <2>4 DEF ReadToRenew, TablesOK
  <1>4. CASE recordPayment(c)
    <2> DEFINE s == call[c].shop
               row == call[c].row
               new == [call[c] EXCEPT !.pc = "audit"]
    <2>1. s \in Shops /\ row \in SubscriptionRow /\ call[c].at \in Nat
      BY <1>0, HorizonType DEF CallRow
    <2>2. call[c].at + row.cadence \in Nat
      <3>1. row.cadence \in Cadences \cup {0}
        BY <2>1 DEF SubscriptionRow
      <3>2. row.cadence \in Nat
        BY <3>1, CadenceType
      <3> QED
        BY <2>1, <3>2
    <2>3. subscription' \in [Shops -> SubscriptionRow]
      BY <1>4, <2>1, <2>2 DEF recordPayment, TablesOK, SubscriptionRow
    <2>4. call' = [call EXCEPT ![c] = new] /\ call[c].pc = "renew"
      BY <1>4 DEF recordPayment, Goto, At
    <2>5. CallOK(new, now)
      BY <1>0, <2>4 DEF CallsOK, CallOK, CallRow
    <2> HIDE DEF new
    <2>6. CallsOK'
      BY <1>0, <1>4, <2>4, <2>5, CallSteps DEF recordPayment
    <2> QED
      BY <1>4, <2>3, <2>6 DEF recordPayment, TablesOK
  <1>5. CASE Audit(c)
    BY <1>0, <1>5, OverSteps DEF Audit, TablesOK
  <1> QED
    BY <1>1, <1>2, <1>3, <1>4, <1>5 DEF HandlerStep

LEMMA SweepTypes ==
  ASSUME TablesOK, CallsOK, NEW c \in Agents, SweepStep(c)
  PROVE  TablesOK' /\ CallsOK'
  <1>0. call[c] \in CallRow /\ c \in Callers
    BY DEF CallsOK, CallOK, Callers
  <1>1. CASE ReadSweep(c)
    <2>1. (CHOOSE s \in Shops : TRUE) \in Shops
      BY PlansAssumption
    <2>2. CallsOK'
      BY <1>0, <1>1, <2>1, NoRowType, SweptFixes, StartSteps DEF ReadSweep
    <2> QED
      BY <1>1, <2>2 DEF ReadSweep, TablesOK
  <1>2. CASE sweepLapsed(c)
    <2>1. \A fix \in call[c].fixes : fix[2] \in Plan /\ fix[3] \in BOOLEAN
      BY <1>0 DEF CallRow
    <2>2. ASSUME NEW s \in Shops PROVE business'[s] \in [plan : Plan, listed : BOOLEAN]
      <3>1. business[s] \in [plan : Plan, listed : BOOLEAN]
        BY DEF TablesOK
      <3>2. \/ business'[s] = business[s]
            \/ \E fix \in call[c].fixes :
                 fix[1] = s /\ business'[s] = [plan |-> fix[2], listed |-> fix[3]]
        BY <1>2, SweepWrites
      <3>3. \A fix \in call[c].fixes :
              [plan |-> fix[2], listed |-> fix[3]] \in [plan : Plan, listed : BOOLEAN]
        BY <2>1
      <3> QED
        BY <3>1, <3>2, <3>3
    <2>3. business' \in [Shops -> [plan : Plan, listed : BOOLEAN]]
      BY <1>2, <2>2 DEF sweepLapsed
    <2>4. call[c].at \in 1..now
      BY <1>0, <1>2 DEF sweepLapsed, At, CallsOK, CallOK
    <2>5. CallsOK'
      BY <1>0, <1>2, OverSteps DEF sweepLapsed
    <2>6. held' \in [Shops -> SUBSET Plan]
      BY <1>2, <2>3 DEF sweepLapsed, Hold, TablesOK
    <2> QED
      BY <1>2, <2>3, <2>4, <2>5, <2>6 DEF sweepLapsed, TablesOK
  <1> QED
    BY <1>1, <1>2 DEF SweepStep

LEMMA ExpressTypes ==
  ASSUME TablesOK, CallsOK, NEW c \in Acceptors, ExpressStep(c)
  PROVE  TablesOK' /\ CallsOK'
  <1>0. call[c] \in CallRow /\ c \in Callers
    BY DEF CallsOK, CallOK, Callers
  <1>1. ASSUME NEW s \in Shops, CountExpress(c, s)
        PROVE  TablesOK' /\ CallsOK'
    <2>1. CallsOK'
      BY <1>0, <1>1, NoRowType, StartSteps DEF CountExpress
    <2> QED
      BY <1>1, <2>1 DEF CountExpress, TablesOK
  <1>2. CASE AcceptExpress(c)
    <2>1. CallsOK'
      BY <1>0, <1>2, OverSteps DEF AcceptExpress
    <2>2. express' \in [Shops -> Nat]
      <3>1. call[c].shop \in Shops
        BY <1>0 DEF CallRow
      <3>2. express[call[c].shop] + 1 \in Nat
        BY <3>1 DEF TablesOK
      <3> QED
        BY <1>2, <3>1, <3>2 DEF AcceptExpress, TablesOK
    <2> QED
      BY <1>2, <2>1, <2>2 DEF AcceptExpress, TablesOK
  <1> QED
    BY <1>1, <1>2 DEF ExpressStep

LEMMA PlansTypesNext == PlansTypes /\ [PlansNext]_plansVars => PlansTypes'
  <1> SUFFICES ASSUME PlansTypes, [PlansNext]_plansVars
               PROVE  TablesOK' /\ CallsOK'
    BY DEF PlansTypes, PlansTypeOK, ClocksOK, TablesOK, CallsOK, CallOK, Callers
  <1>0. TablesOK /\ CallsOK
    BY PlansTypeParts
  <1>1. CASE UNCHANGED plansVars
    BY <1>0, <1>1 DEF plansVars, TablesOK, CallsOK, CallOK
  <1>2. ASSUME NEW c \in Callers, Dies(c)
        PROVE  TablesOK' /\ CallsOK'
    BY <1>0, <1>2, OverSteps DEF Dies, TablesOK
  <1>3. ASSUME NEW s \in Shops, CancelExpress(s)
        PROVE  TablesOK' /\ CallsOK'
    <2>1. express' \in [Shops -> Nat]
      BY <1>0, <1>3 DEF CancelExpress, TablesOK
    <2> QED
      BY <1>0, <1>3, <2>1 DEF CancelExpress, TablesOK, CallsOK
  <1>4. CASE Tomorrow
    <2>1. now' \in 1..Horizon /\ now \in Nat /\ now' = now + 1
      BY <1>0, <1>4, HorizonType DEF Tomorrow, TablesOK
    <2>2. TablesOK'
      BY <1>0, <1>4, <2>1 DEF Tomorrow, TablesOK
    <2>3. ASSUME NEW c \in Callers PROVE CallOK(call'[c], now')
      <3>1. call'[c] = call[c] /\ CallOK(call[c], now)
        BY <1>0, <1>4 DEF Tomorrow, CallsOK
      <3> QED
        BY <2>1, <3>1 DEF CallOK
    <2>4. CallsOK'
      BY <1>0, <1>4, <2>3 DEF Tomorrow, CallsOK
    <2> QED
      BY <2>2, <2>4
  <1> QED
    BY <1>0, <1>1, <1>2, <1>3, <1>4, HandlerTypes, SweepTypes, ExpressTypes
       DEF PlansNext, Callers

LEMMA PlansTypesInit == PlansInit => PlansTypes
  <1> SUFFICES ASSUME PlansInit PROVE TablesOK /\ CallsOK
    BY PlansTypeParts
  <1>1. "FREE" \in Plan
    BY DEF Plan
  <1>2. subscription \in [Shops -> SubscriptionRow]
    BY NoRowType DEF PlansInit
  <1>3. business \in [Shops -> [plan : Plan, listed : BOOLEAN]]
    BY <1>1 DEF PlansInit
  <1>4. express \in [Shops -> Nat] /\ held \in [Shops -> SUBSET Plan]
        /\ now \in 1..Horizon /\ swept \in 1..now
    BY <1>1, HorizonType DEF PlansInit
  <1>5. call = [c \in Callers |-> NoCall]
    BY DEF PlansInit, Callers
  <1>6. CallsOK
    BY <1>5, NoCallType DEF CallsOK, CallOK
  <1> QED
    BY <1>2, <1>3, <1>4, <1>6 DEF TablesOK

\* Every row, count, day and handler keeps its type.
THEOREM PlansTypesCorrect == PlansSpec => []PlansTypeOK
  <1>1. PlansTypes => PlansTypeOK
    BY DEF PlansTypes
  <1> QED
    BY <1>1, PlansTypesInit, PlansTypesNext, PTL DEF PlansSpec

-----------------------------------------------------------------------------
(***************************************************************************)
(* What a shop is granted, when no plan changes under a sweep.             *)
(***************************************************************************)

\* A step that writes no subscription and no business, and after which every
\* sweep knows what it knew.
LEMMA GrantedFrame ==
  ASSUME Granted, UNCHANGED <<subscription, business>>,
         \A c \in Agents : call'[c] = call[c] \/ Knows(c)'
  PROVE  Granted'
  <1>1. \A s \in Shops : RowOK(s)' /\ CopyOK(s)'
    BY DEF Granted, RowOK, CopyOK
  <1>2. \A c \in Agents : Knows(c)'
    BY DEF Granted, Knows
  <1> QED
    BY <1>1, <1>2 DEF Granted

\* A handler that is over, or has asked nothing yet, relies on nothing.
LEMMA NothingToKnow ==
  ASSUME NEW c \in Agents, call'[c].pc # "fix"
  PROVE  Knows(c)'
  BY DEF Knows

\* A placement.  The sweeps under way have not read its shop.
LEMMA GrantedPlaces ==
  ASSUME TablesOK, CallsOK, Granted, SweepsApart, NEW c \in Agents,
         changePlan(c) \/ assignPlan(c)
  PROVE  Granted'
  <1>1. call[c].pc \in {"change", "assign"} /\ c \in Callers
    BY DEF changePlan, assignPlan, At, Callers
  <1>2. PICK plan \in Plan, cadence \in Cadences \cup {0} :
          (plan # "FREE" => cadence \in Cadences) /\ Place(c, plan, cadence)
    BY Places
  <1> DEFINE s == call[c].shop
  <1>3. /\ call'[c].pc # "fix" /\ \A d \in Callers \ {c} : call'[d] = call[d]
        /\ \/ UNCHANGED <<subscription, business>>
           \/ \E t \in Shops, row \in SubscriptionRow :
                /\ row.plan = plan
                /\ plan # "FREE" => row.periodEnd > 0 /\ row.createdAt > 0 /\ row.cadence > 0
                /\ subscription' = [subscription EXCEPT ![t] = row]
                /\ business' = [business EXCEPT ![t] = [plan |-> plan, listed |-> TRUE]]
    <2>1. Over(c) /\ now' = now
      BY <1>2 DEF Place
    <2> QED
      BY <1>1, <1>2, <2>1, PlaceWrites, OverSteps, NoCallIdle
  <1>4. \A t \in Shops : t # s => subscription'[t] = subscription[t]
    <2>1. \/ UNCHANGED subscription
          \/ \E row : subscription' = [subscription EXCEPT ![s] = row]
      BY <1>2 DEF Place
    <2> QED
      BY <2>1 DEF TablesOK
  <1>5. ASSUME NEW d \in Agents PROVE Knows(d)'
    <2>1. CASE d = c
      BY <1>3, <2>1, NothingToKnow
    <2>2. CASE d # c /\ call[d].pc = "fix"
      <3>1. call'[d] = call[d]
        BY <1>3, <2>2 DEF Callers
      <3>2. \A fix \in call[d].fixes : fix[1] # s /\ fix[1] \in Shops
        BY <1>1, <2>2 DEF SweepsApart, At, CallsOK, CallOK, CallRow, Callers
      <3>3. \A fix \in call[d].fixes : subscription'[fix[1]] = subscription[fix[1]]
        BY <1>4, <3>2
      <3> QED
        BY <3>1, <3>3 DEF Granted, Knows
    <2>3. CASE d # c /\ call[d].pc # "fix"
      BY <1>3, <2>3, NothingToKnow DEF Callers
    <2> QED
      BY <2>1, <2>2, <2>3
  <1>6. CASE UNCHANGED <<subscription, business>>
    BY <1>5, <1>6, GrantedFrame
  <1>7. ASSUME NEW t \in Shops, NEW row \in SubscriptionRow,
               /\ row.plan = plan
               /\ plan # "FREE" => row.periodEnd > 0 /\ row.createdAt > 0 /\ row.cadence > 0
               /\ subscription' = [subscription EXCEPT ![t] = row]
               /\ business' = [business EXCEPT ![t] = [plan |-> plan, listed |-> TRUE]]
        PROVE  Granted'
    <2>1. ASSUME NEW u \in Shops PROVE RowOK(u)' /\ CopyOK(u)'
      <3>1. CASE u = t
        BY <1>7, <3>1 DEF RowOK, CopyOK, TablesOK
      <3>2. CASE u # t
        BY <1>7, <3>2 DEF RowOK, CopyOK, TablesOK, Granted
      <3> QED
        BY <3>1, <3>2
    <2> QED
      BY <1>5, <2>1 DEF Granted
  <1> QED
    BY <1>3, <1>6, <1>7

\* A payment moves the end of the period alone, to a day after the first.
LEMMA GrantedRenews ==
  ASSUME TablesOK, CallsOK, Granted, NEW c \in Agents, recordPayment(c)
  PROVE  Granted'
  <1>0. /\ call[c].shop \in Shops /\ call[c].pc = "renew" /\ call[c].at \in 1..now /\ now \in Nat
        /\ c \in Callers /\ call[c].row \in SubscriptionRow
    BY HorizonType DEF recordPayment, At, CallsOK, CallOK, CallRow, Callers, TablesOK
  <1>1. PICK s \in Shops : s = call[c].shop
    BY <1>0
  <1>. DEFINE day == call[c].at + call[c].row.cadence
  <1>2. day \in Nat /\ day > 0
    <2>1. call[c].row.cadence \in Cadences \cup {0}
      BY <1>0 DEF SubscriptionRow
    <2>2. call[c].row.cadence \in Nat
      BY <2>1, CadenceType
    <2> QED
      BY <1>0, <2>2
  <1>3. /\ business' = business
        /\ subscription' = [subscription EXCEPT ![s] = [@ EXCEPT !.periodEnd = day]]
    BY <1>1 DEF recordPayment
  <1>. HIDE DEF day
  <1>4. /\ subscription'[s].plan = subscription[s].plan
        /\ subscription'[s].createdAt = subscription[s].createdAt
        /\ subscription'[s].cadence = subscription[s].cadence
        /\ subscription'[s].periodEnd > 0
        /\ \A t \in Shops \ {s} : subscription'[t] = subscription[t]
    BY <1>2, <1>3 DEF TablesOK, SubscriptionRow
  <1>5. ASSUME NEW t \in Shops PROVE RowOK(t)' /\ CopyOK(t)' /\ subscription'[t].plan = subscription[t].plan
    <2>1. CASE t = s
      BY <1>3, <1>4, <2>1 DEF RowOK, CopyOK, Granted
    <2>2. CASE t # s
      BY <1>3, <1>4, <2>2 DEF RowOK, CopyOK, Granted
    <2> QED
      BY <2>1, <2>2
  <1>6. call'[c].pc = "audit" /\ \A d \in Callers \ {c} : call'[d] = call[d]
    BY <1>0 DEF recordPayment, Goto, CallsOK, CallRow, CallOK
  <1>7. ASSUME NEW d \in Agents PROVE Knows(d)'
    <2>1. CASE d = c
      BY <1>6, <2>1, NothingToKnow
    <2>2. CASE d # c
      <3>1. call'[d] = call[d] /\ d \in Callers
        BY <1>6, <2>2 DEF Callers
      <3>2. \A fix \in call[d].fixes : fix[1] \in Shops
        BY <3>1 DEF CallsOK, CallOK, CallRow
      <3> QED
        BY <1>5, <3>1, <3>2 DEF Granted, Knows
    <2> QED
      BY <2>1, <2>2
  <1> QED
    BY <1>5, <1>7 DEF Granted

\* The sweep writes copies of rows as they are.
LEMMA GrantedSweeps ==
  ASSUME TablesOK, CallsOK, Granted, NEW c \in Agents, sweepLapsed(c)
  PROVE  Granted'
  <1>1. call[c].pc = "fix" /\ subscription' = subscription /\ now' = now /\ Over(c)
    BY DEF sweepLapsed, At
  <1>2. call'[c].pc # "fix" /\ \A d \in Callers \ {c} : call'[d] = call[d]
    BY <1>1, OverSteps, NoCallIdle DEF Callers
  <1>3. ASSUME NEW s \in Shops PROVE RowOK(s)' /\ CopyOK(s)'
    <2>1. CASE business'[s] = business[s]
      BY <1>1, <2>1 DEF Granted, RowOK, CopyOK
    <2>2. ASSUME NEW fix \in call[c].fixes, fix[1] = s,
                 business'[s] = [plan |-> fix[2], listed |-> fix[3]]
          PROVE  RowOK(s)' /\ CopyOK(s)'
      <3>1. fix[2] \in {"FREE", subscription[s].plan} /\ (subscription[s].plan = "FREE" => fix[3])
        BY <1>1, <2>2 DEF Granted, Knows
      <3> QED
        BY <1>1, <2>2, <3>1 DEF Granted, RowOK, CopyOK
    <2> QED
      BY <2>1, <2>2, SweepWrites
  <1>4. ASSUME NEW d \in Agents PROVE Knows(d)'
    <2>1. CASE d = c
      BY <1>2, <2>1, NothingToKnow
    <2>2. CASE d # c
      BY <1>1, <1>2, <2>2 DEF Granted, Knows, Callers
    <2> QED
      BY <2>1, <2>2
  <1> QED
    BY <1>3, <1>4 DEF Granted

\* What a sweep comes to rely on.
LEMMA SweepKnows ==
  ASSUME TablesOK, CallsOK, NEW c \in Agents, ReadSweep(c)
  PROVE  Knows(c)'
  <1> DEFINE fixes == {<<s, Copy(subscription[s], now).plan, Copy(subscription[s], now).listed>> :
                         s \in {t \in Shops : Drifted(t, now)}}
  <1>1. call'[c].fixes = fixes /\ subscription' = subscription
    BY DEF ReadSweep, Start, CallsOK, Callers
  <1>2. ASSUME NEW fix \in fixes
        PROVE  /\ fix[2] \in {"FREE", subscription[fix[1]].plan}
               /\ subscription[fix[1]].plan = "FREE" => fix[3]
    <2>1. PICK s \in Shops :
            fix = <<s, Copy(subscription[s], now).plan, Copy(subscription[s], now).listed>>
      BY <1>2
    <2>2. subscription[s] \in SubscriptionRow
      BY DEF TablesOK
    <2>3. /\ Copy(subscription[s], now).plan \in {"FREE", subscription[s].plan}
          /\ subscription[s].plan = "FREE" => Copy(subscription[s], now).listed
      BY <2>2, CopyType
    <2> QED
      BY <2>1, <2>3
  <1> HIDE DEF fixes
  <1> QED
    BY <1>1, <1>2 DEF Knows

LEMMA GrantedReads ==
  ASSUME TablesOK, CallsOK, Granted, NEW c \in Agents,
         \/ \E s \in Shops : ReadHandler(c, s)
         \/ ReadToRenew(c) \/ ReadSweep(c)
  PROVE  Granted'
  <1>0. c \in Callers /\ call \in [Callers -> CallRow]
    BY DEF Callers, CallsOK
  <1>1. UNCHANGED <<subscription, business>>
    BY DEF ReadHandler, ReadRow, ReadOwed, ReadToRenew, ReadSweep
  <1>2. \A d \in Callers \ {c} : call'[d] = call[d]
    BY <1>0 DEF ReadHandler, ReadRow, ReadOwed, ReadToRenew, ReadSweep, Start
  <1>3. ASSUME NEW s \in Shops, ReadHandler(c, s)
        PROVE  Knows(c)'
    <2>1. PICK pc \in {"change", "assign", "owed"} : ReadRow(c, pc, s)
      BY <1>3 DEF ReadHandler, ReadOwed
    <2>2. call'[c].pc = pc
      BY <1>0, <2>1 DEF ReadRow, Start
    <2> QED
      BY <2>2, NothingToKnow
  <1>4. ASSUME ReadToRenew(c)
        PROVE  Knows(c)'
    <2>1. call'[c].pc = "renew"
      BY <1>0, <1>4 DEF ReadToRenew, CallRow
    <2> QED
      BY <2>1, NothingToKnow
  <1>5. Knows(c)'
    BY <1>3, <1>4, SweepKnows
  <1> QED
    BY <1>1, <1>2, <1>5, GrantedFrame DEF Callers

LEMMA GrantedNext == PlansTypes /\ SweepsApart /\ Granted /\ [PlansNext]_plansVars => Granted'
  <1> SUFFICES ASSUME PlansTypes, SweepsApart, Granted, [PlansNext]_plansVars
               PROVE  Granted'
    OBVIOUS
  <1>0. TablesOK /\ CallsOK
    BY PlansTypeParts
  <1>1. CASE UNCHANGED plansVars
    BY <1>1, GrantedFrame DEF plansVars
  <1>2. ASSUME NEW c \in Agents, HandlerStep(c) \/ SweepStep(c)
        PROVE  Granted'
    <2>1. CASE (\E s \in Shops : ReadHandler(c, s)) \/ ReadToRenew(c) \/ ReadSweep(c)
      BY <1>0, <2>1, GrantedReads
    <2>2. CASE changePlan(c) \/ assignPlan(c)
      BY <1>0, <2>2, GrantedPlaces
    <2>3. CASE recordPayment(c)
      BY <1>0, <2>3, GrantedRenews
    <2>4. CASE sweepLapsed(c)
      BY <1>0, <2>4, GrantedSweeps
    <2>5. CASE Audit(c)
      <3>1. /\ UNCHANGED <<subscription, business>> /\ call'[c].pc # "fix"
            /\ \A d \in Callers \ {c} : call'[d] = call[d]
        BY <1>0, <2>5, OverSteps, NoCallIdle DEF Audit, Callers
      <3> QED
        BY <3>1, GrantedFrame, NothingToKnow DEF Callers
    <2> QED
      BY <1>2, <2>1, <2>2, <2>3, <2>4, <2>5 DEF HandlerStep, SweepStep
  <1>3. ASSUME NEW c \in Callers, Dies(c)
        PROVE  Granted'
    <2>1. /\ UNCHANGED <<subscription, business>> /\ call'[c].pc = "idle"
          /\ \A d \in Callers \ {c} : call'[d] = call[d]
      BY <1>0, <1>3, OverSteps, NoCallIdle DEF Dies
    <2> QED
      BY <2>1, GrantedFrame, NothingToKnow DEF Callers
  <1>4. ASSUME NEW c \in Acceptors, ExpressStep(c)
        PROVE  Granted'
    <2>1. UNCHANGED <<subscription, business>> /\ c \in Callers
      BY <1>4 DEF ExpressStep, CountExpress, AcceptExpress, Callers
    <2>2. call'[c].pc \in {"accept", "idle"} /\ \A d \in Callers \ {c} : call'[d] = call[d]
      <3>1. ASSUME NEW s \in Shops, CountExpress(c, s)
            PROVE  call'[c].pc = "accept" /\ \A d \in Callers \ {c} : call'[d] = call[d]
        BY <1>0, <2>1, <3>1 DEF CountExpress, Start, CallsOK
      <3>2. CASE AcceptExpress(c)
        BY <1>0, <2>1, <3>2, OverSteps, NoCallIdle DEF AcceptExpress
      <3> QED
        BY <1>4, <3>1, <3>2 DEF ExpressStep
    <2> QED
      BY <2>1, <2>2, GrantedFrame, NothingToKnow DEF Callers
  <1>5. ASSUME (\E s \in Shops : CancelExpress(s)) \/ Tomorrow
        PROVE  Granted'
    BY <1>5, GrantedFrame DEF CancelExpress, Tomorrow
  <1> QED
    BY <1>1, <1>2, <1>3, <1>4, <1>5 DEF PlansNext, Callers

LEMMA GrantedInit == PlansInit => Granted
  BY DEF PlansInit, Granted, RowOK, CopyOK, Knows, NoRow, NoCall

\* The plan a request is granted is one the row pays for.
LEMMA GrantedIsPaid == PlansTypes /\ Granted => AccessIsPaidFor /\ FreeShopIsListed
  <1> SUFFICES ASSUME PlansTypes, Granted PROVE AccessIsPaidFor /\ FreeShopIsListed
    OBVIOUS
  <1>0. TablesOK
    BY PlansTypeParts
  <1>1. FreeShopIsListed
    BY DEF Granted, CopyOK, FreeShopIsListed
  <1>2. ASSUME NEW s \in Shops, loadBilling(s) # "FREE"
        PROVE  loadBilling(s) = subscription[s].plan /\ now < subscription[s].periodEnd + GraceDays
    <2> DEFINE row == subscription[s]
               plan == business[s].plan
               status == subscriptionStatusAt(plan, row, now)
    <2>1. /\ row.periodEnd \in Nat /\ row.createdAt \in Nat /\ row.plan \in Plan
          /\ now \in Nat /\ GraceDays \in Nat /\ HiddenDays \in Nat
          /\ GraceDays < HiddenDays
      BY <1>0, HorizonType, PlansAssumption DEF TablesOK, SubscriptionRow
    <2>2. plan \in {"FREE", row.plan}
      BY DEF Granted, CopyOK
    <2>3. row.plan # "FREE" => row.periodEnd > 0 /\ row.createdAt > 0
      BY DEF Granted, RowOK
    <2>4. loadBilling(s) = IF row.createdAt = 0 THEN plan ELSE effectivePlan(plan, status)
      BY DEF loadBilling
    <2>5. plan # "FREE" /\ plan = row.plan
      BY <1>2, <2>2, <2>4 DEF effectivePlan
    <2>6. row.createdAt # 0 /\ row.periodEnd # 0
      BY <2>1, <2>3, <2>5
    <2>7. loadBilling(s) = effectivePlan(plan, status)
      BY <2>4, <2>6
    <2>8. grantsFullAccess(status) /\ loadBilling(s) = plan
      BY <1>2, <2>7 DEF effectivePlan
    <2>9. status \in {"ACTIVE", "GRACE"}
      BY <2>8 DEF grantsFullAccess
    <2>10. row.periodEnd > now \/ now < row.periodEnd + GraceDays
      BY <2>5, <2>6, <2>9 DEF subscriptionStatusAt
    <2> QED
      BY <2>1, <2>5, <2>8, <2>10, PlansAssumption
  <1> QED
    BY <1>1, <1>2 DEF AccessIsPaidFor

(***************************************************************************)
(* While no plan changes under a sweep, no tier is granted that is not     *)
(* held and paid for, on any day of any calendar, and with any number of   *)
(* changes, payments and sweeps in flight.                                 *)
(***************************************************************************)
THEOREM TiersArePaidFor == PlansSpec /\ []SweepsApart => []AccessIsPaidFor
  <1>1. PlansTypes /\ Granted => AccessIsPaidFor
    BY GrantedIsPaid
  <1>2. PlansTypes /\ SweepsApart /\ Granted /\ [PlansNext]_plansVars => (PlansTypes /\ Granted)'
    BY PlansTypesNext, GrantedNext
  <1> QED
    BY <1>1, <1>2, PlansTypesInit, GrantedInit, PTL DEF PlansSpec

\* And a shop that moved to the free tier stays in the feed.
THEOREM FreeShopsAreListed == PlansSpec /\ []SweepsApart => []FreeShopIsListed
  <1>1. PlansTypes /\ Granted => FreeShopIsListed
    BY GrantedIsPaid
  <1>2. PlansTypes /\ SweepsApart /\ Granted /\ [PlansNext]_plansVars => (PlansTypes /\ Granted)'
    BY PlansTypesNext, GrantedNext
  <1> QED
    BY <1>1, <1>2, PlansTypesInit, GrantedInit, PTL DEF PlansSpec

-----------------------------------------------------------------------------
(***************************************************************************)
(* A shop out of the feed, and one that a sweep is about to take out of    *)
(* it, owes: nothing but a payment that comes too late starts its period   *)
(* and leaves the copy as it is.                                           *)
(***************************************************************************)
Lapsed(s) == subscription[s].periodEnd <= now
HidesLapsed(c) == call[c].pc = "fix" => \A fix \in call[c].fixes : fix[3] \/ Lapsed(fix[1])

HiddenOwe == /\ \A s \in Shops : business[s].listed \/ Lapsed(s)
             /\ \A c \in Agents : HidesLapsed(c)

\* A shop is found lapsed on every later day as long as nobody writes its row.
LEMMA LapsedStays ==
  ASSUME TablesOK, TablesOK', now' = now \/ now' = now + 1, NEW s \in Shops,
         subscription'[s] = subscription[s], Lapsed(s)
  PROVE  Lapsed(s)'
  <1>1. subscription[s].periodEnd \in Nat /\ now \in Nat
    BY HorizonType DEF TablesOK, SubscriptionRow
  <1> QED
    BY <1>1 DEF Lapsed

LEMMA HiddenFrame ==
  ASSUME TablesOK, TablesOK', CallsOK, HiddenOwe, now' = now \/ now' = now + 1,
         UNCHANGED <<subscription, business>>,
         \A c \in Agents : call'[c] = call[c] \/ HidesLapsed(c)'
  PROVE  HiddenOwe'
  <1>1. \A s \in Shops : business'[s].listed \/ Lapsed(s)'
    BY LapsedStays DEF HiddenOwe
  <1>2. ASSUME NEW c \in Agents PROVE HidesLapsed(c)'
    <2>1. \A fix \in call[c].fixes : fix[1] \in Shops
      BY DEF CallsOK, CallOK, CallRow, Callers
    <2> QED
      BY <2>1, LapsedStays DEF HiddenOwe, HidesLapsed
  <1> QED
    BY <1>1, <1>2 DEF HiddenOwe

\* What a sweep takes out of the feed was found overdue.
LEMMA SweepHides ==
  ASSUME TablesOK, CallsOK, NEW c \in Agents, ReadSweep(c)
  PROVE  HidesLapsed(c)'
  <1> DEFINE fixes == {<<s, Copy(subscription[s], now).plan, Copy(subscription[s], now).listed>> :
                         s \in {t \in Shops : Drifted(t, now)}}
  <1>1. call'[c].fixes = fixes /\ UNCHANGED <<subscription, now>>
    BY DEF ReadSweep, Start, CallsOK, Callers
  <1>2. ASSUME NEW fix \in fixes PROVE Lapsed(fix[1])
    <2>1. PICK s \in Shops : Drifted(s, now) /\ fix[1] = s
      BY <1>2
    <2>2. now \in Nat
      BY HorizonType DEF TablesOK
    <2> QED
      BY <2>1, <2>2 DEF Drifted, Swept, Lapsed
  <1> HIDE DEF fixes
  <1> QED
    BY <1>1, <1>2 DEF HidesLapsed, Lapsed

LEMMA HiddenPlaces ==
  ASSUME TablesOK, CallsOK, TablesOK', HiddenOwe, SweepsApart, NEW c \in Agents,
         changePlan(c) \/ assignPlan(c)
  PROVE  HiddenOwe'
  <1>1. call[c].pc \in {"change", "assign"} /\ c \in Callers
    BY DEF changePlan, assignPlan, At, Callers
  <1>2. PICK plan \in Plan, cadence \in Cadences \cup {0} : Place(c, plan, cadence)
    BY Places
  <1> DEFINE s == call[c].shop
  <1>3. Over(c) /\ now' = now
    BY <1>2 DEF Place
  <1>4. call'[c].pc # "fix" /\ \A d \in Callers \ {c} : call'[d] = call[d]
    BY <1>1, <1>3, OverSteps, NoCallIdle
  <1>5. \A t \in Shops : \/ subscription'[t] = subscription[t] /\ business'[t] = business[t]
                         \/ t = s /\ business'[t].listed
    <2>1. isListed("ACTIVE")
      BY DEF isListed
    <2>2. \/ UNCHANGED <<subscription, business>>
          \/ /\ \E row : subscription' = [subscription EXCEPT ![s] = row]
             /\ business' = [business EXCEPT ![s] = [plan |-> plan, listed |-> isListed("ACTIVE")]]
      BY <1>2 DEF Place
    <2> QED
      BY <2>1, <2>2 DEF TablesOK
  <1>6. \A t \in Shops : business'[t].listed \/ Lapsed(t)'
    BY <1>3, <1>5, LapsedStays DEF HiddenOwe
  <1>7. ASSUME NEW d \in Agents PROVE HidesLapsed(d)'
    <2>1. CASE d = c \/ call[d].pc # "fix"
      BY <1>4, <2>1 DEF HidesLapsed, Callers
    <2>2. CASE d # c /\ call[d].pc = "fix"
      <3>1. call'[d] = call[d]
        BY <1>4, <2>2 DEF Callers
      <3>2. \A fix \in call[d].fixes : fix[1] # s /\ fix[1] \in Shops
        BY <1>1, <2>2 DEF SweepsApart, At, CallsOK, CallOK, CallRow, Callers
      <3>3. \A fix \in call[d].fixes : fix[3] \/ Lapsed(fix[1])'
        <4>1. \A fix \in call[d].fixes : subscription'[fix[1]] = subscription[fix[1]]
          BY <1>5, <3>2
        <4>2. \A fix \in call[d].fixes : fix[3] \/ Lapsed(fix[1])
          BY <2>2 DEF HiddenOwe, HidesLapsed
        <4> QED
          BY <1>3, <3>2, <4>1, <4>2, LapsedStays
      <3> QED
        BY <3>1, <3>3 DEF HidesLapsed
    <2> QED
      BY <2>1, <2>2
  <1> QED
    BY <1>6, <1>7 DEF HiddenOwe

\* A payment in time is for a shop that is in the feed and stays there.
LEMMA HiddenRenews ==
  ASSUME TablesOK, CallsOK, TablesOK', HiddenOwe, PaidInTime, NEW c \in Agents, recordPayment(c)
  PROVE  HiddenOwe'
  <1> DEFINE s == call[c].shop
  <1>1. /\ At(c, "renew") /\ c \in Callers /\ call \in [Callers -> CallRow]
        /\ UNCHANGED <<business, now>> /\ Goto(c, "audit")
    BY DEF recordPayment, CallsOK, Callers
  <1>2. \A t \in Shops : t # s => subscription'[t] = subscription[t]
    BY DEF recordPayment, TablesOK
  <1>3. business[s].listed
    BY <1>1 DEF PaidInTime
  <1>4. \A t \in Shops : business'[t].listed \/ Lapsed(t)'
    BY <1>1, <1>2, <1>3, LapsedStays DEF HiddenOwe
  <1>5. call'[c].pc = "audit" /\ \A d \in Callers \ {c} : call'[d] = call[d]
    BY <1>1 DEF Goto, CallRow
  <1>6. ASSUME NEW d \in Agents, call'[d].pc = "fix", NEW fix \in call'[d].fixes
        PROVE  fix[3] \/ Lapsed(fix[1])'
    <2>1. call'[d] = call[d] /\ d \in Callers
      BY <1>5, <1>6 DEF Callers
    <2>2. fix[1] \in Shops
      BY <1>6, <2>1 DEF CallsOK, CallOK, CallRow
    <2>3. fix[1] = s => fix[3]
      BY <1>1, <1>6, <2>1 DEF PaidInTime, At
    <2>4. fix[3] \/ Lapsed(fix[1])
      BY <1>6, <2>1 DEF HiddenOwe, HidesLapsed
    <2> QED
      BY <1>1, <1>2, <2>2, <2>3, <2>4, LapsedStays
  <1> QED
    BY <1>4, <1>6 DEF HiddenOwe, HidesLapsed

LEMMA HiddenSweeps ==
  ASSUME TablesOK, CallsOK, TablesOK', HiddenOwe, NEW c \in Agents, sweepLapsed(c)
  PROVE  HiddenOwe'
  <1>1. call[c].pc = "fix" /\ UNCHANGED <<subscription, now>> /\ Over(c)
    BY DEF sweepLapsed, At
  <1>2. call'[c].pc # "fix" /\ \A d \in Callers \ {c} : call'[d] = call[d]
    BY <1>1, OverSteps, NoCallIdle DEF Callers
  <1>3. ASSUME NEW s \in Shops PROVE business'[s].listed \/ Lapsed(s)'
    <2>1. business[s].listed \/ Lapsed(s)
      BY DEF HiddenOwe
    <2>2. \/ business'[s] = business[s]
          \/ \E fix \in call[c].fixes :
               fix[1] = s /\ business'[s] = [plan |-> fix[2], listed |-> fix[3]]
      BY SweepWrites
    <2>3. \A fix \in call[c].fixes : fix[3] \/ Lapsed(fix[1])
      BY <1>1 DEF HiddenOwe, HidesLapsed
    <2>4. business'[s].listed \/ Lapsed(s)
      <3>1. CASE business'[s] = business[s]
        BY <2>1, <3>1
      <3>2. ASSUME NEW fix \in call[c].fixes,
                   fix[1] = s, business'[s] = [plan |-> fix[2], listed |-> fix[3]]
            PROVE  business'[s].listed \/ Lapsed(s)
        <4>1. business'[s].listed = fix[3]
          BY <3>2
        <4>2. fix[3] \/ Lapsed(s)
          BY <2>3, <3>2
        <4> QED
          BY <4>1, <4>2
      <3> QED
        BY <2>2, <3>1, <3>2
    <2> QED
      BY <1>1, <2>4, LapsedStays
  <1>4. ASSUME NEW d \in Agents PROVE HidesLapsed(d)'
    BY <1>1, <1>2 DEF HiddenOwe, HidesLapsed, Lapsed, Callers
  <1> QED
    BY <1>3, <1>4 DEF HiddenOwe

\* The steps that write neither table, and what is then about to be hidden.
LEMMA HiddenReads ==
  ASSUME TablesOK, CallsOK, TablesOK', HiddenOwe, NEW c \in Callers,
         \/ c \in Agents /\ ((\E s \in Shops : ReadHandler(c, s)) \/ ReadToRenew(c)
                              \/ ReadSweep(c) \/ Audit(c))
         \/ Dies(c)
         \/ c \in Acceptors /\ ExpressStep(c)
  PROVE  HiddenOwe'
  <1>1. UNCHANGED <<subscription, business, now>> /\ call \in [Callers -> CallRow]
    BY DEF ReadHandler, ReadRow, ReadOwed, ReadToRenew, ReadSweep, Audit, Dies, ExpressStep,
           CountExpress, AcceptExpress, CallsOK
  <1>2. PICK row : call' = [call EXCEPT ![c] = row]
    BY <1>1 DEF ReadHandler, ReadRow, ReadOwed, ReadToRenew, ReadSweep, Audit, Dies, ExpressStep,
                CountExpress, AcceptExpress, Start, Over
  <1>3. call'[c].pc # "fix" \/ (c \in Agents /\ ReadSweep(c))
    <2>1. ASSUME NEW s, NEW pc, NEW old, NEW fixes, Start(c, pc, s, old, fixes)
          PROVE  call'[c].pc = pc
      BY <1>1, <2>1 DEF Start
    <2>2. CASE ReadToRenew(c)
      BY <1>1, <2>2 DEF ReadToRenew, CallRow
    <2>3. CASE Over(c)
      BY <1>1, <2>3, NoCallIdle DEF Over
    <2> QED
      BY <2>1, <2>2, <2>3 DEF ReadHandler, ReadRow, ReadOwed, ReadSweep, Audit, Dies, ExpressStep,
                              CountExpress, AcceptExpress
  <1>4. \A d \in Agents : call'[d] = call[d] \/ HidesLapsed(d)'
    <2>1. \A d \in Callers \ {c} : call'[d] = call[d]
      BY <1>1, <1>2
    <2>2. c \in Agents => HidesLapsed(c)'
      BY <1>3, SweepHides DEF HidesLapsed
    <2> QED
      BY <2>1, <2>2 DEF Callers
  <1> QED
    BY <1>1, <1>4, HiddenFrame

LEMMA HiddenNext ==
  PlansTypes /\ SweepsApart /\ PaidInTime /\ HiddenOwe /\ [PlansNext]_plansVars => HiddenOwe'
  <1> SUFFICES ASSUME PlansTypes, SweepsApart, PaidInTime, HiddenOwe, [PlansNext]_plansVars
               PROVE  HiddenOwe'
    OBVIOUS
  <1>0. TablesOK /\ CallsOK /\ TablesOK'
    <2>1. PlansTypes'
      BY PlansTypesNext
    <2>2. TablesOK'
      BY <2>1 DEF PlansTypes, PlansTypeOK, TablesOK
    <2> QED
      BY <2>2, PlansTypeParts
  <1>1. CASE UNCHANGED plansVars \/ (\E s \in Shops : CancelExpress(s)) \/ Tomorrow
    <2>1. UNCHANGED <<subscription, business, call>> /\ (now' = now \/ now' = now + 1)
      BY <1>1 DEF plansVars, CancelExpress, Tomorrow
    <2> QED
      BY <1>0, <2>1, HiddenFrame
  <1>2. ASSUME NEW c \in Agents, HandlerStep(c) \/ SweepStep(c)
        PROVE  HiddenOwe'
    BY <1>0, <1>2, HiddenPlaces, HiddenRenews, HiddenSweeps, HiddenReads
       DEF HandlerStep, SweepStep, Callers
  <1>3. ASSUME NEW c \in Callers, Dies(c) \/ (c \in Acceptors /\ ExpressStep(c))
        PROVE  HiddenOwe'
    BY <1>0, <1>3, HiddenReads
  <1> QED
    BY <1>1, <1>2, <1>3 DEF PlansNext, Callers

(***************************************************************************)
(* A shop whose period runs is in the feed, as long as its payments come   *)
(* before it is taken out and no plan changes under a sweep: what the run  *)
(* paid_shop_hidden finds takes a late payment.                            *)
(***************************************************************************)
THEOREM PaidShopsAreListed == PlansSpec /\ []SweepsApart /\ []PaidInTime => []PaidShopIsListed
  <1>1. PlansInit => HiddenOwe
    BY DEF PlansInit, HiddenOwe, HidesLapsed, NoCall
  <1>2. PlansTypes /\ HiddenOwe => PaidShopIsListed
    <2> SUFFICES ASSUME PlansTypes, HiddenOwe, NEW s \in Shops, subscription[s].periodEnd > now
                 PROVE  business[s].listed
      BY DEF PaidShopIsListed
    <2>1. subscription[s].periodEnd \in Nat /\ now \in Nat
      BY HorizonType DEF PlansTypes, PlansTypeOK, SubscriptionRow
    <2> QED
      BY <2>1 DEF HiddenOwe, Lapsed
  <1>3. PlansTypes /\ HiddenOwe /\ SweepsApart /\ PaidInTime /\ [PlansNext]_plansVars
          => (PlansTypes /\ HiddenOwe)'
    BY PlansTypesNext, HiddenNext
  <1> QED
    BY <1>1, <1>2, <1>3, PlansTypesInit, PTL DEF PlansSpec

-----------------------------------------------------------------------------
(***************************************************************************)
(* The express quota, whoever overlaps.                                    *)
(***************************************************************************)
Allows(plan, s) ==
  \/ plan \in Unlimited
  \/ express[s] + Cardinality(Counting(s)) < Quota[plan] + Cardinality(Acceptors)

Within(s) == \E plan \in held[s] : Allows(plan, s)

\* The plan a copy says is one of the day's.
HeldOK == \A s \in Shops : business[s].plan \in held[s]

\* A step within a day forgets no plan.
Keeps(s) == held[s] \subseteq held'[s]

LEMMA BoundIsWithin == ExpressIsBounded <=> \A s \in Shops : Within(s)
  BY DEF ExpressIsBounded, Within, Allows, Counting

LEMMA HeldNext ==
  ASSUME PlansTypes, HeldOK, PlansNext, ~Tomorrow
  PROVE  HeldOK' /\ \A s \in Shops : Keeps(s)
  <1>1. held \in [Shops -> SUBSET Plan]
    BY DEF PlansTypes, PlansTypeOK
  <1>2. UNCHANGED <<business, held>> \/ Hold
    BY DEF PlansNext, HandlerStep, SweepStep, ExpressStep, ReadHandler, ReadRow, ReadOwed,
           changePlan, assignPlan, Place, ReadToRenew, recordPayment, Audit, ReadSweep,
           sweepLapsed, CountExpress, AcceptExpress, Dies, CancelExpress
  <1>3. CASE UNCHANGED <<business, held>>
    BY <1>3 DEF HeldOK, Keeps
  <1>4. CASE Hold
    BY <1>1, <1>4 DEF Hold, HeldOK, Keeps
  <1> QED
    BY <1>2, <1>3, <1>4

LEMMA Counts ==
  ASSUME NEW S \in SUBSET Acceptors
  PROVE  /\ IsFiniteSet(S) /\ Cardinality(S) \in Nat /\ Cardinality(Acceptors) \in Nat
         /\ Cardinality(S) <= Cardinality(Acceptors) /\ Cardinality(Acceptors) > 0
         /\ \A plan \in Plan \ Unlimited : Quota[plan] \in Nat /\ Quota[plan] > 0
  <1>1. /\ IsFiniteSet(Acceptors) /\ Acceptors # {}
        /\ Quota \in [(Paid \cup {"FREE"}) \ Unlimited -> Nat \ {0}]
    BY PlansAssumption
  <1>2. IsFiniteSet(S) /\ Cardinality(S) <= Cardinality(Acceptors)
    BY <1>1, FS_Subset
  <1>3. Cardinality(S) \in Nat /\ Cardinality(Acceptors) \in Nat /\ Cardinality(Acceptors) # 0
    BY <1>1, <1>2, FS_CardinalityType, FS_EmptySet
  <1> QED
    BY <1>1, <1>2, <1>3 DEF Plan

\* Fewer orders, and nobody new who counts.
LEMMA FewerIsAllowed ==
  ASSUME NEW s \in Shops, NEW plan \in Plan, Allows(plan, s),
         express[s] \in Nat, express'[s] \in Nat,
         express'[s] <= express[s], Counting(s)' \subseteq Counting(s)
  PROVE  Allows(plan, s)'
  <1>1. CASE plan \in Unlimited
    BY <1>1 DEF Allows
  <1>2. CASE plan \notin Unlimited
    <2>1. Counting(s) \in SUBSET Acceptors /\ Counting(s)' \in SUBSET Acceptors
      BY DEF Counting
    <2>2. Cardinality(Counting(s)') <= Cardinality(Counting(s))
      BY <2>1, Counts, FS_Subset
    <2>3. /\ Cardinality(Counting(s)) \in Nat /\ Cardinality(Counting(s)') \in Nat
          /\ Cardinality(Acceptors) \in Nat /\ Quota[plan] \in Nat
      BY <1>2, <2>1, Counts
    <2>4. express[s] + Cardinality(Counting(s)) < Quota[plan] + Cardinality(Acceptors)
      BY <1>2 DEF Allows
    <2>5. express'[s] + Cardinality(Counting(s)') < Quota[plan] + Cardinality(Acceptors)
      BY <2>2, <2>3, <2>4
    <2> QED
      BY <2>5 DEF Allows
  <1> QED
    BY <1>1, <1>2

LEMMA FewerIsWithin ==
  ASSUME TablesOK, NEW s \in Shops, Within(s), Keeps(s), express'[s] \in Nat,
         express'[s] <= express[s], Counting(s)' \subseteq Counting(s)
  PROVE  Within(s)'
  <1>1. express[s] \in Nat /\ held[s] \subseteq Plan
    BY DEF TablesOK
  <1>2. PICK plan \in held[s] : Allows(plan, s)
    BY DEF Within
  <1>3. Allows(plan, s)'
    BY <1>1, <1>2, FewerIsAllowed
  <1> QED
    BY <1>2, <1>3 DEF Within, Keeps

\* One that counts finds room, whatever the others have counted.
LEMMA CountIsWithin ==
  ASSUME TablesOK, CallsOK, HeldOK, NEW c \in Acceptors, NEW s \in Shops, CountExpress(c, s)
  PROVE  Within(s)'
  <1> DEFINE plan == business[s].plan
  <1>1. /\ express[s] \in Nat /\ express' = express /\ held' = held
        /\ plan \in Plan /\ plan \in held[s]
        /\ plan \notin Unlimited => express[s] < Quota[plan]
    BY DEF CountExpress, canAcceptExpress, TablesOK, HeldOK
  <1> HIDE DEF plan
  <1>2. CASE plan \in Unlimited
    BY <1>1, <1>2 DEF Within, Allows
  <1>3. CASE plan \notin Unlimited
    <2>1. Counting(s)' \in SUBSET Acceptors
      BY DEF Counting
    <2>2. /\ Cardinality(Counting(s)') \in Nat /\ Cardinality(Acceptors) \in Nat
          /\ Cardinality(Counting(s)') <= Cardinality(Acceptors) /\ Quota[plan] \in Nat
      BY <1>1, <1>3, <2>1, Counts
    <2>3. express'[s] + Cardinality(Counting(s)') < Quota[plan] + Cardinality(Acceptors)
      BY <1>1, <1>3, <2>2
    <2> QED
      BY <1>1, <2>3 DEF Within, Allows
  <1> QED
    BY <1>2, <1>3

\* One that accepts is one order more and one acceptance less.
LEMMA AcceptIsWithin ==
  ASSUME TablesOK, CallsOK, NEW c \in Acceptors, AcceptExpress(c),
         NEW s \in Shops, Within(s), Keeps(s)
  PROVE  Within(s)'
  <1>0. /\ c \in Callers /\ call[c] \in CallRow /\ call[c].pc = "accept"
        /\ express[s] \in Nat /\ now' = now /\ Over(c)
    BY DEF AcceptExpress, At, CallsOK, CallOK, Callers, TablesOK
  <1>1. call'[c] = NoCall /\ \A d \in Callers \ {c} : call'[d] = call[d]
    BY <1>0, OverSteps
  <1>2. call'[c].pc # "accept"
    BY <1>1, NoCallIdle
  <1>3. Counting(s)' = Counting(s) \ {c}
    BY <1>1, <1>2 DEF Counting, At, Callers
  <1>4. PICK plan \in held[s] : Allows(plan, s)
    BY DEF Within
  <1>5. /\ plan \in Plan /\ plan \in held'[s]
        /\ Counting(s) \in SUBSET Acceptors
    BY <1>4 DEF Counting, TablesOK, Keeps
  <1>6. /\ IsFiniteSet(Counting(s)) /\ Cardinality(Counting(s)) \in Nat
        /\ Cardinality(Acceptors) \in Nat
        /\ plan \notin Unlimited => Quota[plan] \in Nat
    BY <1>5, Counts
  <1>7. CASE call[c].shop = s
    <2>1. express'[s] = express[s] + 1
      BY <1>0, <1>7 DEF AcceptExpress, TablesOK
    <2>2. c \in Counting(s)
      BY <1>0, <1>7 DEF Counting, At
    <2>3. Cardinality(Counting(s)') = Cardinality(Counting(s)) - 1
      BY <1>3, <1>6, <2>2, FS_RemoveElement
    <2>4. plan \notin Unlimited =>
            express'[s] + Cardinality(Counting(s)') < Quota[plan] + Cardinality(Acceptors)
      BY <1>0, <1>4, <1>6, <2>1, <2>3 DEF Allows
    <2> QED
      BY <1>5, <2>4 DEF Within, Allows
  <1>8. CASE call[c].shop # s
    <2>1. express'[s] = express[s]
      BY <1>0, <1>8 DEF AcceptExpress, TablesOK
    <2> QED
      BY <1>0, <1>3, <2>1, FewerIsWithin
  <1> QED
    BY <1>7, <1>8

LEMMA WithinNext ==
  ASSUME PlansTypes, HeldOK, PlansNext, ~Tomorrow, NEW s \in Shops, Within(s)
  PROVE  Within(s)'
  <1>0. TablesOK /\ CallsOK /\ express[s] \in Nat /\ Keeps(s)
    BY HeldNext, PlansTypeParts DEF TablesOK
  \* A step that accepts no order and begins no acceptance.
  <1>1. ASSUME NEW c \in Callers, \A d \in Callers \ {c} : call'[d] = call[d],
               call'[c].pc = "accept" => call'[c] = call[c], express' = express
        PROVE  Within(s)'
    <2>1. Counting(s)' \subseteq Counting(s)
      BY <1>1 DEF Counting, At, Callers
    <2> QED
      BY <1>0, <1>1, <2>1, FewerIsWithin
  <1>2. ASSUME call' = call, express'[s] \in Nat, express'[s] <= express[s]
        PROVE  Within(s)'
    <2>1. Counting(s)' = Counting(s)
      BY <1>2 DEF Counting, At
    <2> QED
      BY <1>0, <1>2, <2>1, FewerIsWithin
  <1>4. ASSUME NEW c \in Callers, now' = now, express' = express, Over(c)
        PROVE  Within(s)'
    <2>1. call'[c].pc # "accept" /\ \A d \in Callers \ {c} : call'[d] = call[d]
      BY <1>0, <1>4, OverSteps, NoCallIdle
    <2> QED
      BY <1>1, <1>4, <2>1
  <1>5. ASSUME NEW c \in Agents, HandlerStep(c) \/ SweepStep(c)
        PROVE  Within(s)'
    <2>0. c \in Callers
      BY DEF Callers
    <2>1. CASE changePlan(c) \/ assignPlan(c) \/ Audit(c) \/ sweepLapsed(c)
      <3>1. Over(c) /\ now' = now /\ express' = express
        BY <2>1 DEF changePlan, assignPlan, Place, Audit, sweepLapsed
      <3> QED
        BY <1>4, <2>0, <3>1
    <2>2. ASSUME NEW t \in Shops, NEW pc \in {"change", "assign", "owed", "fix"},
                 NEW row, NEW fixes, Start(c, pc, t, row, fixes), express' = express
          PROVE  Within(s)'
      <3>1. call'[c].pc = pc /\ \A d \in Callers \ {c} : call'[d] = call[d]
        BY <1>0, <2>0, <2>2 DEF Start, CallsOK
      <3>2. call'[c].pc # "accept"
        BY <3>1
      <3> QED
        BY <1>1, <2>0, <2>2, <3>1, <3>2
    <2>3. ASSUME NEW t \in Shops, ReadHandler(c, t)
          PROVE  Within(s)'
      <3>1. PICK pc \in {"change", "assign", "owed"} : ReadRow(c, pc, t)
        BY <2>3 DEF ReadHandler, ReadOwed
      <3> QED
        BY <2>2, <3>1 DEF ReadRow
    <2>4. CASE ReadSweep(c)
      <3>1. (CHOOSE t \in Shops : TRUE) \in Shops
        OBVIOUS
      <3> QED
        BY <2>2, <2>4, <3>1 DEF ReadSweep
    <2>5. CASE ReadToRenew(c) \/ recordPayment(c)
      <3>1. call[c] \in CallRow /\ call \in [Callers -> CallRow]
        BY <1>0, <2>0 DEF CallsOK, CallOK
      <3>2. call'[c].pc \in {"renew", "audit"} /\ \A d \in Callers \ {c} : call'[d] = call[d]
        BY <2>0, <2>5, <3>1 DEF ReadToRenew, recordPayment, Goto, CallRow
      <3>3. express' = express
        BY <2>5 DEF ReadToRenew, recordPayment
      <3> QED
        BY <1>1, <2>0, <3>2, <3>3
    <2> QED
      BY <1>5, <2>1, <2>3, <2>4, <2>5 DEF HandlerStep, SweepStep
  <1>6. ASSUME NEW c \in Callers, Dies(c)
        PROVE  Within(s)'
    BY <1>4, <1>6 DEF Dies
  <1>7. ASSUME NEW c \in Acceptors, NEW t \in Shops, CountExpress(c, t)
        PROVE  Within(s)'
    <2>1. CASE t = s
      BY <1>0, <1>7, <2>1, CountIsWithin
    <2>2. CASE t # s
      <3>1. /\ c \in Callers /\ express' = express /\ call[c].pc = "idle"
            /\ call'[c].shop = t /\ \A d \in Callers \ {c} : call'[d] = call[d]
        BY <1>0, <1>7 DEF CountExpress, Start, At, CallsOK, Callers
      <3>2. Counting(s)' \subseteq Counting(s)
        BY <2>2, <3>1 DEF Counting, Callers, At
      <3> QED
        BY <1>0, <3>1, <3>2, FewerIsWithin
    <2> QED
      BY <2>1, <2>2
  <1>8. ASSUME NEW c \in Acceptors, AcceptExpress(c)
        PROVE  Within(s)'
    BY <1>0, <1>8, AcceptIsWithin
  <1>9. ASSUME NEW t \in Shops, CancelExpress(t)
        PROVE  Within(s)'
    <2>1. express'[s] \in Nat /\ express'[s] <= express[s]
      BY <1>0, <1>9 DEF CancelExpress, TablesOK
    <2> QED
      BY <1>2, <1>9, <2>1 DEF CancelExpress
  <1> QED
    BY <1>5, <1>6, <1>7, <1>8, <1>9 DEF PlansNext, ExpressStep, Callers

\* A new day begins with the plan of the copy, and with no order.
LEMMA WithinTomorrow ==
  ASSUME PlansTypes, HeldOK, Tomorrow
  PROVE  HeldOK' /\ \A s \in Shops : Within(s)'
  <1>1. HeldOK'
    BY DEF Tomorrow, HeldOK
  <1>2. ASSUME NEW s \in Shops PROVE Within(s)'
    <2> DEFINE plan == business[s].plan
    <2>1. plan \in Plan /\ held'[s] = {plan} /\ express'[s] = 0
      BY DEF Tomorrow, PlansTypes, PlansTypeOK
    <2> HIDE DEF plan
    <2>2. Counting(s)' \in SUBSET Acceptors
      BY DEF Counting
    <2>3. /\ Cardinality(Counting(s)') \in Nat /\ Cardinality(Acceptors) \in Nat
          /\ Cardinality(Counting(s)') <= Cardinality(Acceptors)
          /\ plan \notin Unlimited => Quota[plan] \in Nat /\ Quota[plan] > 0
      BY <2>1, <2>2, Counts
    <2>4. plan \notin Unlimited =>
            express'[s] + Cardinality(Counting(s)') < Quota[plan] + Cardinality(Acceptors)
      BY <2>1, <2>3
    <2> QED
      BY <2>1, <2>4 DEF Within, Allows
  <1> QED
    BY <1>1, <1>2

LEMMA WithinInit == PlansInit => HeldOK /\ \A s \in Shops : Within(s)
  <1> SUFFICES ASSUME PlansInit, NEW s \in Shops PROVE business[s].plan \in held[s] /\ Within(s)
    BY DEF HeldOK
  <1>1. express[s] = 0 /\ Counting(s) = {} /\ held[s] = {"FREE"} /\ business[s].plan = "FREE"
    BY NoCallIdle DEF PlansInit, Counting, At
  <1>2. Cardinality(Counting(s)) = 0
    BY <1>1, FS_EmptySet
  <1>3. "FREE" \in Plan \ Unlimited /\ {} \in SUBSET Acceptors
    BY PlansAssumption DEF Plan
  <1>4. Quota["FREE"] \in Nat /\ Cardinality(Acceptors) \in Nat /\ Cardinality(Acceptors) > 0
    BY <1>3, Counts
  <1>5. express[s] + Cardinality(Counting(s)) < Quota["FREE"] + Cardinality(Acceptors)
    BY <1>1, <1>2, <1>4
  <1> QED
    BY <1>1, <1>5 DEF Within, Allows

(***************************************************************************)
(* A day's express orders pass the quota of a plan that the shop's own     *)
(* copy gave it that day by less than the number of requests that accept   *)
(* at once, for any quotas, with or without plans that have none, for any  *)
(* number of requests, and however plans change meanwhile.                 *)
(***************************************************************************)
THEOREM ExpressOrdersAreBounded == PlansSpec => []ExpressIsBounded
  <1> DEFINE Bound == PlansTypes /\ HeldOK /\ \A s \in Shops : Within(s)
  <1>1. PlansInit => Bound
    BY PlansTypesInit, WithinInit
  <1>2. Bound /\ [PlansNext]_plansVars => Bound'
    <2> SUFFICES ASSUME Bound, [PlansNext]_plansVars PROVE Bound'
      OBVIOUS
    <2>1. PlansTypes'
      BY PlansTypesNext
    <2>2. CASE UNCHANGED plansVars
      BY <2>1, <2>2 DEF plansVars, HeldOK, Within, Allows, Counting, At
    <2>3. CASE Tomorrow
      BY <2>1, <2>3, WithinTomorrow
    <2>4. CASE PlansNext /\ ~Tomorrow
      BY <2>1, <2>4, HeldNext, WithinNext
    <2> QED
      BY <2>2, <2>3, <2>4
  <1>3. Bound => ExpressIsBounded
    BY BoundIsWithin
  <1> QED
    BY <1>1, <1>2, <1>3, PTL DEF PlansSpec

=============================================================================

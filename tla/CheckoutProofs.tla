---------------------------- MODULE CheckoutProofs ----------------------------
(***************************************************************************)
(* Proofs about Checkout, for any calls, request ids, carts, shops and     *)
(* receipts.                                                               *)
(*                                                                         *)
(* One order for a request id rests on the claim: who writes an order      *)
(* holds its id's row, empty, and nobody else holds it (ClaimsHaveOwners). *)
(* The limit of a promotion rests on counting the calls that priced it     *)
(* with the redemptions (Redeeming).                                       *)
(* A cart is sold at most once by each call that read it open (CartInv),   *)
(* and a batch is a step of PlacePromise.  That duplicates are answered is *)
(* proved of placements that do not overlap (AllUnanswered).               *)
(***************************************************************************)
EXTENDS Checkout, FiniteSetTheorems, TLAPS

\* Calls that have passed the promotion's limit and have not written yet.
Redeeming == {c \in Calls : call[c].pc \in {"priced", "claimed"} /\ call[c].code}

CodesCounted ==
  /\ IsFiniteSet(orders)
  /\ redemptions = Cardinality({o \in orders : o.code})
  /\ redemptions + Cardinality(Redeeming) < maxRedemptions + Cardinality(Calls)

CheckoutInv == CheckoutTypeOK /\ OneOrderEach /\ ClaimsHaveOwners

-----------------------------------------------------------------------------
(***************************************************************************)
(* Types.                                                                  *)
(***************************************************************************)
CallOK(row) ==
  /\ row \in CallRow
  /\ row.pc \in PlaceSteps => row.request \in RequestIds
  /\ row.pc \in {"priced", "claimed"} => row.cart \in CartIds /\ row.seen > 0
  /\ row.pc \in {"abandon", "line", "write", "added"} => row.cart \in CartIds
  /\ row.pc \in AddSteps => row.shop \in Shops
CallsOK == call \in [Calls -> CallRow] /\ \A c \in Calls : CallOK(call[c])
TablesOK ==
  /\ cart \in [CartIds -> CartRow]
  /\ ledger \in [RequestIds -> {"none", "empty"} \cup OrderIds]
  /\ orders \subseteq OrderRow
  /\ accepting \in BOOLEAN
  /\ redemptions \in Nat
  /\ stranded \subseteq RequestIds

\* The parts are the whole.
LEMMA CheckoutTypeParts == CheckoutTypeOK <=> TablesOK /\ CallsOK
  BY DEF CheckoutTypeOK, TablesOK, CallsOK, CallOK

LEMMA NoCallType == CallOK(NoCall)
  BY CheckoutAssumption DEF CallOK, NoCall, CallRow, PlaceSteps, AddSteps

\* A step that gives one call a row of its type.
LEMMA CallSteps ==
  ASSUME CallsOK, NEW c \in Calls, NEW row, CallOK(row), call' = [call EXCEPT ![c] = row]
  PROVE  CallsOK' /\ call'[c] = row /\ \A d \in Calls \ {c} : call'[d] = call[d]
  BY DEF CallsOK, CallOK

LEMMA OverSteps ==
  ASSUME CallsOK, NEW c \in Calls, Over(c)
  PROVE  CallsOK' /\ call'[c] = NoCall /\ \A d \in Calls \ {c} : call'[d] = call[d]
  BY NoCallType, CallSteps DEF Over

\* A call that only goes on to its next statement.
LEMMA GotoSteps ==
  ASSUME CallsOK, NEW c \in Calls, NEW pc, Goto(c, pc), CallOK([call[c] EXCEPT !.pc = pc])
  PROVE  /\ CallsOK' /\ call'[c] = [call[c] EXCEPT !.pc = pc]
         /\ call'[c].pc = pc /\ call'[c].request = call[c].request
         /\ call'[c].code = call[c].code
         /\ \A d \in Calls \ {c} : call'[d] = call[d]
  <1>1. call[c] \in CallRow
    BY DEF CallsOK
  <1>2. call' = [call EXCEPT ![c] = [call[c] EXCEPT !.pc = pc]]
    BY DEF Goto, CallsOK
  <1>3. CallsOK' /\ call'[c] = [call[c] EXCEPT !.pc = pc]
        /\ \A d \in Calls \ {c} : call'[d] = call[d]
    BY <1>2, CallSteps
  <1> QED
    BY <1>1, <1>3 DEF CallRow

LEMMA NextPcType ==
  ASSUME CallsOK, NEW c \in Calls
  PROVE  /\ CallOK([call[c] EXCEPT !.pc = "refused"])
         /\ call[c].pc = "abandon" => CallOK([call[c] EXCEPT !.pc = "create"])
         /\ call[c].pc = "write" => CallOK([call[c] EXCEPT !.pc = "added"])
         /\ call[c].pc = "priced" => CallOK([call[c] EXCEPT !.pc = "claimed"])
                                     /\ CallOK([call[c] EXCEPT !.pc = "polling"])
         /\ call[c].pc = "claimed" => CallOK([call[c] EXCEPT !.pc = "release"])
  BY DEF CallsOK, CallOK, CallRow, PlaceSteps, AddSteps

\* addItem.
LEMMA AddTypes ==
  ASSUME TablesOK, CallsOK, NEW c \in Calls,
         \/ \E shop \in Shops : AddRead(c, shop)
         \/ Abandon(c) \/ createCart(c) \/ ReadLine(c) \/ WriteLine(c) \/ SecondInsert(c)
  PROVE  TablesOK' /\ CallsOK'
  <1> DEFINE me == call[c]
  <1>0. me \in CallRow /\ CallOK(me)
    BY DEF CallsOK
  <1>1. ASSUME NEW shop \in Shops, AddRead(c, shop)
        PROVE  TablesOK' /\ CallsOK'
    <2>1. CallOK([NoCall EXCEPT !.pc = "create", !.shop = shop])
      BY NoCallType DEF CallOK, CallRow, NoCall, PlaceSteps, AddSteps
    <2>2. ASSUME NEW k \in CartIds, NEW pc \in {"line", "abandon"}
          PROVE  CallOK([NoCall EXCEPT !.pc = pc, !.shop = shop, !.cart = k])
      BY NoCallType DEF CallOK, CallRow, NoCall, PlaceSteps, AddSteps
    <2>3. CallsOK'
      BY <1>1, <2>1, <2>2, CallSteps DEF AddRead, OpenCarts
    <2> QED
      BY <1>1, <2>3 DEF AddRead, TablesOK
  <1>2. CASE Abandon(c)
    <2>1. CallsOK'
      BY <1>2, NextPcType, GotoSteps DEF Abandon, At
    <2>2. cart' \in [CartIds -> CartRow]
      BY <1>2 DEF Abandon, TablesOK, CartRow
    <2> QED
      BY <1>2, <2>1, <2>2 DEF Abandon, TablesOK
  <1>3. CASE createCart(c)
    <2>1. PICK k \in CartIds :
            /\ cart[k].status = "none"
            /\ cart' = [cart EXCEPT ![k] = [@ EXCEPT !.status = "OPEN", !.shop = call[c].shop]]
            /\ call' = [call EXCEPT ![c].pc = "line", ![c].cart = k]
      BY <1>3 DEF createCart
    <2>2. me.pc = "create" /\ me.shop \in Shops
      BY <1>0, <1>3 DEF createCart, At, CallOK, AddSteps
    <2>3. CallOK([me EXCEPT !.pc = "line", !.cart = k])
      BY <1>0, <2>2 DEF CallOK, CallRow, PlaceSteps, AddSteps
    <2>4. call' = [call EXCEPT ![c] = [me EXCEPT !.pc = "line", !.cart = k]]
      BY <2>1 DEF CallsOK
    <2>5. CallsOK'
      BY <2>3, <2>4, CallSteps
    <2>6. cart' \in [CartIds -> CartRow]
      BY <2>1, <2>2 DEF TablesOK, CartRow
    <2> QED
      BY <1>3, <2>5, <2>6 DEF createCart, TablesOK
  <1>4. CASE ReadLine(c)
    <2>1. me.cart \in CartIds /\ me.shop \in Shops
      BY <1>0, <1>4 DEF ReadLine, At, CallOK, AddSteps
    <2>2. cart[me.cart].quantity \in 0..MaxQuantity
      BY <2>1 DEF TablesOK, CartRow
    <2> DEFINE row == [me EXCEPT !.pc = "write", !.seen = cart[me.cart].quantity]
    <2>3. CallOK(row)
      BY <1>0, <2>1, <2>2 DEF CallOK, CallRow, PlaceSteps, AddSteps
    <2>4. call' = [call EXCEPT ![c] = row]
      BY <1>4 DEF ReadLine, CallsOK
    <2>5. CallsOK'
      BY <2>3, <2>4, CallSteps
    <2> QED
      BY <1>4, <2>5 DEF ReadLine, TablesOK
  <1>5. CASE WriteLine(c)
    <2>1. CallsOK'
      BY <1>5, NextPcType, GotoSteps DEF WriteLine, At
    <2>2. me.cart \in CartIds /\ me.seen \in 0..MaxQuantity
      BY <1>0, <1>5 DEF WriteLine, At, CallOK, CallRow
    <2>3. (IF me.seen + 1 > MaxQuantity THEN MaxQuantity ELSE me.seen + 1) \in 0..MaxQuantity
      BY <2>2, CheckoutAssumption
    <2>4. cart' \in [CartIds -> CartRow]
      BY <1>5, <2>2, <2>3 DEF WriteLine, TablesOK, CartRow
    <2> QED
      BY <1>5, <2>1, <2>4 DEF WriteLine, TablesOK
  <1>6. CASE SecondInsert(c)
    BY <1>6, OverSteps DEF SecondInsert, TablesOK
  <1> QED
    BY <1>1, <1>2, <1>3, <1>4, <1>5, <1>6

\* What the calls that write an order write.
LEMMA BatchWrites ==
  ASSUME TablesOK, CallsOK, NEW c \in Calls, Batch(c)
  PROVE  LET me == call[c] IN
         /\ me.request \in RequestIds /\ me.cart \in CartIds
         /\ me.pc = "claimed" /\ ~Used(me.receipt)
         /\ \E id \in OrderIds \ {o.id : o \in orders} :
              LET order == [id |-> id, request |-> me.request, cart |-> me.cart,
                            quantity |-> me.seen, code |-> me.code, receipt |-> me.receipt]
              IN /\ order \in OrderRow
                 /\ orders' = orders \cup {order}
                 /\ ledger' = [ledger EXCEPT ![me.request] = id]
  <1> DEFINE me == call[c]
  <1>1. /\ me \in CallRow /\ me.request \in RequestIds /\ me.cart \in CartIds
        /\ me.pc = "claimed" /\ me.seen > 0
    BY DEF Batch, At, CallsOK, CallOK, PlaceSteps
  <1>2. me.seen \in 1..MaxQuantity /\ me.code \in BOOLEAN /\ me.receipt \in Receipts \cup {None}
    BY <1>1, CheckoutAssumption DEF CallRow
  <1> QED
    BY <1>1, <1>2 DEF Batch, OrderRow

\* place.
LEMMA PlaceTypes ==
  ASSUME TablesOK, CallsOK, NEW c \in Calls,
         \/ \E r \in RequestIds, x \in Receipts \cup {None}, code \in BOOLEAN : place(c, r, x, code)
         \/ Price(c) \/ RefuseCart(c) \/ RefuseReceipt(c) \/ claim(c)
         \/ Batch(c) \/ BatchAborts(c) \/ Release(c) \/ existingOrderFor(c)
         \/ Told(c) \/ Fails(c)
  PROVE  TablesOK' /\ CallsOK'
  <1> DEFINE me == call[c]
  <1>0. me \in CallRow /\ CallOK(me)
    BY DEF CallsOK
  <1>1. ASSUME NEW r \in RequestIds, NEW x \in Receipts \cup {None}, NEW code \in BOOLEAN,
               place(c, r, x, code)
        PROVE  TablesOK' /\ CallsOK'
    <2>1. CallOK([NoCall EXCEPT !.pc = "asked", !.request = r, !.receipt = x, !.code = code])
      BY NoCallType DEF CallOK, CallRow, NoCall, PlaceSteps, AddSteps
    <2>2. CallsOK'
      BY <1>1, <2>1, CallSteps DEF place
    <2> QED
      BY <1>1, <2>2 DEF place, TablesOK
  <1>2. CASE Price(c)
    <2>1. PICK k \in CartIds :
            /\ Sellable(c, k)
            /\ call' = [call EXCEPT ![c].pc = "priced", ![c].cart = k,
                                    ![c].seen = cart[k].quantity]
      BY <1>2 DEF Price
    <2> DEFINE row == [me EXCEPT !.pc = "priced", !.cart = k, !.seen = cart[k].quantity]
    <2>2. cart[k].quantity \in 0..MaxQuantity /\ cart[k].quantity > 0
      BY <2>1 DEF Sellable, TablesOK, CartRow
    <2>3. me.request \in RequestIds
      BY <1>0, <1>2 DEF Price, At, CallOK, PlaceSteps
    <2>4. CallOK(row)
      BY <1>0, <2>2, <2>3 DEF CallOK, CallRow, PlaceSteps, AddSteps
    <2>5. call' = [call EXCEPT ![c] = row]
      BY <2>1 DEF CallsOK
    <2>6. CallsOK'
      BY <2>4, <2>5, CallSteps
    <2> QED
      BY <1>2, <2>6 DEF Price, TablesOK
  <1>3. CASE RefuseCart(c) \/ RefuseReceipt(c) \/ existingOrderFor(c) \/ Told(c)
    <2>1. Refuse(c) \/ Over(c)
      BY <1>3 DEF RefuseCart, RefuseReceipt, existingOrderFor, Told
    <2>2. CallsOK'
      BY <2>1, NextPcType, GotoSteps, OverSteps DEF Refuse
    <2> QED
      BY <1>3, <2>2 DEF RefuseCart, RefuseReceipt, existingOrderFor, Told, TablesOK
  <1>4. CASE claim(c)
    <2>1. CallsOK'
      BY <1>4, NextPcType, GotoSteps DEF claim, At
    <2>2. ledger' \in [RequestIds -> {"none", "empty"} \cup OrderIds]
      BY <1>4 DEF claim, TablesOK
    <2> QED
      BY <1>4, <2>1, <2>2 DEF claim, TablesOK
  <1>5. CASE Batch(c)
    <2>1. CallsOK'
      BY <1>5, OverSteps DEF Batch
    <2>2. /\ orders' \subseteq OrderRow
          /\ ledger' \in [RequestIds -> {"none", "empty"} \cup OrderIds]
      BY <1>5, BatchWrites DEF TablesOK
    <2>3. cart' = [cart EXCEPT ![me.cart].status = "CHECKED_OUT"] /\ me.cart \in CartIds
      BY <1>5, BatchWrites DEF Batch
    <2>4. cart' \in [CartIds -> CartRow]
      BY <2>3 DEF TablesOK, CartRow
    <2>5. redemptions' \in Nat
      BY <1>5 DEF Batch, TablesOK
    <2> QED
      BY <1>5, <2>1, <2>2, <2>4, <2>5 DEF Batch, TablesOK
  <1>6. CASE BatchAborts(c)
    BY <1>6, NextPcType, GotoSteps DEF BatchAborts, At, TablesOK
  <1>7. CASE Release(c)
    <2>1. CallsOK'
      BY <1>7, NextPcType, GotoSteps DEF Release, Refuse
    <2>2. ledger' \in [RequestIds -> {"none", "empty"} \cup OrderIds]
      BY <1>7 DEF Release, TablesOK
    <2> QED
      BY <1>7, <2>1, <2>2 DEF Release, TablesOK
  <1>8. CASE Fails(c)
    <2>1. CallsOK'
      BY <1>8, OverSteps DEF Fails
    <2>2. stranded' \subseteq RequestIds
      BY <1>0, <1>8 DEF Fails, TablesOK, CallOK, PlaceSteps
    <2> QED
      BY <1>8, <2>1, <2>2 DEF Fails, TablesOK
  <1> QED
    BY <1>1, <1>2, <1>3, <1>4, <1>5, <1>6, <1>7, <1>8

LEMMA CheckoutTypeNext == CheckoutTypeOK /\ [CheckoutNext]_checkoutVars => CheckoutTypeOK'
  <1> SUFFICES ASSUME CheckoutTypeOK, [CheckoutNext]_checkoutVars
               PROVE  TablesOK' /\ CallsOK'
    BY DEF CheckoutTypeOK, TablesOK, CallsOK, CallOK
  <1>1. TablesOK /\ CallsOK
    BY CheckoutTypeParts
  <1>2. CASE UNCHANGED checkoutVars
    BY <1>1, <1>2 DEF checkoutVars, TablesOK, CallsOK, CallOK
  <1>3. CASE SetAccepting
    BY <1>1, <1>3 DEF SetAccepting, TablesOK, CallsOK, CallOK
  <1>4. ASSUME NEW c \in Calls, CallStep(c)
        PROVE  TablesOK' /\ CallsOK'
    BY <1>1, <1>4, AddTypes, PlaceTypes DEF CallStep
  <1> QED
    BY <1>2, <1>3, <1>4 DEF CheckoutNext

LEMMA CheckoutTypeInit == CheckoutInit => CheckoutTypeOK
  <1> SUFFICES ASSUME CheckoutInit PROVE TablesOK /\ CallsOK
    BY CheckoutTypeParts
  <1>1. CallsOK
    BY NoCallType DEF CheckoutInit, CallsOK, CallOK
  <1>2. TablesOK
    BY CheckoutAssumption DEF CheckoutInit, TablesOK, CartRow
  <1> QED
    BY <1>1, <1>2

\* Every table and every call keeps its type.
THEOREM CheckoutTypesCorrect == CheckoutSpec => []CheckoutTypeOK
  BY CheckoutTypeInit, CheckoutTypeNext, PTL DEF CheckoutSpec

-----------------------------------------------------------------------------
(***************************************************************************)
(* One order for a request id.                                             *)
(***************************************************************************)
Holding(row) == row.pc \in {"claimed", "release"}

\* What a claim, a receipt and an order may not lose, as formulas about one step.
LEMMA HoldersAre ==
  ASSUME NEW r PROVE Holders(r) = {c \in Calls : call[c].request = r /\ Holding(call[c])}
  BY DEF Holders, Holding

\* ClaimsHaveOwners, of one id.
OwnedWell(r) ==
  /\ \A c, d \in Holders(r) : c = d
  /\ Holders(r) # {} => ledger[r] = "empty"
  /\ ledger[r] = "empty" => Holders(r) # {} \/ r \in stranded

LEMMA ClaimParts == ClaimsHaveOwners <=> \A r \in RequestIds : OwnedWell(r)
  BY DEF ClaimsHaveOwners, OwnedWell

\* A step that changes the holders and the row of one id.
LEMMA OneClaim ==
  ASSUME ClaimsHaveOwners, NEW mine \in RequestIds, OwnedWell(mine)',
         \A r \in RequestIds \ {mine} : Holders(r)' = Holders(r) /\ ledger'[r] = ledger[r],
         stranded \subseteq stranded'
  PROVE  ClaimsHaveOwners'
  <1>1. ASSUME NEW r \in RequestIds PROVE OwnedWell(r)'
    <2>1. CASE r = mine
      BY <2>1
    <2>2. CASE r # mine
      BY <2>2, ClaimParts DEF OwnedWell
    <2> QED
      BY <2>1, <2>2
  <1> QED
    BY <1>1 DEF ClaimsHaveOwners, OwnedWell

\* A step that writes neither the ledger nor an order, and takes or gives no claim.
LEMMA ClaimFrame ==
  ASSUME OneOrderEach, ClaimsHaveOwners,
         UNCHANGED <<orders, ledger>>, stranded \subseteq stranded',
         \A d \in Calls : /\ Holding(call'[d]) <=> Holding(call[d])
                          /\ Holding(call[d]) => call'[d].request = call[d].request
  PROVE  OneOrderEach' /\ ClaimsHaveOwners'
  <1>1. ASSUME NEW r \in RequestIds PROVE Holders(r)' = Holders(r)
    BY HoldersAre DEF Holders, Holding
  <1>2. OneOrderEach'
    BY DEF OneOrderEach, Ordered
  <1> QED
    BY <1>1, <1>2 DEF ClaimsHaveOwners

\* The steps of addItem, and those of a placement that neither take nor give a claim.
LEMMA KeepsClaims ==
  ASSUME CallsOK, NEW c \in Calls, CallStep(c),
         ~Batch(c), ~Release(c), ~(Fails(c) /\ Holding(call[c])),
         ~(claim(c) /\ ledger[call[c].request] = "none")
  PROVE  /\ UNCHANGED <<orders, ledger>> /\ stranded' = stranded
         /\ \A d \in Calls : /\ Holding(call'[d]) <=> Holding(call[d])
                             /\ Holding(call[d]) => call'[d].request = call[d].request
  <1> DEFINE me == call[c]
             Kept == \A d \in Calls :
                       /\ Holding(call'[d]) <=> Holding(call[d])
                       /\ Holding(call[d]) => call'[d].request = call[d].request
             Same == UNCHANGED <<orders, ledger>> /\ stranded' = stranded
  <1>0. call \in [Calls -> CallRow] /\ me \in CallRow
    BY DEF CallsOK
  <1>1. ASSUME NEW row, call' = [call EXCEPT ![c] = row], ~Holding(me), ~Holding(row)
        PROVE  Kept
    BY <1>0, <1>1
  <1>2. ASSUME NEW pc, Goto(c, pc), ~Holding(me), pc \notin {"claimed", "release"}
        PROVE  Kept
    <2>1. call' = [call EXCEPT ![c] = [me EXCEPT !.pc = pc]]
      BY <1>0, <1>2 DEF Goto
    <2>2. ~Holding([me EXCEPT !.pc = pc])
      BY <1>0, <1>2 DEF Holding, CallRow
    <2> QED
      BY <1>1, <1>2, <2>1, <2>2
  <1>3. ASSUME Over(c), ~Holding(me)
        PROVE  Kept
    <2>1. ~Holding(NoCall)
      BY DEF NoCall, Holding
    <2> QED
      BY <1>1, <1>3, <2>1 DEF Over
  <1>4. ASSUME NEW shop \in Shops, AddRead(c, shop)
        PROVE  Same /\ Kept
    <2> DEFINE made == [NoCall EXCEPT !.pc = "create", !.shop = shop]
               read(k, pc) == [NoCall EXCEPT !.pc = pc, !.shop = shop, !.cart = k]
    <2>1. ~Holding(me) /\ ~Holding(made)
      BY <1>4 DEF AddRead, At, NoCall, Holding
    <2>2. \A k \in CartIds, pc \in {"line", "abandon"} : ~Holding(read(k, pc))
      BY DEF NoCall, Holding
    <2>3. \/ call' = [call EXCEPT ![c] = made]
          \/ \E k \in CartIds, pc \in {"line", "abandon"} :
               call' = [call EXCEPT ![c] = read(k, pc)]
      BY <1>4 DEF AddRead, OpenCarts
    <2> QED
      BY <1>1, <1>4, <2>1, <2>2, <2>3 DEF AddRead
  <1>5. ASSUME NEW r \in RequestIds, NEW x \in Receipts \cup {None}, NEW code \in BOOLEAN,
               place(c, r, x, code)
        PROVE  Same /\ Kept
    BY <1>0, <1>5 DEF place, At, NoCall, Holding
  <1>6. CASE Abandon(c)
    BY <1>2, <1>6 DEF Abandon, At, Holding
  <1>7. CASE createCart(c)
    <2>1. PICK k \in CartIds : call' = [call EXCEPT ![c].pc = "line", ![c].cart = k]
      BY <1>7 DEF createCart
    <2>2. call' = [call EXCEPT ![c] = [me EXCEPT !.pc = "line", !.cart = k]]
      BY <1>0, <2>1
    <2>3. ~Holding([me EXCEPT !.pc = "line", !.cart = k]) /\ ~Holding(me)
      BY <1>0, <1>7 DEF createCart, At, Holding, CallRow
    <2> QED
      BY <1>1, <1>7, <2>2, <2>3 DEF createCart
  <1>8. CASE ReadLine(c)
    <2>1. call' = [call EXCEPT ![c] =
                     [me EXCEPT !.pc = "write", !.seen = cart[me.cart].quantity]]
      BY <1>0, <1>8 DEF ReadLine
    <2>2. ~Holding([me EXCEPT !.pc = "write", !.seen = cart[me.cart].quantity]) /\ ~Holding(me)
      BY <1>0, <1>8 DEF ReadLine, At, Holding, CallRow
    <2> QED
      BY <1>1, <1>8, <2>1, <2>2 DEF ReadLine
  <1>9. CASE WriteLine(c) \/ SecondInsert(c)
    BY <1>2, <1>3, <1>9 DEF WriteLine, SecondInsert, At, Holding
  <1>10. CASE Price(c)
    <2>1. PICK k \in CartIds :
            /\ Sellable(c, k)
            /\ call' = [call EXCEPT ![c].pc = "priced", ![c].cart = k,
                                    ![c].seen = cart[k].quantity]
      BY <1>10 DEF Price
    <2> DEFINE row == [me EXCEPT !.pc = "priced", !.cart = k, !.seen = cart[k].quantity]
    <2>2. call' = [call EXCEPT ![c] = row]
      BY <1>0, <2>1
    <2>3. ~Holding(row) /\ ~Holding(me)
      BY <1>0, <1>10 DEF Price, At, Holding, CallRow
    <2> QED
      BY <1>1, <1>10, <2>2, <2>3 DEF Price
  <1>11. CASE RefuseCart(c)
    BY <1>2, <1>11 DEF RefuseCart, Refuse, At, Holding
  <1>12. CASE RefuseReceipt(c)
    BY <1>2, <1>3, <1>12 DEF RefuseReceipt, Refuse, At, Holding
  <1>13. CASE claim(c)
    BY <1>2, <1>13 DEF claim, At, Holding
  <1>14. CASE BatchAborts(c)
    BY <1>0, <1>14 DEF BatchAborts, At, Goto, Holding, CallRow
  <1>15. CASE existingOrderFor(c)
    BY <1>2, <1>3, <1>15 DEF existingOrderFor, Refuse, At, Holding
  <1>16. CASE Told(c)
    BY <1>3, <1>16 DEF Told, At, Holding
  <1>17. CASE Fails(c)
    BY <1>3, <1>17 DEF Fails, Holding
  <1> QED
    BY <1>4, <1>5, <1>6, <1>7, <1>8, <1>9, <1>10, <1>11, <1>12, <1>13, <1>14, <1>15,
       <1>16, <1>17 DEF CallStep

\* The insert on the unique index: a claim begins where there was no row.
LEMMA ClaimWins ==
  ASSUME CheckoutInv, NEW c \in Calls, claim(c), ledger[call[c].request] = "none"
  PROVE  OneOrderEach' /\ ClaimsHaveOwners'
  <1>a. TablesOK /\ CallsOK /\ call[c].request \in RequestIds /\ call[c].pc = "priced"
    BY CheckoutTypeParts DEF CheckoutInv, CallsOK, CallOK, claim, At, PlaceSteps
  <1>0. PICK mine \in RequestIds : mine = call[c].request
    BY <1>a
  <1>1. /\ ledger' = [ledger EXCEPT ![mine] = "empty"]
        /\ UNCHANGED <<orders, stranded>>
        /\ Goto(c, "claimed")
    BY <1>0 DEF claim
  <1>2. /\ call'[c].pc = "claimed" /\ call'[c].request = mine
        /\ \A d \in Calls \ {c} : call'[d] = call[d]
    BY <1>a, <1>0, <1>1, NextPcType, GotoSteps
  <1>3. ledger \in [RequestIds -> {"none", "empty"} \cup OrderIds] /\ orders \subseteq OrderRow
    BY <1>a DEF TablesOK
  <1>4. "none" \notin OrderIds /\ "empty" \notin OrderIds
    BY CheckoutAssumption
  <1>5. Holders(mine) = {}
    BY <1>0 DEF CheckoutInv, ClaimsHaveOwners
  <1>6. Holders(mine)' = {c}
    BY <1>2, <1>5 DEF Holders
  <1>7. ASSUME NEW r \in RequestIds \ {mine}
        PROVE  Holders(r)' = Holders(r) /\ ledger'[r] = ledger[r]
    BY <1>0, <1>1, <1>2, <1>3, <1>7 DEF Holders
  <1>8. ledger'[mine] = "empty"
    BY <1>0, <1>1, <1>3
  <1>9. ClaimsHaveOwners'
    <2>1. OwnedWell(mine)'
      BY <1>6, <1>8 DEF OwnedWell
    <2> QED
      BY <1>0, <1>1, <1>7, <2>1, OneClaim DEF CheckoutInv
  <1>10. ledger[mine] = "none"
    BY <1>0
  <1>b. \A o \in orders : o.request # mine /\ o.request \in RequestIds
    BY <1>3, <1>4, <1>10 DEF CheckoutInv, OneOrderEach, OrderRow
  <1>11. OneOrderEach'
    BY <1>1, <1>3, <1>4, <1>7, <1>8, <1>b DEF CheckoutInv, OneOrderEach, Ordered
  <1> QED
    BY <1>9, <1>11

\* The batch: the claim becomes the order, and its receipt was new.
LEMMA BatchSettles ==
  ASSUME CheckoutInv, NEW c \in Calls, Batch(c)
  PROVE  OneOrderEach' /\ ClaimsHaveOwners'
  <1> DEFINE me == call[c]
  <1>0. TablesOK /\ CallsOK
    BY CheckoutTypeParts DEF CheckoutInv
  <1>a. me.request \in RequestIds /\ me.pc = "claimed" /\ ~Used(me.receipt)
    BY <1>0, BatchWrites
  <1>1. PICK mine \in RequestIds : mine = me.request
    BY <1>a
  <1>2. PICK id \in OrderIds \ {o.id : o \in orders} :
          LET order == [id |-> id, request |-> mine, cart |-> me.cart,
                        quantity |-> me.seen, code |-> me.code, receipt |-> me.receipt]
          IN /\ order \in OrderRow
             /\ orders' = orders \cup {order}
             /\ ledger' = [ledger EXCEPT ![mine] = id]
    BY <1>0, <1>1, BatchWrites
  <1> DEFINE order == [id |-> id, request |-> mine, cart |-> me.cart,
                       quantity |-> me.seen, code |-> me.code, receipt |-> me.receipt]
  <1>3. ledger \in [RequestIds -> {"none", "empty"} \cup OrderIds] /\ orders \subseteq OrderRow
    BY <1>0 DEF TablesOK
  <1>4. "none" \notin OrderIds /\ "empty" \notin OrderIds
    BY CheckoutAssumption
  <1>5. Holders(mine) = {c} /\ ledger[mine] = "empty"
    BY <1>a, <1>1 DEF CheckoutInv, ClaimsHaveOwners, Holders
  <1>6. call'[c] = NoCall /\ \A d \in Calls \ {c} : call'[d] = call[d]
    BY <1>0, OverSteps DEF Batch
  <1>7. Holders(mine)' = {}
    <2>1. \A d \in Calls : call[d].request = mine /\ call[d].pc \in {"claimed", "release"} => d = c
      BY <1>5 DEF Holders
    <2> QED
      BY <1>6, <2>1 DEF Holders, NoCall
  <1>8. ASSUME NEW r \in RequestIds \ {mine}
        PROVE  Holders(r)' = Holders(r) /\ ledger'[r] = ledger[r]
    <2>1. ledger'[r] = ledger[r]
      BY <1>2, <1>3, <1>8
    <2>2. c \notin Holders(r) /\ c \notin Holders(r)'
      BY <1>1, <1>6, <1>8, CheckoutAssumption DEF Holders, NoCall
    <2> QED
      BY <1>6, <2>1, <2>2 DEF Holders
  <1>9. ledger'[mine] = id
    BY <1>1, <1>2, <1>3
  <1>10. ClaimsHaveOwners'
    <2>1. OwnedWell(mine)'
      BY <1>2, <1>4, <1>7, <1>9 DEF OwnedWell
    <2> QED
      BY <1>1, <1>8, <2>1, OneClaim DEF CheckoutInv, Batch
  <1>11. \A o \in orders : /\ o.request # mine /\ o.request \in RequestIds
                           /\ o.receipt # None => o.receipt # me.receipt
    BY <1>a, <1>1, <1>3, <1>4, <1>5 DEF CheckoutInv, OneOrderEach, OrderRow, Used
  <1>12. orders' = orders \cup {order} /\ order.request = mine /\ order.id = id
         /\ order.receipt = me.receipt
    BY <1>2
  <1> HIDE DEF order
  <1>13. \A o, p \in orders' : o.request = p.request => o = p
    BY <1>11, <1>12 DEF CheckoutInv, OneOrderEach
  <1>14. \A o, p \in orders' : o.receipt # None /\ o.receipt = p.receipt => o = p
    BY <1>11, <1>12 DEF CheckoutInv, OneOrderEach
  <1>15. \A o \in orders' : ledger'[o.request] = o.id
    BY <1>8, <1>9, <1>11, <1>12 DEF CheckoutInv, OneOrderEach
  <1>16. \A r \in RequestIds : Ordered(r)' => \E o \in orders' : o.request = r
    BY <1>8, <1>12 DEF CheckoutInv, OneOrderEach, Ordered
  <1> QED
    BY <1>10, <1>13, <1>14, <1>15, <1>16 DEF OneOrderEach

\* A holder gives its claim back, or dies with it.
LEMMA HolderLeaves ==
  ASSUME CheckoutInv, NEW c \in Calls, Release(c) \/ (Fails(c) /\ Holding(call[c]))
  PROVE  OneOrderEach' /\ ClaimsHaveOwners'
  <1> DEFINE me == call[c]
  <1>0. TablesOK /\ CallsOK
    BY CheckoutTypeParts DEF CheckoutInv
  <1>a. me.request \in RequestIds /\ Holding(me)
    BY <1>0 DEF CallsOK, CallOK, PlaceSteps, Release, At, Holding
  <1>1. PICK mine \in RequestIds : mine = me.request
    BY <1>a
  <1>2. ledger \in [RequestIds -> {"none", "empty"} \cup OrderIds] /\ orders \subseteq OrderRow
    BY <1>0 DEF TablesOK
  <1>3. "none" \notin OrderIds /\ "empty" \notin OrderIds
    BY CheckoutAssumption
  <1>4. Holders(mine) = {c} /\ ledger[mine] = "empty"
    BY <1>a, <1>1 DEF CheckoutInv, ClaimsHaveOwners, Holders, Holding
  <1>5. ~Holding(call'[c]) /\ \A d \in Calls \ {c} : call'[d] = call[d]
    <2>1. CASE Release(c)
      <3>1. Goto(c, "refused")
        BY <2>1 DEF Release, Refuse
      <3>2. call'[c].pc = "refused" /\ \A d \in Calls \ {c} : call'[d] = call[d]
        BY <1>0, <3>1, NextPcType, GotoSteps
      <3> QED
        BY <3>2 DEF Holding
    <2>2. CASE Fails(c)
      BY <1>0, <2>2, OverSteps DEF Fails, Holding, NoCall
    <2> QED
      BY <2>1, <2>2
  <1>6. Holders(mine)' = {}
    <2>1. \A d \in Calls : call[d].request = mine /\ call[d].pc \in {"claimed", "release"} => d = c
      BY <1>4 DEF Holders
    <2> QED
      BY <1>5, <2>1 DEF Holders, Holding
  <1>7. /\ orders' = orders
        /\ \/ ledger' = [ledger EXCEPT ![mine] = "none"] /\ stranded' = stranded
           \/ ledger' = ledger /\ stranded' = stranded \cup {mine}
    BY <1>a, <1>1, <1>2, <1>4 DEF Release, Fails, Holding
  <1>8. ASSUME NEW r \in RequestIds \ {mine}
        PROVE  Holders(r)' = Holders(r) /\ ledger'[r] = ledger[r]
    <2>1. ledger'[r] = ledger[r]
      BY <1>2, <1>7, <1>8
    <2>2. c \notin Holders(r) /\ c \notin Holders(r)'
      BY <1>1, <1>5, <1>8 DEF Holders, Holding
    <2> QED
      BY <1>5, <2>1, <2>2 DEF Holders
  <1>9. ledger'[mine] = "none" \/ (ledger'[mine] = "empty" /\ mine \in stranded')
    <2>1. CASE ledger' = [ledger EXCEPT ![mine] = "none"]
      BY <1>1, <1>2, <2>1
    <2>2. CASE ledger' = ledger /\ stranded' = stranded \cup {mine}
      BY <1>4, <2>2
    <2> QED
      BY <1>7, <2>1, <2>2
  <1>10. stranded \subseteq stranded'
    BY <1>7
  <1>11. ClaimsHaveOwners'
    <2>1. OwnedWell(mine)'
      BY <1>6, <1>9 DEF OwnedWell
    <2> QED
      BY <1>1, <1>8, <1>10, <2>1, OneClaim DEF CheckoutInv
  <1>12. \A o \in orders : o.request # mine /\ o.request \in RequestIds
    BY <1>2, <1>3, <1>4 DEF CheckoutInv, OneOrderEach, OrderRow
  <1>13. OneOrderEach'
    BY <1>3, <1>7, <1>8, <1>9, <1>12 DEF CheckoutInv, OneOrderEach, Ordered
  <1> QED
    BY <1>11, <1>13

LEMMA CheckoutInvInit == CheckoutInit => CheckoutInv
  <1> SUFFICES ASSUME CheckoutInit PROVE OneOrderEach /\ ClaimsHaveOwners
    BY CheckoutTypeInit DEF CheckoutInv
  <1>1. \A r : Holders(r) = {}
    BY DEF CheckoutInit, Holders, NoCall
  <1> QED
    BY <1>1, CheckoutAssumption DEF CheckoutInit, OneOrderEach, ClaimsHaveOwners, Ordered

LEMMA CheckoutInvNext == CheckoutInv /\ [CheckoutNext]_checkoutVars => CheckoutInv'
  <1> SUFFICES ASSUME CheckoutInv, [CheckoutNext]_checkoutVars
               PROVE  OneOrderEach' /\ ClaimsHaveOwners'
    BY CheckoutTypeNext DEF CheckoutInv
  <1>1. CallsOK /\ OneOrderEach /\ ClaimsHaveOwners
    BY CheckoutTypeParts DEF CheckoutInv
  <1>2. CASE UNCHANGED checkoutVars \/ SetAccepting
    BY <1>1, <1>2, ClaimFrame DEF checkoutVars, SetAccepting
  <1>3. ASSUME NEW c \in Calls, CallStep(c)
        PROVE  OneOrderEach' /\ ClaimsHaveOwners'
    <2>1. CASE Batch(c)
      BY <2>1, BatchSettles
    <2>2. CASE Release(c) \/ (Fails(c) /\ Holding(call[c]))
      BY <2>2, HolderLeaves
    <2>3. CASE claim(c) /\ ledger[call[c].request] = "none"
      BY <2>3, ClaimWins
    <2>4. CASE /\ ~Batch(c) /\ ~Release(c) /\ ~(Fails(c) /\ Holding(call[c]))
               /\ ~(claim(c) /\ ledger[call[c].request] = "none")
      <3>1. /\ UNCHANGED <<orders, ledger>> /\ stranded' = stranded
            /\ \A d \in Calls : /\ Holding(call'[d]) <=> Holding(call[d])
                                /\ Holding(call[d]) => call'[d].request = call[d].request
        BY <1>1, <1>3, <2>4, KeepsClaims
      <3> QED
        BY <1>1, <3>1, ClaimFrame
    <2> QED
      BY <2>1, <2>2, <2>3, <2>4
  <1> QED
    BY <1>2, <1>3 DEF CheckoutNext

(***************************************************************************)
(* A placement sent any number of times is one order; a picture of a       *)
(* transfer pays for one.                                                  *)
(***************************************************************************)
THEOREM OneOrderForEach == CheckoutSpec => []OneOrderEach
  <1>1. CheckoutInv => OneOrderEach
    BY DEF CheckoutInv
  <1> QED
    BY <1>1, CheckoutInvInit, CheckoutInvNext, PTL DEF CheckoutSpec

(***************************************************************************)
(* A claim without its order is held by one call in flight, or by one that *)
(* died with it.                                                           *)
(***************************************************************************)
THEOREM ClaimsAreOwned == CheckoutSpec => []ClaimsHaveOwners
  <1>1. CheckoutInv => ClaimsHaveOwners
    BY DEF CheckoutInv
  <1> QED
    BY <1>1, CheckoutInvInit, CheckoutInvNext, PTL DEF CheckoutSpec

-----------------------------------------------------------------------------
(***************************************************************************)
(* The promotion's limit.                                                  *)
(***************************************************************************)
CodedOrders == {o \in orders : o.code}

LEMMA RedeemingIsFinite ==
  /\ IsFiniteSet(Redeeming) /\ Cardinality(Redeeming) \in Nat
  /\ Cardinality(Redeeming) <= Cardinality(Calls) /\ Cardinality(Calls) \in Nat
  <1>1. Redeeming \in SUBSET Calls /\ IsFiniteSet(Calls)
    BY CheckoutAssumption DEF Redeeming
  <1> QED
    BY <1>1, FS_Subset, FS_CardinalityType

\* A step that redeems nothing, and by which no call comes to redeem.
LEMMA RedeemingFrame ==
  ASSUME CodesCounted, redemptions \in Nat, UNCHANGED <<orders, redemptions>>,
         Redeeming' \subseteq Redeeming
  PROVE  CodesCounted'
  <1>1. Cardinality(Redeeming') <= Cardinality(Redeeming) /\ Cardinality(Redeeming') \in Nat
    BY RedeemingIsFinite, FS_Subset, FS_CardinalityType
  <1>2. CodedOrders' = CodedOrders
    BY DEF CodedOrders
  <1> QED
    BY <1>1, <1>2, RedeemingIsFinite, CheckoutAssumption DEF CodesCounted, CodedOrders

\* A call about to write an order, and what it will write.
Selling(row) == row.pc \in {"priced", "claimed"}
SoldAs(new, old) == Selling(new) => Selling(old) /\ new.code = old.code /\ new.cart = old.cart

\* Every step of a call but its pricing and its batch sells nothing more.
LEMMA SellingSteps ==
  ASSUME CallsOK, NEW c \in Calls, CallStep(c), ~Price(c), ~Batch(c)
  PROVE  UNCHANGED <<orders, redemptions>> /\ \A d \in Calls : SoldAs(call'[d], call[d])
  <1> DEFINE me == call[c]
             Same == UNCHANGED <<orders, redemptions>>
             Fewer == \A d \in Calls : SoldAs(call'[d], call[d])
  <1>0. call \in [Calls -> CallRow] /\ me \in CallRow
    BY DEF CallsOK
  <1>1. ASSUME NEW row, call' = [call EXCEPT ![c] = row],
               SoldAs(row, me)
        PROVE  Fewer
    BY <1>0, <1>1 DEF SoldAs
  <1>2. ASSUME NEW pc, Goto(c, pc), pc \in {"priced", "claimed"} => me.pc = "priced"
        PROVE  Fewer
    <2>1. call' = [call EXCEPT ![c] = [me EXCEPT !.pc = pc]]
      BY <1>0, <1>2 DEF Goto
    <2>2. SoldAs([me EXCEPT !.pc = pc], me)
      BY <1>0, <1>2 DEF CallRow, SoldAs, Selling
    <2> QED
      BY <1>1, <2>1, <2>2
  <1>3. ASSUME Over(c)
        PROVE  Fewer
    <2>1. SoldAs(NoCall, me)
      BY DEF NoCall, SoldAs, Selling
    <2> QED
      BY <1>1, <1>3, <2>1 DEF Over
  <1>4. ASSUME NEW shop \in Shops, AddRead(c, shop)
        PROVE  Same /\ Fewer
    <2> DEFINE made == [NoCall EXCEPT !.pc = "create", !.shop = shop]
               read(k, pc) == [NoCall EXCEPT !.pc = pc, !.shop = shop, !.cart = k]
    <2>1. /\ made.pc = "create"
          /\ \A k \in CartIds, pc \in {"line", "abandon"} : read(k, pc).pc = pc
      BY DEF NoCall
    <2>2. \/ call' = [call EXCEPT ![c] = made]
          \/ \E k \in CartIds, pc \in {"line", "abandon"} :
               call' = [call EXCEPT ![c] = read(k, pc)]
      BY <1>4 DEF AddRead, OpenCarts
    <2>3. CASE call' = [call EXCEPT ![c] = made]
      BY <1>1, <1>4, <2>1, <2>3 DEF AddRead, SoldAs, Selling
    <2>4. ASSUME NEW k \in CartIds, NEW pc \in {"line", "abandon"},
                 call' = [call EXCEPT ![c] = read(k, pc)]
          PROVE  Same /\ Fewer
      <3>1. SoldAs(read(k, pc), me)
        BY <2>1 DEF SoldAs, Selling
      <3> HIDE DEF read
      <3> QED
        BY <1>1, <1>4, <2>4, <3>1 DEF AddRead
    <2> QED
      BY <2>2, <2>3, <2>4
  <1>5. ASSUME NEW r \in RequestIds, NEW x \in Receipts \cup {None}, NEW code \in BOOLEAN,
               place(c, r, x, code)
        PROVE  Same /\ Fewer
    <2> DEFINE row == [NoCall EXCEPT !.pc = "asked", !.request = r, !.receipt = x, !.code = code]
    <2>1. row.pc = "asked" /\ call' = [call EXCEPT ![c] = row]
      BY <1>5 DEF place, NoCall
    <2> QED
      BY <1>1, <1>5, <2>1 DEF place, SoldAs, Selling
  <1>6. CASE Abandon(c) \/ WriteLine(c) \/ SecondInsert(c)
    BY <1>2, <1>3, <1>6 DEF Abandon, WriteLine, SecondInsert
  <1>7. CASE createCart(c)
    <2>1. PICK k \in CartIds : call' = [call EXCEPT ![c].pc = "line", ![c].cart = k]
      BY <1>7 DEF createCart
    <2>2. call' = [call EXCEPT ![c] = [me EXCEPT !.pc = "line", !.cart = k]]
      BY <1>0, <2>1
    <2>3. [me EXCEPT !.pc = "line", !.cart = k].pc = "line"
      BY <1>0 DEF CallRow
    <2> QED
      BY <1>1, <1>7, <2>2, <2>3 DEF createCart, SoldAs, Selling
  <1>8. CASE ReadLine(c)
    <2> DEFINE row == [me EXCEPT !.pc = "write", !.seen = cart[me.cart].quantity]
    <2>1. call' = [call EXCEPT ![c] = row]
      BY <1>0, <1>8 DEF ReadLine
    <2>2. row.pc = "write"
      BY <1>0 DEF CallRow
    <2> QED
      BY <1>1, <1>8, <2>1, <2>2 DEF ReadLine, SoldAs, Selling
  <1>9. CASE RefuseCart(c) \/ RefuseReceipt(c) \/ Release(c) \/ existingOrderFor(c) \/ Told(c)
    <2>1. Goto(c, "refused") \/ Over(c)
      BY <1>9 DEF RefuseCart, RefuseReceipt, Release, existingOrderFor, Told, Refuse
    <2> QED
      BY <1>2, <1>3, <1>9, <2>1 DEF RefuseCart, RefuseReceipt, Release, existingOrderFor, Told
  <1>10. CASE claim(c)
    BY <1>2, <1>10 DEF claim, At
  <1>11. CASE BatchAborts(c)
    BY <1>2, <1>11 DEF BatchAborts
  <1>12. CASE Fails(c)
    BY <1>3, <1>12 DEF Fails
  <1> QED
    BY <1>4, <1>5, <1>6, <1>7, <1>8, <1>9, <1>10, <1>11, <1>12 DEF CallStep

\* Pricing is what the limit admits.
LEMMA PriceCounts ==
  ASSUME TablesOK, CallsOK, CodesCounted, NEW c \in Calls, Price(c)
  PROVE  CodesCounted'
  <1> DEFINE me == call[c]
  <1>1. PICK k \in CartIds :
          /\ Sellable(c, k)
          /\ call' = [call EXCEPT ![c].pc = "priced", ![c].cart = k,
                                  ![c].seen = cart[k].quantity]
    BY DEF Price
  <1>2. UNCHANGED <<orders, redemptions>> /\ redemptions \in Nat
    BY DEF Price, TablesOK
  <1>3. CASE me.code
    <2>1. redemptions < maxRedemptions
      BY <1>1, <1>3 DEF Sellable
    <2>2. Redeeming' \in SUBSET Calls /\ IsFiniteSet(Calls)
      BY CheckoutAssumption DEF Redeeming
    <2>3. /\ Cardinality(Redeeming') \in Nat /\ Cardinality(Calls) \in Nat
          /\ Cardinality(Redeeming') <= Cardinality(Calls)
      BY <2>2, FS_Subset, FS_CardinalityType
    <2>4. redemptions' + Cardinality(Redeeming') < maxRedemptions + Cardinality(Calls)
      BY <1>2, <2>1, <2>3, CheckoutAssumption
    <2>5. CodedOrders' = CodedOrders
      BY <1>2 DEF CodedOrders
    <2> QED
      BY <1>2, <2>4, <2>5 DEF CodesCounted, CodedOrders
  <1>4. CASE ~me.code
    <2> DEFINE row == [me EXCEPT !.pc = "priced", !.cart = k, !.seen = cart[k].quantity]
    <2>1. call \in [Calls -> CallRow] /\ me \in CallRow
      BY DEF CallsOK
    <2>2. call' = [call EXCEPT ![c] = row] /\ row.code = me.code
      BY <1>1, <2>1 DEF CallRow
    <2> HIDE DEF row
    <2>3. Redeeming' \subseteq Redeeming
      BY <1>4, <2>1, <2>2 DEF Redeeming
    <2> QED
      BY <1>2, <2>3, RedeemingFrame
  <1> QED
    BY <1>3, <1>4

\* The batch moves one from the calls to the count.
LEMMA BatchCounts ==
  ASSUME TablesOK, CallsOK, CodesCounted, NEW c \in Calls, Batch(c)
  PROVE  CodesCounted'
  <1> DEFINE me == call[c]
  <1>1. PICK id \in OrderIds \ {o.id : o \in orders} :
          LET order == [id |-> id, request |-> me.request, cart |-> me.cart,
                        quantity |-> me.seen, code |-> me.code, receipt |-> me.receipt]
          IN /\ order \in OrderRow
             /\ orders' = orders \cup {order}
             /\ ledger' = [ledger EXCEPT ![me.request] = id]
    BY BatchWrites
  <1> DEFINE order == [id |-> id, request |-> me.request, cart |-> me.cart,
                       quantity |-> me.seen, code |-> me.code, receipt |-> me.receipt]
  <1>2. orders' = orders \cup {order} /\ order.code = me.code /\ order.id = id
    BY <1>1
  <1> HIDE DEF order
  <1>3. order \notin orders
    BY <1>2
  <1>4. IsFiniteSet(orders) /\ redemptions \in Nat /\ me.code \in BOOLEAN
    BY DEF CodesCounted, TablesOK, CallsOK, CallRow
  <1>5. CodedOrders \in SUBSET orders
    BY DEF CodedOrders
  <1>6. IsFiniteSet(CodedOrders) /\ IsFiniteSet(orders')
    BY <1>2, <1>4, <1>5, FS_Subset, FS_AddElement
  <1>7. call'[c] = NoCall /\ \A d \in Calls \ {c} : call'[d] = call[d]
    BY OverSteps DEF Batch
  <1>8. me.pc = "claimed" /\ redemptions' = IF me.code THEN redemptions + 1 ELSE redemptions
    BY DEF Batch, At
  <1>9. Redeeming' = Redeeming \ {c}
    BY <1>7 DEF Redeeming, NoCall
  <1>10. /\ IsFiniteSet(Redeeming) /\ Cardinality(Redeeming) \in Nat
         /\ Cardinality(Calls) \in Nat /\ maxRedemptions \in Nat
    BY RedeemingIsFinite, CheckoutAssumption
  <1>11. CASE me.code
    <2>1. CodedOrders' = CodedOrders \cup {order}
      BY <1>2, <1>11 DEF CodedOrders
    <2>2. order \notin CodedOrders
      BY <1>3, <1>5
    <2>3. Cardinality(CodedOrders') = Cardinality(CodedOrders) + 1
      BY <1>6, <2>1, <2>2, FS_AddElement
    <2>4. c \in Redeeming
      BY <1>8, <1>11 DEF Redeeming
    <2>5. Cardinality(Redeeming') = Cardinality(Redeeming) - 1
      BY <1>9, <1>10, <2>4, FS_RemoveElement
    <2>6. redemptions' = redemptions + 1
      BY <1>8, <1>11
    <2>7. redemptions' + Cardinality(Redeeming') = redemptions + Cardinality(Redeeming)
      BY <1>4, <1>10, <2>5, <2>6
    <2> QED
      BY <1>6, <2>3, <2>6, <2>7 DEF CodesCounted, CodedOrders
  <1>12. CASE ~me.code
    <2>1. CodedOrders' = CodedOrders
      BY <1>2, <1>12 DEF CodedOrders
    <2>2. redemptions' = redemptions
      BY <1>8, <1>12
    <2>3. Cardinality(Redeeming') <= Cardinality(Redeeming) /\ Cardinality(Redeeming') \in Nat
      BY <1>9, <1>10, FS_Subset, FS_CardinalityType
    <2>4. redemptions' + Cardinality(Redeeming') < maxRedemptions + Cardinality(Calls)
      BY <1>4, <1>10, <2>2, <2>3 DEF CodesCounted
    <2> QED
      BY <1>6, <2>1, <2>2, <2>4 DEF CodesCounted, CodedOrders
  <1> QED
    BY <1>4, <1>11, <1>12

LEMMA CodesCountedInit == CheckoutInit => CodesCounted
  <1> SUFFICES ASSUME CheckoutInit PROVE CodesCounted
    OBVIOUS
  <1>1. Redeeming = {} /\ {o \in orders : o.code} = {} /\ orders = {} /\ redemptions = 0
    BY DEF CheckoutInit, Redeeming, NoCall
  <1>2. Cardinality(Calls) \in Nat /\ Cardinality(Calls) # 0
    BY CheckoutAssumption, FS_CardinalityType, FS_EmptySet
  <1> QED
    BY <1>1, <1>2, FS_EmptySet, CheckoutAssumption DEF CodesCounted

LEMMA CodesCountedNext ==
  CheckoutTypeOK /\ CodesCounted /\ [CheckoutNext]_checkoutVars => CodesCounted'
  <1> SUFFICES ASSUME CheckoutTypeOK, CodesCounted, [CheckoutNext]_checkoutVars
               PROVE  CodesCounted'
    OBVIOUS
  <1>1. TablesOK /\ CallsOK /\ redemptions \in Nat
    BY CheckoutTypeParts DEF TablesOK
  <1>2. CASE UNCHANGED checkoutVars \/ SetAccepting
    <2>1. UNCHANGED <<orders, redemptions>> /\ Redeeming' \subseteq Redeeming
      BY <1>2 DEF checkoutVars, SetAccepting, Redeeming
    <2> QED
      BY <1>1, <2>1, RedeemingFrame
  <1>3. ASSUME NEW c \in Calls, CallStep(c)
        PROVE  CodesCounted'
    <2>1. CASE ~Price(c) /\ ~Batch(c)
      <3>1. UNCHANGED <<orders, redemptions>> /\ Redeeming' \subseteq Redeeming
        BY <1>1, <1>3, <2>1, SellingSteps DEF Redeeming, SoldAs, Selling
      <3> QED
        BY <1>1, <3>1, RedeemingFrame
    <2> QED
      BY <1>1, <2>1, PriceCounts, BatchCounts
  <1> QED
    BY <1>2, <1>3 DEF CheckoutNext

(***************************************************************************)
(* Redemptions count orders, and calls in flight together are all that can *)
(* pass the limit, for any limit and any number of calls.                  *)
(***************************************************************************)
THEOREM RedemptionsAreCounted == CheckoutSpec => []RedemptionsCounted
  <1>1. CheckoutTypeOK /\ CodesCounted => RedemptionsCounted
    <2> SUFFICES ASSUME CheckoutTypeOK, CodesCounted PROVE RedemptionsCounted
      OBVIOUS
    <2>1. redemptions \in Nat
      BY DEF CheckoutTypeOK
    <2> QED
      BY <2>1, RedeemingIsFinite, CheckoutAssumption DEF CodesCounted, RedemptionsCounted
  <1> QED
    BY <1>1, CheckoutTypeInit, CheckoutTypeNext, CodesCountedInit, CodesCountedNext, PTL
       DEF CheckoutSpec

-----------------------------------------------------------------------------
(***************************************************************************)
(* What one cart sells.  A cart not inserted yet has sold nothing either,  *)
(* and no statement opens one that was sold.                               *)
(***************************************************************************)
Unsold(k) == cart[k].status \in {"none", "OPEN"}

CartInv ==
  \A k \in CartIds :
    /\ Cardinality(OrdersOf(k)) + Cardinality(SellersOf(k)) <= Cardinality(Calls)
    /\ Unsold(k) => OrdersOf(k) = {}

LEMMA SellersAreFew ==
  ASSUME NEW k
  PROVE  /\ IsFiniteSet(SellersOf(k)) /\ Cardinality(SellersOf(k)) \in Nat
         /\ Cardinality(SellersOf(k)) <= Cardinality(Calls) /\ Cardinality(Calls) \in Nat
         /\ Cardinality(SellersOf(k)') \in Nat
         /\ Cardinality(SellersOf(k)') <= Cardinality(Calls)
  <1>1. /\ SellersOf(k) \in SUBSET Calls /\ SellersOf(k)' \in SUBSET Calls
        /\ IsFiniteSet(Calls)
    BY CheckoutAssumption DEF SellersOf
  <1> QED
    BY <1>1, FS_Subset, FS_CardinalityType

\* Once sold, a cart is not opened again.
LEMMA SoldStaysSold ==
  ASSUME TablesOK, CallsOK, [CheckoutNext]_checkoutVars, NEW k \in CartIds, Unsold(k)'
  PROVE  Unsold(k)
  <1>1. ASSUME UNCHANGED cart PROVE Unsold(k)
    BY <1>1 DEF Unsold
  <1>2. ASSUME NEW c \in Calls, Abandon(c) \/ Batch(c) \/ WriteLine(c) PROVE Unsold(k)
    BY <1>2 DEF Abandon, Batch, WriteLine, Unsold, TablesOK, CartRow
  <1>3. ASSUME NEW c \in Calls, createCart(c) PROVE Unsold(k)
    BY <1>3 DEF createCart, Unsold, TablesOK
  <1> QED
    BY <1>1, <1>2, <1>3 DEF CheckoutNext, CallStep, checkoutVars, SetAccepting, AddRead,
       ReadLine, SecondInsert, place, Price, RefuseCart, RefuseReceipt, claim, BatchAborts,
       Release, existingOrderFor, Told, Fails

\* A step that sells nothing.
LEMMA CartFrame ==
  ASSUME CartInv, IsFiniteSet(orders), orders' = orders,
         \A d \in Calls : SoldAs(call'[d], call[d]),
         \A k \in CartIds : Unsold(k)' => Unsold(k)
  PROVE  CartInv'
  <1> SUFFICES ASSUME NEW k \in CartIds
               PROVE  /\ Cardinality(OrdersOf(k)') + Cardinality(SellersOf(k)')
                           <= Cardinality(Calls)
                      /\ Unsold(k)' => OrdersOf(k)' = {}
    BY DEF CartInv
  <1>1. OrdersOf(k)' = OrdersOf(k) /\ OrdersOf(k) \in SUBSET orders
    BY DEF OrdersOf
  <1>2. SellersOf(k)' \in SUBSET SellersOf(k)
    BY DEF SellersOf, SoldAs, Selling
  <1>3. Cardinality(SellersOf(k)') <= Cardinality(SellersOf(k)) /\ Cardinality(OrdersOf(k)) \in Nat
    BY <1>1, <1>2, SellersAreFew, FS_Subset, FS_CardinalityType
  <1> QED
    BY <1>1, <1>3, SellersAreFew DEF CartInv

\* Pricing asks for an open cart.
LEMMA PriceSells ==
  ASSUME TablesOK, CallsOK, CartInv, IsFiniteSet(orders), NEW c \in Calls, Price(c)
  PROVE  CartInv'
  <1> DEFINE me == call[c]
  <1>1. PICK mine \in CartIds :
          /\ Sellable(c, mine)
          /\ call' = [call EXCEPT ![c].pc = "priced", ![c].cart = mine,
                                  ![c].seen = cart[mine].quantity]
    BY DEF Price
  <1> DEFINE row == [me EXCEPT !.pc = "priced", !.cart = mine, !.seen = cart[mine].quantity]
  <1>2. call \in [Calls -> CallRow] /\ me \in CallRow
    BY DEF CallsOK
  <1>3. call' = [call EXCEPT ![c] = row] /\ row.cart = mine
    BY <1>1, <1>2 DEF CallRow
  <1> HIDE DEF row
  <1>4. cart' = cart /\ orders' = orders
    BY DEF Price
  <1>5. ASSUME NEW k \in CartIds
        PROVE  /\ Cardinality(OrdersOf(k)') + Cardinality(SellersOf(k)') <= Cardinality(Calls)
               /\ Unsold(k)' => OrdersOf(k)' = {}
    <2>1. OrdersOf(k)' = OrdersOf(k) /\ (Unsold(k)' <=> Unsold(k))
      BY <1>4 DEF OrdersOf, Unsold
    <2>2. CASE k = mine
      <3>1. OrdersOf(k) = {}
        BY <1>1, <2>2 DEF Sellable, CartInv, Unsold
      <3> QED
        BY <2>1, <3>1, SellersAreFew, FS_EmptySet
    <2>3. CASE k # mine
      <3>1. SellersOf(k)' \in SUBSET SellersOf(k)
        BY <1>2, <1>3, <2>3 DEF SellersOf
      <3>2. Cardinality(SellersOf(k)') <= Cardinality(SellersOf(k))
        BY <3>1, SellersAreFew, FS_Subset
      <3>3. /\ Cardinality(OrdersOf(k)) + Cardinality(SellersOf(k)) <= Cardinality(Calls)
            /\ Unsold(k) => OrdersOf(k) = {}
        BY DEF CartInv
      <3>4. OrdersOf(k) \in SUBSET orders
        BY DEF OrdersOf
      <3>5. Cardinality(OrdersOf(k)) \in Nat
        BY <3>4, FS_Subset, FS_CardinalityType
      <3> QED
        BY <2>1, <3>2, <3>3, <3>5, SellersAreFew
    <2> QED
      BY <2>2, <2>3
  <1> QED
    BY <1>5 DEF CartInv

\* The batch turns a call that was to sell the cart into an order of it.
LEMMA BatchSells ==
  ASSUME TablesOK, CallsOK, CartInv, IsFiniteSet(orders), NEW c \in Calls, Batch(c)
  PROVE  CartInv'
  <1> DEFINE me == call[c]
  <1>1. PICK id \in OrderIds \ {o.id : o \in orders} :
          LET order == [id |-> id, request |-> me.request, cart |-> me.cart,
                        quantity |-> me.seen, code |-> me.code, receipt |-> me.receipt]
          IN orders' = orders \cup {order}
    BY BatchWrites
  <1> DEFINE order == [id |-> id, request |-> me.request, cart |-> me.cart,
                       quantity |-> me.seen, code |-> me.code, receipt |-> me.receipt]
  <1>2. orders' = orders \cup {order} /\ order.cart = me.cart /\ order.id = id
    BY <1>1
  <1> HIDE DEF order
  <1>3. order \notin orders /\ me.pc = "claimed" /\ me.cart \in CartIds
    BY <1>2, BatchWrites
  <1>4. call'[c] = NoCall /\ \A d \in Calls \ {c} : call'[d] = call[d]
    BY OverSteps DEF Batch
  <1>5. cart'[me.cart].status = "CHECKED_OUT"
        /\ \A k \in CartIds \ {me.cart} : cart'[k] = cart[k]
    BY <1>3 DEF Batch, TablesOK, CartRow
  <1>6. ASSUME NEW k \in CartIds
        PROVE  /\ Cardinality(OrdersOf(k)') + Cardinality(SellersOf(k)') <= Cardinality(Calls)
               /\ Unsold(k)' => OrdersOf(k)' = {}
    <2>1. SellersOf(k)' = SellersOf(k) \ {c}
      BY <1>4 DEF SellersOf, NoCall
    <2>2. OrdersOf(k) \in SUBSET orders
      BY DEF OrdersOf
    <2>3. IsFiniteSet(OrdersOf(k)) /\ Cardinality(OrdersOf(k)) \in Nat
      BY <2>2, FS_Subset, FS_CardinalityType
    <2>4. /\ Cardinality(OrdersOf(k)) + Cardinality(SellersOf(k)) <= Cardinality(Calls)
          /\ Unsold(k) => OrdersOf(k) = {}
      BY DEF CartInv
    <2>5. CASE k = me.cart
      <3>1. OrdersOf(k)' = OrdersOf(k) \cup {order} /\ order \notin OrdersOf(k)
        BY <1>2, <1>3, <2>2, <2>5 DEF OrdersOf
      <3>2. Cardinality(OrdersOf(k)') = Cardinality(OrdersOf(k)) + 1
        BY <2>3, <3>1, FS_AddElement
      <3>3. c \in SellersOf(k)
        BY <1>3, <2>5 DEF SellersOf
      <3>4. Cardinality(SellersOf(k)') = Cardinality(SellersOf(k)) - 1
        BY <2>1, <3>3, SellersAreFew, FS_RemoveElement
      <3>5. ~Unsold(k)'
        BY <1>5, <2>5 DEF Unsold
      <3> QED
        BY <2>3, <2>4, <3>2, <3>4, <3>5, SellersAreFew
    <2>6. CASE k # me.cart
      <3>1. OrdersOf(k)' = OrdersOf(k)
        BY <1>2, <2>6 DEF OrdersOf
      <3>2. Cardinality(SellersOf(k)') <= Cardinality(SellersOf(k))
        BY <2>1, SellersAreFew, FS_Subset
      <3>3. Unsold(k)' <=> Unsold(k)
        BY <1>5, <2>6 DEF Unsold
      <3> QED
        BY <2>3, <2>4, <3>1, <3>2, <3>3, SellersAreFew
    <2> QED
      BY <2>5, <2>6
  <1> QED
    BY <1>6 DEF CartInv

LEMMA CartInvInit == CheckoutInit => CartInv
  <1> SUFFICES ASSUME CheckoutInit, NEW k \in CartIds
               PROVE  /\ Cardinality(OrdersOf(k)) + Cardinality(SellersOf(k))
                           <= Cardinality(Calls)
                      /\ OrdersOf(k) = {}
    BY DEF CartInv
  <1>1. OrdersOf(k) = {}
    BY DEF CheckoutInit, OrdersOf
  <1> QED
    BY <1>1, SellersAreFew, FS_EmptySet

LEMMA CartInvNext ==
  CheckoutTypeOK /\ CodesCounted /\ CartInv /\ [CheckoutNext]_checkoutVars => CartInv'
  <1> SUFFICES ASSUME CheckoutTypeOK, CodesCounted, CartInv, [CheckoutNext]_checkoutVars
               PROVE  CartInv'
    OBVIOUS
  <1>1. TablesOK /\ CallsOK /\ IsFiniteSet(orders)
    BY CheckoutTypeParts DEF CodesCounted
  <1>2. \A k \in CartIds : Unsold(k)' => Unsold(k)
    BY <1>1, SoldStaysSold
  <1>3. CASE UNCHANGED checkoutVars \/ SetAccepting
    <2>1. orders' = orders /\ call' = call
      BY <1>3 DEF checkoutVars, SetAccepting
    <2> QED
      BY <1>1, <1>2, <2>1, CartFrame DEF SoldAs
  <1>4. ASSUME NEW c \in Calls, CallStep(c)
        PROVE  CartInv'
    <2>1. CASE ~Price(c) /\ ~Batch(c)
      BY <1>1, <1>2, <1>4, <2>1, SellingSteps, CartFrame
    <2> QED
      BY <1>1, <2>1, PriceSells, BatchSells
  <1> QED
    BY <1>3, <1>4 DEF CheckoutNext

(***************************************************************************)
(* A cart is sold again only to calls that priced it while it was open,    *)
(* for any number of carts and calls.                                      *)
(***************************************************************************)
THEOREM CartsAreSoldTogether == CheckoutSpec => []CartsSoldTogether
  <1>1. CartInv => CartsSoldTogether
    BY DEF CartInv, Unsold, CartsSoldTogether
  <1> QED
    BY <1>1, CheckoutTypeInit, CheckoutTypeNext, CodesCountedInit, CodesCountedNext,
       CartInvInit, CartInvNext, PTL DEF CheckoutSpec

-----------------------------------------------------------------------------
(***************************************************************************)
(* The placements implement PlacePromise.  An order is written where its   *)
(* id's claim still has none and its picture is shown for the first time;  *)
(* every other step leaves the answers as they are, a claim released       *)
(* included.                                                               *)
(***************************************************************************)
LEMMA PromiseStutters ==
  ASSUME UNCHANGED orders, \A r \in RequestIds : AnswerOf(r)' = AnswerOf(r)
  PROVE  UNCHANGED Promise!promiseVars
  <1>1. \A x \in Receipts : PaidBy(x)' = PaidBy(x)
    BY DEF PaidBy, Used
  <1> QED
    BY <1>1 DEF Promise!promiseVars

\* Steps that write no order give no answer.
LEMMA AnswersStay ==
  ASSUME CheckoutInv, NEW c \in Calls, CallStep(c), ~Batch(c), NEW r \in RequestIds
  PROVE  AnswerOf(r)' = AnswerOf(r) /\ UNCHANGED orders
  <1>0. TablesOK /\ CallsOK
    BY CheckoutTypeParts DEF CheckoutInv
  <1>1. ASSUME UNCHANGED ledger PROVE AnswerOf(r)' = AnswerOf(r)
    BY <1>1 DEF AnswerOf, Ordered
  <1>2. UNCHANGED orders
    BY DEF CallStep, AddRead, Abandon, createCart, ReadLine, WriteLine, SecondInsert, place,
       Price, RefuseCart, RefuseReceipt, claim, BatchAborts, Release, existingOrderFor, Told,
       Fails
  <1>3. {"none", "empty"} \cap OrderIds = {}
    BY CheckoutAssumption
  <1>4. CASE claim(c)
    <2>1. ledger' = ledger \/ (ledger[call[c].request] = "none"
                               /\ ledger' = [ledger EXCEPT ![call[c].request] = "empty"])
      BY <1>4 DEF claim
    <2> QED
      BY <1>0, <1>1, <1>2, <1>3, <2>1 DEF AnswerOf, Ordered, TablesOK
  <1>5. CASE Release(c)
    <2>1. ledger' = [ledger EXCEPT ![call[c].request] =
                       IF ledger[call[c].request] = "empty" THEN "none"
                       ELSE ledger[call[c].request]]
      BY <1>0, <1>5 DEF Release, TablesOK
    <2> QED
      BY <1>0, <1>2, <1>3, <2>1 DEF AnswerOf, Ordered, TablesOK
  <1>6. CASE ~claim(c) /\ ~Release(c)
    <2>1. UNCHANGED ledger
      BY <1>6 DEF CallStep, AddRead, Abandon, createCart, ReadLine, WriteLine, SecondInsert,
         place, Price, RefuseCart, RefuseReceipt, BatchAborts, existingOrderFor, Told, Fails
    <2> QED
      BY <1>1, <1>2, <2>1
  <1> QED
    BY <1>4, <1>5, <1>6

\* What a picture paid for, whichever order is looked at.
LEMMA OneIsChosen ==
  ASSUME NEW S, NEW o \in S, \A p \in S : p.receipt = o.receipt => p = o
  PROVE  (CHOOSE p \in S : p.receipt = o.receipt) = o
  <1> DEFINE p == CHOOSE p \in S : p.receipt = o.receipt
  <1>1. p \in S /\ p.receipt = o.receipt
    OBVIOUS
  <1> QED
    BY <1>1

LEMMA PaidByIs ==
  OneOrderEach => \A o \in orders : o.receipt # None => PaidBy(o.receipt) = o.id
  <1> SUFFICES ASSUME OneOrderEach, NEW o \in orders, o.receipt # None
               PROVE  PaidBy(o.receipt) = o.id
    OBVIOUS
  <1>1. Used(o.receipt)
    BY DEF Used
  <1>2. \A p \in orders : p.receipt = o.receipt => p = o
    BY DEF OneOrderEach
  <1>3. (CHOOSE p \in orders : p.receipt = o.receipt) = o
    BY <1>2, OneIsChosen
  <1> QED
    BY <1>1, <1>3 DEF PaidBy

LEMMA PaidByThen ==
  OneOrderEach' => \A o \in orders' : o.receipt # None => PaidBy(o.receipt)' = o.id
  <1> SUFFICES ASSUME OneOrderEach', NEW o \in orders', o.receipt # None
               PROVE  PaidBy(o.receipt)' = o.id
    OBVIOUS
  <1>1. Used(o.receipt)'
    BY DEF Used
  <1>2. \A p \in orders' : p.receipt = o.receipt => p = o
    BY DEF OneOrderEach
  <1>3. (CHOOSE p \in orders' : p.receipt = o.receipt) = o
    BY <1>2, OneIsChosen
  <1> QED
    BY <1>1, <1>3 DEF PaidBy

LEMMA BatchPlaces ==
  ASSUME CheckoutInv, CheckoutInv', NEW c \in Calls, Batch(c)
  PROVE  Promise!PlaceNext
  <1> DEFINE me == call[c]
             mine == me.request
             x == me.receipt
  <1>0. TablesOK /\ CallsOK /\ OneOrderEach /\ ClaimsHaveOwners /\ OneOrderEach'
    BY CheckoutTypeParts DEF CheckoutInv
  <1>1. PICK id \in OrderIds \ {o.id : o \in orders} :
          LET order == [id |-> id, request |-> mine, cart |-> me.cart,
                        quantity |-> me.seen, code |-> me.code, receipt |-> x]
          IN /\ order \in OrderRow
             /\ orders' = orders \cup {order}
             /\ ledger' = [ledger EXCEPT ![mine] = id]
    BY <1>0, BatchWrites
  <1> DEFINE order == [id |-> id, request |-> mine, cart |-> me.cart,
                       quantity |-> me.seen, code |-> me.code, receipt |-> x]
  <1>2. /\ orders' = orders \cup {order} /\ order.id = id /\ order.receipt = x
        /\ ledger' = [ledger EXCEPT ![mine] = id]
    BY <1>1
  <1> HIDE DEF order
  <1>3. mine \in RequestIds /\ me.pc = "claimed" /\ ~Used(x) /\ x \in Receipts \cup {None}
    BY <1>0, BatchWrites DEF CallsOK, CallRow
  <1>4. ledger[mine] = "empty"
    <2>1. c \in Holders(mine)
      BY <1>3 DEF Holders
    <2> QED
      BY <1>0, <1>3, <2>1 DEF ClaimsHaveOwners
  <1>5. None \notin OrderIds /\ None \notin Receipts /\ {"none", "empty"} \cap OrderIds = {}
    BY CheckoutAssumption
  <1>6. Promise!Place(mine, id)
    <2>1. AnswerOf(mine) = None
      BY <1>4, <1>5 DEF AnswerOf, Ordered
    <2>2. ASSUME NEW q \in RequestIds PROVE AnswerOf(q) # id
      <3>1. CASE Ordered(q)
        <4>1. PICK o \in orders : o.request = q
          BY <1>0, <3>1 DEF OneOrderEach
        <4>2. ledger[q] = o.id
          BY <1>0, <4>1 DEF OneOrderEach
        <4> QED
          BY <1>1, <3>1, <4>2 DEF AnswerOf
      <3>2. CASE ~Ordered(q)
        BY <1>5, <3>2 DEF AnswerOf
      <3> QED
        BY <3>1, <3>2
    <2>3. ASSUME NEW q \in RequestIds
          PROVE  AnswerOf(q)' = IF q = mine THEN id ELSE AnswerOf(q)
      BY <1>0, <1>2, <1>3 DEF AnswerOf, Ordered, TablesOK
    <2>4. [r \in RequestIds |-> AnswerOf(r)]'
            = [[r \in RequestIds |-> AnswerOf(r)] EXCEPT ![mine] = id]
      BY <1>3, <2>3
    <2> QED
      BY <1>3, <2>1, <2>2, <2>4 DEF Promise!Place
  <1>7. ASSUME NEW y \in Receipts, y # x
        PROVE  PaidBy(y)' = PaidBy(y)
    <2>1. Used(y)' <=> Used(y)
      BY <1>2, <1>7 DEF Used
    <2>2. CASE Used(y)
      <3>1. PICK o \in orders : o.receipt = y
        BY <2>2 DEF Used
      <3>2. PaidBy(y) = o.id
        BY <1>0, <1>5, <3>1, PaidByIs
      <3>3. o \in orders' /\ o.receipt # None
        BY <1>2, <1>5, <3>1
      <3>4. PaidBy(o.receipt)' = o.id
        BY <1>0, <3>3, PaidByThen
      <3> QED
        BY <3>1, <3>2, <3>4
    <2>3. CASE ~Used(y)
      BY <2>1, <2>3 DEF PaidBy
    <2> QED
      BY <2>2, <2>3
  <1>8. CASE x = None
    <2>1. \A y \in Receipts : PaidBy(y)' = PaidBy(y)
      BY <1>5, <1>7, <1>8
    <2>2. Promise!ShownNothing
      BY <2>1 DEF Promise!ShownNothing
    <2> QED
      BY <1>3, <1>6, <2>2 DEF Promise!PlaceNext
  <1>9. CASE x # None
    <2>1. PICK y \in Receipts : y = x
      BY <1>3, <1>9
    <2>2. PaidBy(y) = None
      BY <1>3, <2>1 DEF PaidBy
    <2>3. PICK o \in orders' : o.receipt = y /\ o.id = id
      BY <1>2, <2>1
    <2>4. PaidBy(y)' = id
      <3>1. PaidBy(o.receipt)' = o.id
        BY <1>0, <1>5, <2>3, PaidByThen
      <3> QED
        BY <2>3, <3>1
    <2>5. ASSUME NEW z \in Receipts PROVE PaidBy(z)' = IF z = y THEN id ELSE PaidBy(z)
      BY <1>7, <2>1, <2>4
    <2>6. [z \in Receipts |-> PaidBy(z)]' = [[z \in Receipts |-> PaidBy(z)] EXCEPT ![y] = id]
      BY <2>5
    <2>7. Promise!Shown(y, id)
      BY <2>2, <2>6 DEF Promise!Shown
    <2> QED
      BY <1>3, <1>6, <2>7 DEF Promise!PlaceNext
  <1> QED
    BY <1>8, <1>9

(***************************************************************************)
(* Every behaviour of the placements is one PlacePromise allows: an id     *)
(* that got its order keeps it, a picture stays with the order it paid for.*)
(***************************************************************************)
THEOREM PlacementsKeepPromise == CheckoutSpec => PlacesOnce
  <1>1. CheckoutInit => Promise!PlaceInit
    <2> SUFFICES ASSUME CheckoutInit PROVE Promise!PlaceInit
      OBVIOUS
    <2>1. \A r \in RequestIds : AnswerOf(r) = None
      BY CheckoutAssumption DEF CheckoutInit, AnswerOf, Ordered
    <2>2. \A x \in Receipts : PaidBy(x) = None
      BY DEF CheckoutInit, PaidBy, Used
    <2> QED
      BY <2>1, <2>2 DEF Promise!PlaceInit
  <1>2. CheckoutInv /\ CheckoutInv' /\ [CheckoutNext]_checkoutVars
          => [Promise!PlaceNext]_(Promise!promiseVars)
    <2> SUFFICES ASSUME CheckoutInv, CheckoutInv', [CheckoutNext]_checkoutVars
                 PROVE  [Promise!PlaceNext]_(Promise!promiseVars)
      OBVIOUS
    <2>1. CASE UNCHANGED checkoutVars \/ SetAccepting
      <3>1. UNCHANGED <<orders, ledger>>
        BY <2>1 DEF checkoutVars, SetAccepting
      <3>2. \A r \in RequestIds : AnswerOf(r)' = AnswerOf(r)
        BY <3>1 DEF AnswerOf, Ordered
      <3> QED
        BY <3>1, <3>2, PromiseStutters
    <2>2. ASSUME NEW c \in Calls, CallStep(c)
          PROVE  [Promise!PlaceNext]_(Promise!promiseVars)
      <3>1. CASE Batch(c)
        BY <3>1, BatchPlaces
      <3>2. CASE ~Batch(c)
        <4>1. UNCHANGED orders
          BY <2>2, <3>2 DEF CallStep, AddRead, Abandon, createCart, ReadLine, WriteLine,
             SecondInsert, place, Price, RefuseCart, RefuseReceipt, claim, BatchAborts,
             Release, existingOrderFor, Told, Fails
        <4> QED
          BY <2>2, <3>2, <4>1, AnswersStay, PromiseStutters
      <3> QED
        BY <3>1, <3>2
    <2> QED
      BY <2>1, <2>2 DEF CheckoutNext
  <1> QED
    BY <1>1, <1>2, CheckoutInvInit, CheckoutInvNext, PTL
       DEF CheckoutSpec, PlacesOnce, Promise!PlaceSpec

-----------------------------------------------------------------------------
(***************************************************************************)
(* Placements that keep out of each other's way: no two with one request   *)
(* id at once.  What one was told of the ledger is then still so.          *)
(***************************************************************************)
LEMMA OthersStay ==
  ASSUME CallsOK, NEW c \in Calls, CallStep(c), NEW d \in Calls \ {c}
  PROVE  call'[d] = call[d]
  <1>1. call \in [Calls -> CallRow]
    BY DEF CallsOK
  <1>2. CASE \/ \E shop \in Shops : AddRead(c, shop)
             \/ Abandon(c) \/ createCart(c) \/ ReadLine(c) \/ WriteLine(c) \/ SecondInsert(c)
    BY <1>1, <1>2 DEF AddRead, Abandon, createCart, ReadLine, WriteLine, SecondInsert, Goto, Over
  <1>3. CASE \/ \E r \in RequestIds, x \in Receipts \cup {None}, code \in BOOLEAN :
                  place(c, r, x, code)
             \/ Price(c) \/ RefuseCart(c) \/ RefuseReceipt(c) \/ claim(c)
    BY <1>1, <1>3 DEF place, Price, RefuseCart, RefuseReceipt, claim, Goto, Over, Refuse
  <1>4. CASE Batch(c) \/ BatchAborts(c) \/ Release(c) \/ existingOrderFor(c) \/ Told(c) \/ Fails(c)
    BY <1>1, <1>4 DEF Batch, BatchAborts, Release, existingOrderFor, Told, Fails, Goto, Over, Refuse
  <1> QED
    BY <1>2, <1>3, <1>4 DEF CallStep

\* Where a call stands after it went on, or was over.
LEMMA GoesTo ==
  ASSUME CallsOK, NEW c \in Calls, NEW pc, Goto(c, pc)
  PROVE  call'[c].pc = pc /\ call'[c].request = call[c].request
  BY DEF CallsOK, CallRow, Goto

LEMMA IsOver ==
  ASSUME CallsOK, NEW c \in Calls, Over(c)
  PROVE  call'[c].pc = "idle" /\ call'[c].request = None
  BY DEF CallsOK, Over, NoCall

LEMMA TapStarts ==
  ASSUME CallsOK, NEW c \in Calls, NEW shop \in Shops, AddRead(c, shop)
  PROVE  call'[c].pc \in {"create", "line", "abandon"} /\ call'[c].request = None
  <1>1. call \in [Calls -> CallRow]
    BY DEF CallsOK
  <1>2. CASE call' = [call EXCEPT ![c] = [NoCall EXCEPT !.pc = "create", !.shop = shop]]
    BY <1>1, <1>2 DEF NoCall
  <1>3. ASSUME NEW k \in OpenCarts,
               call' = [call EXCEPT ![c] =
                 [NoCall EXCEPT !.pc = IF cart[k].shop = shop THEN "line" ELSE "abandon",
                                !.shop = shop, !.cart = k]]
        PROVE  call'[c].pc \in {"create", "line", "abandon"} /\ call'[c].request = None
    BY <1>1, <1>3 DEF NoCall
  <1> QED
    BY <1>2, <1>3 DEF AddRead

LEMMA CartIsMade ==
  ASSUME CallsOK, NEW c \in Calls, createCart(c)
  PROVE  call'[c].pc = "line" /\ call'[c].request = call[c].request
  <1>1. PICK k \in CartIds : call' = [call EXCEPT ![c].pc = "line", ![c].cart = k]
    BY DEF createCart
  <1> QED
    BY <1>1 DEF CallsOK, CallRow

\* A placement in flight asks for what has no order yet, and only placements
\* are refused.
Unanswered(c) ==
  /\ call[c].request # None => ~Ordered(call[c].request)
  /\ At(c, "refused") => call[c].request # None

AllUnanswered == \A c \in Calls : Unanswered(c)

\* What a call asks for next: what it asked for, nothing, or what has no order.
LEMMA AsksForNew ==
  ASSUME CallsOK, NEW c \in Calls, CallStep(c), Unanswered(c)
  PROVE  /\ call'[c].request \in {call[c].request, None} \/ ~Ordered(call'[c].request)
         /\ At(c, "refused")' => call'[c].request = call[c].request /\ call[c].request # None
  <1>1. call \in [Calls -> CallRow] /\ CallOK(call[c])
    BY DEF CallsOK
  <1>2. CASE (\E shop \in Shops : AddRead(c, shop)) \/ createCart(c) \/ ReadLine(c) \/ Price(c)
    <2>1. CASE ReadLine(c)
      BY <1>1, <2>1 DEF ReadLine, CallRow, At
    <2>2. CASE Price(c)
      <3>1. PICK k \in CartIds :
              call' = [call EXCEPT ![c].pc = "priced", ![c].cart = k,
                                   ![c].seen = cart[k].quantity]
        BY <2>2 DEF Price
      <3> QED
        BY <1>1, <3>1 DEF CallRow, At
    <2> QED
      BY <1>2, <2>1, <2>2, TapStarts, CartIsMade DEF At
  <1>3. CASE \E r \in RequestIds, x \in Receipts \cup {None}, code \in BOOLEAN :
               place(c, r, x, code)
    BY <1>1, <1>3 DEF place, NoCall, At
  <1>4. CASE Abandon(c) \/ WriteLine(c) \/ SecondInsert(c)
    <2>1. Over(c) \/ Goto(c, "create") \/ Goto(c, "added")
      BY <1>4 DEF Abandon, WriteLine, SecondInsert
    <2> QED
      BY <2>1, GoesTo, IsOver DEF At
  <1>5. CASE \/ RefuseCart(c) \/ RefuseReceipt(c) \/ claim(c)
             \/ BatchAborts(c) \/ Release(c) \/ existingOrderFor(c)
    <2>1. call[c].request # None
      BY <1>1, <1>5, CheckoutAssumption DEF CallOK, PlaceSteps, RefuseCart,
         RefuseReceipt, claim, BatchAborts, Release, existingOrderFor, At
    <2>2. Over(c) \/ \E pc \in {"refused", "claimed", "polling", "release"} : Goto(c, pc)
      BY <1>5 DEF RefuseCart, RefuseReceipt, claim, BatchAborts, Release, existingOrderFor,
         Refuse
    <2> QED
      BY <2>1, <2>2, GoesTo, IsOver DEF At
  <1>6. CASE Batch(c) \/ Told(c) \/ Fails(c)
    BY <1>6, IsOver DEF Batch, Told, Fails, At
  <1> QED
    BY <1>2, <1>3, <1>4, <1>5, <1>6 DEF CallStep

LEMMA UnansweredNext ==
  CheckoutInv /\ PlacesApart /\ AllUnanswered /\ [CheckoutNext]_checkoutVars => AllUnanswered'
  <1> SUFFICES ASSUME CheckoutInv, PlacesApart, AllUnanswered, [CheckoutNext]_checkoutVars,
                      NEW c \in Calls
               PROVE  Unanswered(c)'
    BY DEF AllUnanswered
  <1>0. TablesOK /\ CallsOK /\ Unanswered(c)
    BY CheckoutTypeParts DEF CheckoutInv, AllUnanswered
  <1>1. CASE UNCHANGED checkoutVars \/ SetAccepting
    BY <1>0, <1>1 DEF checkoutVars, SetAccepting, Unanswered, Ordered, At
  <1>2. ASSUME NEW d \in Calls, CallStep(d) PROVE Unanswered(c)'
    <2>0. CallsOK'
      BY CheckoutInvNext, CheckoutTypeParts DEF CheckoutInv, CheckoutTypeOK, CallsOK, CallOK
    <2>1. call'[c].request # None => call'[c].request \in RequestIds
      BY <2>0 DEF CallsOK, CallRow
    <2>2. /\ call'[c].request # None => ~Ordered(call'[c].request)
          /\ At(c, "refused")' => call'[c].request # None
      <3>1. CASE d = c
        BY <1>0, <1>2, <3>1, AsksForNew DEF Unanswered
      <3>2. CASE d # c
        BY <1>0, <1>2, <3>2, OthersStay DEF Unanswered, At
      <3> QED
        BY <3>1, <3>2
    <2>3. CASE ~Batch(d)
      <3>1. ASSUME NEW r \in RequestIds, ~Ordered(r) PROVE ~Ordered(r)'
        BY <1>2, <2>3, <3>1, AnswersStay, CheckoutAssumption DEF AnswerOf, Ordered
      <3> QED
        BY <2>1, <2>2, <3>1 DEF Unanswered, Ordered, At
    <2>4. CASE Batch(d) /\ c # d
      <3>1. call'[c] = call[c]
        BY <1>0, <1>2, <2>4, OthersStay
      <3>2. call[c].request # None => call[c].request # call[d].request
        BY <2>4 DEF PlacesApart
      <3>3. \A r \in RequestIds \ {call[d].request} : ledger'[r] = ledger[r]
        BY <1>0, <2>4 DEF Batch, TablesOK
      <3> QED
        BY <2>1, <2>2, <3>1, <3>2, <3>3 DEF Unanswered, Ordered, At
    <2>5. CASE Batch(d) /\ c = d
      <3>1. call'[c] = NoCall
        BY <1>0, <2>5, OverSteps DEF Batch
      <3> QED
        BY <3>1 DEF Unanswered, NoCall, At
    <2> QED
      BY <2>3, <2>4, <2>5
  <1> QED
    BY <1>1, <1>2 DEF CheckoutNext

(***************************************************************************)
(* While no two calls of one request id are in flight together, a          *)
(* placement that is refused has no order, whatever calls of other ids     *)
(* buy, tap or fail meanwhile: a duplicate gets its order.                 *)
(***************************************************************************)
THEOREM DuplicatesAreAnswered == CheckoutSpec /\ []PlacesApart => []DuplicatesGetTheirOrder
  <1>1. CheckoutInit => AllUnanswered
    BY DEF CheckoutInit, AllUnanswered, Unanswered, At, NoCall
  <1>2. AllUnanswered => DuplicatesGetTheirOrder
    BY DEF AllUnanswered, Unanswered, DuplicatesGetTheirOrder
  <1> QED
    BY <1>1, <1>2, CheckoutInvInit, CheckoutInvNext, UnansweredNext, PTL DEF CheckoutSpec

=============================================================================

------------------------------- MODULE Checkout -------------------------------
(***************************************************************************)
(* A customer's cart and the orders placed from it: addItem and createCart *)
(* of cart.ts, place, claim and existingOrderFor of orders.ts.             *)
(*                                                                         *)
(* A client names each placement with a clientRequestId and sends it again *)
(* when no answer came.  The ledger row with that id is claimed by one     *)
(* insert on a unique index, and gets its order in the batch that writes   *)
(* the order.  Nothing else ties a call's reads to its writes: every other *)
(* call of the same customer, on this phone or another, runs in between.   *)
(*                                                                         *)
(* One customer, one branch, and one product of each shop; the lines of an *)
(* order are the quantity of that product.  Which prices an order carries  *)
(* is data here.  updateItem, removeItem and clear are left out.           *)
(***************************************************************************)
EXTENDS Naturals, FiniteSets

CONSTANTS RequestIds,      \* clientRequestIds of the placements
          Calls,           \* the customer's concurrent calls
          CartIds, OrderIds,
          Shops,
          Receipts,        \* pictures of a transfer, by their sha256
          MaxQuantity,     \* MAX_LINE_QUANTITY
          maxRedemptions,  \* of the promotion
          None             \* null

ASSUME CheckoutAssumption ==
  /\ IsFiniteSet(Calls) /\ Calls # {}
  /\ MaxQuantity \in Nat \ {0}
  /\ maxRedemptions \in Nat
  /\ None \notin RequestIds \cup CartIds \cup OrderIds \cup Shops \cup Receipts
  /\ {"none", "empty"} \cap OrderIds = {}

VARIABLES cart,         \* the cart table, with the one line of each
          ledger,       \* notification rows of kind ORDER_LEDGER_KIND
          orders,       \* the order table
          accepting,    \* the branch takes orders
          redemptions,  \* of the promotion
          call,         \* the calls in flight
          stranded      \* history: ids whose call died, or failed, holding the claim

checkoutVars == <<cart, ledger, orders, accepting, redemptions, call, stranded>>

-----------------------------------------------------------------------------
\* quantity 0 is a cart without its line; "none" a row not inserted yet.
CartRow == [status : {"none", "OPEN", "CHECKED_OUT", "ABANDONED"},
            shop : Shops \cup {None}, quantity : 0..MaxQuantity]

OrderRow == [id : OrderIds, request : RequestIds, cart : CartIds,
             quantity : 1..MaxQuantity, code : BOOLEAN, receipt : Receipts \cup {None}]

\* What a call will do next; seen is the quantity it read.
PlaceSteps == {"asked", "priced", "claimed", "release", "polling"}
AddSteps == {"abandon", "create", "line", "write"}
CallRow == [pc : PlaceSteps \cup AddSteps \cup {"idle", "refused", "added"},
            request : RequestIds \cup {None}, cart : CartIds \cup {None},
            shop : Shops \cup {None}, seen : 0..MaxQuantity,
            code : BOOLEAN, receipt : Receipts \cup {None}]

NoCall == [pc |-> "idle", request |-> None, cart |-> None, shop |-> None,
           seen |-> 0, code |-> FALSE, receipt |-> None]

CheckoutInit ==
  /\ cart = [k \in CartIds |-> [status |-> "none", shop |-> None, quantity |-> 0]]
  /\ ledger = [r \in RequestIds |-> "none"]
  /\ orders = {}
  /\ accepting = TRUE
  /\ redemptions = 0
  /\ call = [c \in Calls |-> NoCall]
  /\ stranded = {}

At(c, pc) == call[c].pc = pc
Goto(c, pc) == call' = [call EXCEPT ![c].pc = pc]
Over(c) == call' = [call EXCEPT ![c] = NoCall]
\* A placement that throws, or an addItem that is done, is told so before it is over.
Refuse(c) == Goto(c, "refused")

OpenCarts == {k \in CartIds : cart[k].status = "OPEN"}
Used(x) == x # None /\ \E o \in orders : o.receipt = x
Ordered(r) == ledger[r] \in OrderIds

-----------------------------------------------------------------------------
(***************************************************************************)
(* addItem: read the open cart, replace it when it is another shop's, read *)
(* the line, write the line.                                               *)
(***************************************************************************)
AddRead(c, shop) ==
  /\ At(c, "idle")
  /\ \/ /\ OpenCarts = {}
        /\ call' = [call EXCEPT ![c] = [NoCall EXCEPT !.pc = "create", !.shop = shop]]
     \/ \E k \in OpenCarts :
          call' = [call EXCEPT ![c] =
            [NoCall EXCEPT !.pc = IF cart[k].shop = shop THEN "line" ELSE "abandon",
                           !.shop = shop, !.cart = k]]
  /\ UNCHANGED <<cart, ledger, orders, accepting, redemptions, stranded>>

\* onBusinessConflict is "replace"; a "reject" ended with its read.
Abandon(c) ==
  /\ At(c, "abandon")
  /\ cart' = [cart EXCEPT ![call[c].cart].status = "ABANDONED"]
  /\ Goto(c, "create")
  /\ UNCHANGED <<ledger, orders, accepting, redemptions, stranded>>

createCart(c) ==
  /\ At(c, "create")
  /\ \E k \in CartIds :
       /\ cart[k].status = "none"
       /\ cart' = [cart EXCEPT ![k] = [@ EXCEPT !.status = "OPEN", !.shop = call[c].shop]]
       /\ call' = [call EXCEPT ![c].pc = "line", ![c].cart = k]
  /\ UNCHANGED <<ledger, orders, accepting, redemptions, stranded>>

ReadLine(c) ==
  /\ At(c, "line")
  /\ call' = [call EXCEPT ![c].pc = "write", ![c].seen = cart[call[c].cart].quantity]
  /\ UNCHANGED <<cart, ledger, orders, accepting, redemptions, stranded>>

\* A line that was read is set, by its id; one that was not is inserted, and
\* the unique index refuses a second one.
WriteLine(c) ==
  LET k == call[c].cart
      grown == call[c].seen + 1
  IN
  /\ At(c, "write")
  /\ call[c].seen = 0 => cart[k].quantity = 0
  /\ cart' = [cart EXCEPT ![k].quantity =
                IF grown > MaxQuantity THEN MaxQuantity ELSE grown]
  /\ Goto(c, "added")
  /\ UNCHANGED <<ledger, orders, accepting, redemptions, stranded>>

SecondInsert(c) ==
  /\ At(c, "write")
  /\ call[c].seen = 0 /\ cart[call[c].cart].quantity > 0
  /\ Over(c)
  /\ UNCHANGED <<cart, ledger, orders, accepting, redemptions, stranded>>

-----------------------------------------------------------------------------
(***************************************************************************)
(* place.  The settled id is answered before anything else is read, ...    *)
(***************************************************************************)
place(c, r, x, code) ==
  /\ At(c, "idle")
  /\ ~Ordered(r)
  /\ call' = [call EXCEPT ![c] = [NoCall EXCEPT !.pc = "asked", !.request = r,
                                                !.receipt = x, !.code = code]]
  /\ UNCHANGED <<cart, ledger, orders, accepting, redemptions, stranded>>

\* Mutant: a cart is found by its customer alone.
SellableAnyCart(c, k) ==
  /\ cart[k].quantity > 0
  /\ accepting
  /\ call[c].code => redemptions < maxRedemptions

\* ... then what the order is: the open cart, its line, the branch, the promotion.
Sellable(c, k) ==
  /\ cart[k].status = "OPEN" /\ cart[k].quantity > 0
  /\ accepting
  /\ call[c].code => redemptions < maxRedemptions

Price(c) ==
  /\ At(c, "asked")
  /\ ~Used(call[c].receipt)
  /\ \E k \in CartIds :
       /\ Sellable(c, k)
       /\ call' = [call EXCEPT ![c].pc = "priced", ![c].cart = k,
                               ![c].seen = cart[k].quantity]
  /\ UNCHANGED <<cart, ledger, orders, accepting, redemptions, stranded>>

\* Refused before the claim.
RefuseCart(c) ==
  /\ At(c, "asked")
  /\ OpenCarts = {} \/ \E k \in OpenCarts : ~Sellable(c, k)
  /\ Refuse(c)
  /\ UNCHANGED <<cart, ledger, orders, accepting, redemptions, stranded>>

\* checkoutProofForOrder: "Another retry may have committed".
RefuseReceipt(c) ==
  /\ At(c, "asked")
  /\ Used(call[c].receipt)
  /\ \E k \in CartIds : Sellable(c, k)
  /\ IF Ordered(call[c].request) THEN Over(c) ELSE Refuse(c)
  /\ UNCHANGED <<cart, ledger, orders, accepting, redemptions, stranded>>

\* Mutant: a read, then an insert that two calls both pass.
claimAfterRead(c) ==
  /\ At(c, "priced")
  /\ IF Ordered(call[c].request)
     THEN Goto(c, "polling") /\ UNCHANGED ledger
     ELSE /\ ledger' = [ledger EXCEPT ![call[c].request] = "empty"]
          /\ Goto(c, "claimed")
  /\ UNCHANGED <<cart, orders, accepting, redemptions, stranded>>

\* The insert on the unique dedupe key: one caller gets the row.
claim(c) ==
  LET r == call[c].request IN
  /\ At(c, "priced")
  /\ IF ledger[r] = "none"
     THEN ledger' = [ledger EXCEPT ![r] = "empty"] /\ Goto(c, "claimed")
     ELSE Goto(c, "polling") /\ UNCHANGED ledger
  /\ UNCHANGED <<cart, orders, accepting, redemptions, stranded>>

\* The batch.  The trigger order_location_accepting_guard and the unique sha256
\* are evaluated inside it; the cart is checked out by its id.  Its answer may
\* be lost: the call then throws and the claim keeps its order.
Batch(c) ==
  LET me == call[c] IN
  /\ At(c, "claimed")
  /\ accepting /\ ~Used(me.receipt)
  /\ \E id \in OrderIds \ {o.id : o \in orders} :
       /\ orders' = orders \cup
            {[id |-> id, request |-> me.request, cart |-> me.cart, quantity |-> me.seen,
              code |-> me.code, receipt |-> me.receipt]}
       /\ ledger' = [ledger EXCEPT ![me.request] = id]
  /\ cart' = [cart EXCEPT ![me.cart].status = "CHECKED_OUT"]
  /\ redemptions' = IF me.code THEN redemptions + 1 ELSE redemptions
  /\ Over(c)
  /\ UNCHANGED <<accepting, stranded>>

\* Mutants: a reused receipt does not give the claim back; a redemption is
\* counted although the batch is rolled back.
BatchAbortsPauseOnly(c) ==
  /\ At(c, "claimed")
  /\ ~accepting \/ Used(call[c].receipt)
  /\ IF accepting THEN Refuse(c) ELSE Goto(c, "release")
  /\ UNCHANGED <<cart, ledger, orders, accepting, redemptions, stranded>>
BatchAbortsCounting(c) ==
  /\ At(c, "claimed")
  /\ ~accepting \/ Used(call[c].receipt)
  /\ Goto(c, "release")
  /\ redemptions' = IF call[c].code THEN redemptions + 1 ELSE redemptions
  /\ UNCHANGED <<cart, ledger, orders, accepting, stranded>>

\* It is rolled back for a reason the call knows.
BatchAborts(c) ==
  /\ At(c, "claimed")
  /\ ~accepting \/ Used(call[c].receipt)
  /\ Goto(c, "release")
  /\ UNCHANGED <<cart, ledger, orders, accepting, redemptions, stranded>>

\* The claim is deleted where its data is still null.
Release(c) ==
  LET r == call[c].request IN
  /\ At(c, "release")
  /\ ledger' = [ledger EXCEPT ![r] = IF @ = "empty" THEN "none" ELSE @]
  /\ Refuse(c)
  /\ UNCHANGED <<cart, orders, accepting, redemptions, stranded>>

\* existingOrderFor: looks a few times, and answers or gives up.
existingOrderFor(c) ==
  /\ At(c, "polling")
  /\ IF Ordered(call[c].request) THEN Over(c) ELSE Refuse(c)
  /\ UNCHANGED <<cart, ledger, orders, accepting, redemptions, stranded>>

\* The client has its answer, and may call again with the same id.
Told(c) ==
  /\ At(c, "refused") \/ At(c, "added")
  /\ Over(c)
  /\ UNCHANGED <<cart, ledger, orders, accepting, redemptions, stranded>>

\* The Worker dies, or D1 fails for another reason: a claim held is not released.
Fails(c) ==
  /\ call[c].pc \notin {"idle", "refused", "added"}
  /\ Over(c)
  /\ stranded' = IF call[c].pc \in {"claimed", "release"}
                 THEN stranded \cup {call[c].request} ELSE stranded
  /\ UNCHANGED <<cart, ledger, orders, accepting, redemptions>>

\* The shop pauses its branch, or takes orders again: pause, resume, and a pause
\* that reaches its resumeAt.
SetAccepting ==
  /\ accepting' = ~accepting
  /\ UNCHANGED <<cart, ledger, orders, redemptions, call, stranded>>

CallStep(c) ==
  \/ \E shop \in Shops : AddRead(c, shop)
  \/ \E r \in RequestIds, x \in Receipts \cup {None}, code \in BOOLEAN : place(c, r, x, code)
  \/ Abandon(c) \/ createCart(c) \/ ReadLine(c) \/ WriteLine(c) \/ SecondInsert(c)
  \/ Price(c) \/ RefuseCart(c) \/ RefuseReceipt(c) \/ claim(c)
  \/ Batch(c) \/ BatchAborts(c) \/ Release(c) \/ existingOrderFor(c)
  \/ Told(c) \/ Fails(c)

CheckoutNext == SetAccepting \/ \E c \in Calls : CallStep(c)

CheckoutSpec == CheckoutInit /\ [][CheckoutNext]_checkoutVars

-----------------------------------------------------------------------------
(***************************************************************************)
(* Properties.                                                             *)
(***************************************************************************)

\* Every table and every call holds rows of its type.
CheckoutTypeOK ==
  /\ cart \in [CartIds -> CartRow]
  /\ ledger \in [RequestIds -> {"none", "empty"} \cup OrderIds]
  /\ orders \subseteq OrderRow
  /\ accepting \in BOOLEAN
  /\ redemptions \in Nat
  /\ call \in [Calls -> CallRow]
  /\ stranded \subseteq RequestIds
  /\ \A c \in Calls :
       /\ call[c].pc \in PlaceSteps => call[c].request \in RequestIds
       /\ call[c].pc \in {"priced", "claimed"} => call[c].cart \in CartIds /\ call[c].seen > 0
       /\ call[c].pc \in {"abandon", "line", "write", "added"} => call[c].cart \in CartIds
       /\ call[c].pc \in AddSteps => call[c].shop \in Shops

(***************************************************************************)
(* A placement sent twice is one order, and the ledger leads to it; a      *)
(* picture of a transfer pays for one order, however many calls showed it  *)
(* at once.                                                                *)
(***************************************************************************)
OneOrderEach ==
  /\ \A o, p \in orders : o.request = p.request => o = p
  /\ \A o, p \in orders : o.receipt # None /\ o.receipt = p.receipt => o = p
  /\ \A o \in orders : ledger[o.request] = o.id
  /\ \A r \in RequestIds : Ordered(r) => \E o \in orders : o.request = r

(***************************************************************************)
(* "A request that is going to be refused must not consume the customer's  *)
(* clientRequestId" (orders.ts:458): a claim without its order is held by  *)
(* one call in flight, or a call died or lost its database holding it.     *)
(***************************************************************************)
Holders(r) == {c \in Calls : call[c].request = r /\ call[c].pc \in {"claimed", "release"}}

ClaimsHaveOwners ==
  \A r \in RequestIds :
    /\ \A c, d \in Holders(r) : c = d
    /\ Holders(r) # {} => ledger[r] = "empty"
    /\ ledger[r] = "empty" => Holders(r) # {} \/ r \in stranded

(***************************************************************************)
(* Redemptions count orders, not attempts; and the limit, which is read    *)
(* before the claim and spent after it, is passed only by calls that were  *)
(* in flight together.                                                     *)
(***************************************************************************)
RedemptionsCounted ==
  /\ redemptions = Cardinality({o \in orders : o.code})
  /\ redemptions < maxRedemptions + Cardinality(Calls)

(***************************************************************************)
(* A cart is checked out by its id alone, so what it holds is sold again   *)
(* to whoever priced it meanwhile; but only to them: there are never more  *)
(* orders of one cart, with those about to be written, than the customer   *)
(* had calls in flight at once, and a cart that is open was never sold.    *)
(***************************************************************************)
OrdersOf(k) == {o \in orders : o.cart = k}
SellersOf(k) == {c \in Calls : call[c].pc \in {"priced", "claimed"} /\ call[c].cart = k}

CartsSoldTogether ==
  \A k \in CartIds :
    /\ Cardinality(OrdersOf(k)) + Cardinality(SellersOf(k)) <= Cardinality(Calls)
    /\ cart[k].status = "OPEN" => OrdersOf(k) = {}

(***************************************************************************)
(* Whatever is sent again, and whichever call dies where, the placements   *)
(* implement PlacePromise: an id that got its order keeps it, and a        *)
(* picture stays with the order it paid for.                               *)
(***************************************************************************)
AnswerOf(r) == IF Ordered(r) THEN ledger[r] ELSE None
PaidBy(x) == IF Used(x) THEN (CHOOSE o \in orders : o.receipt = x).id ELSE None

Promise == INSTANCE PlacePromise WITH answer <- [r \in RequestIds |-> AnswerOf(r)],
                                      paidWith <- [x \in Receipts |-> PaidBy(x)]

PlacesOnce == Promise!PlaceSpec

(***************************************************************************)
(* A duplicate is "handed the order it is asking about", "which is the     *)
(* double-tap this whole mechanism exists for" (orders.ts:233).  Two calls *)
(* of one id at once can break it: the one that asked the ledger before    *)
(* the winner's batch and reads the cart after it is refused for an empty  *)
(* basket.  PlacesApart is what the other behaviours have in common, with  *)
(* any calls of other ids in flight.                                       *)
(***************************************************************************)
DuplicatesGetTheirOrder ==
  \A c \in Calls : At(c, "refused") => ~Ordered(call[c].request)

PlacesApart ==
  \A c, d \in Calls :
    call[c].request # None /\ call[c].request = call[d].request => c = d

(***************************************************************************)
(* "Three things happen in one transaction, and they have to" (cart.ts:    *)
(* 283): a tap that succeeds makes the line one longer, up to the limit.   *)
(* Two taps that have both read the line can break it, for it is read by   *)
(* one statement and set by another.                                       *)
(***************************************************************************)
EveryTapCounts ==
  [][\A c \in Calls : At(c, "write") /\ At(c, "added")' =>
       LET k == call[c].cart IN
       cart[k].quantity < MaxQuantity => cart'[k].quantity = cart[k].quantity + 1]_checkoutVars
=============================================================================

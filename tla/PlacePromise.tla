----------------------------- MODULE PlacePromise -----------------------------
(***************************************************************************)
(* What placing an order promises a client that may send its request again *)
(* and a shop that is shown pictures of transfers: a request id comes to   *)
(* stand for one order and stands for it ever after, no order answers two  *)
(* ids, and a picture pays for the one order it was first shown with.      *)
(***************************************************************************)
CONSTANTS RequestIds, OrderIds, Receipts, None

VARIABLES answer,    \* the order each request id stands for
          paidWith   \* the order each picture pays for

promiseVars == <<answer, paidWith>>

PlaceInit == /\ answer = [r \in RequestIds |-> None]
             /\ paidWith = [x \in Receipts |-> None]

Place(r, id) == /\ answer[r] = None
                /\ \A q \in RequestIds : answer[q] # id
                /\ answer' = [answer EXCEPT ![r] = id]

ShownNothing == UNCHANGED paidWith

Shown(x, id) == /\ paidWith[x] = None
                /\ paidWith' = [paidWith EXCEPT ![x] = id]

PlaceNext == \E r \in RequestIds, id \in OrderIds :
               /\ Place(r, id)
               /\ ShownNothing \/ \E x \in Receipts : Shown(x, id)

PlaceSpec == PlaceInit /\ [][PlaceNext]_promiseVars
=============================================================================

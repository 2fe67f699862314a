---------------------------- MODULE NoticePromise ----------------------------
(***************************************************************************)
(* What the outbox promises the people it reaches: nobody hears of an      *)
(* event that was not committed, nothing that was told is untold, and a    *)
(* phone rings for nothing that its owner cannot read in the app.          *)
(***************************************************************************)
CONSTANTS Events, Users

VARIABLES committed,  \* events whose batch went through
          told,       \* who has a notification of which event
          pushed      \* whose phones are to ring for which event

noticeVars == <<committed, told, pushed>>

NoticeInit == committed = {} /\ told = {} /\ pushed = {}

Happen(e) == /\ e \notin committed
             /\ committed' = committed \cup {e}
             /\ UNCHANGED <<told, pushed>>

Tell(e, users) == /\ e \in committed
                  /\ told' = told \cup ({e} \X users)
                  /\ UNCHANGED <<committed, pushed>>

Ring(e, users) == /\ {e} \X users \subseteq told
                  /\ pushed' = pushed \cup ({e} \X users)
                  /\ UNCHANGED <<committed, told>>

NoticeNext ==
  \E e \in Events : \/ Happen(e)
                    \/ \E users \in SUBSET Users : Tell(e, users) \/ Ring(e, users)

NoticeSpec == NoticeInit /\ [][NoticeNext]_noticeVars
=============================================================================

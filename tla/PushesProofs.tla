----------------------------- MODULE PushesProofs -----------------------------
(***************************************************************************)
(* Proofs about Pushes, for any events, devices and Workers.               *)
(*                                                                         *)
(* Of a row without an excuse: one Worker at most holds it to send it,     *)
(* finds it waiting all the while, and its phone rang exactly when Expo    *)
(* took it from that Worker (RowOK).  So a second send never starts from a *)
(* row that rang, and what the tickets and the receipts write of it is     *)
(* always the same.                                                        *)
(***************************************************************************)
EXTENDS Pushes, TLAPS

Sends(w, r) == worker[w].batch[r] # "not" /\ worker[w].then = "tickets"
Asks(w, r) == worker[w].batch[r] # "not" /\ worker[w].then = "receipts"
Answered(w) == worker[w].pc \in {"tickets", "receipts", "forget"}

\* Where a Worker is, and what its batch holds there.
WorkersOK ==
  \A w \in Workers :
    /\ worker[w].pc = "idle" => worker[w] = Idle
    /\ worker[w].pc \in {"post", "tickets", "backoff"} => worker[w].then = "tickets"
    /\ worker[w].pc \in {"fetch", "receipts"} => worker[w].then = "receipts"
    /\ \A r \in Rows : Answered(w) => worker[w].batch[r] \in Answers \cup {"not"}

\* One send at a time, and what it has done so far.
SentOnce(r) ==
  /\ rang[r] <= 1
  /\ \A v, w \in Workers : Sends(v, r) /\ Sends(w, r) => v = w
  /\ \A w \in Workers : Sends(w, r) =>
       /\ push[r].status = "PENDING"
       /\ rang[r] = IF Answered(w) /\ worker[w].batch[r] = "ok" THEN 1 ELSE 0
  /\ push[r].status \in {"none", "PENDING"} /\ (\A w \in Workers : ~Sends(w, r)) => rang[r] = 0

\* A row that somebody asks the receipt of has its ticket, and says of its
\* receipt what Expo said first.
AskedOnce(r) ==
  \A w \in Workers : Asks(w, r) =>
    /\ push[r].status \in {"TICKETED", "DELIVERED", "FAILED"}
    /\ push[r].status = "DELIVERED" => push[r].receipt = "ok"
    /\ push[r].status = "FAILED" => push[r].receipt \in {"unregistered", "error"}
    /\ Answered(w) => push[r].receipt = worker[w].batch[r]

RowsOK == \A r \in Rows \ excuse : SentOnce(r) /\ AskedOnce(r)

PushInv == PushTypeOK /\ WorkersOK /\ RowsOK

-----------------------------------------------------------------------------
(***************************************************************************)
(* Types.                                                                  *)
(***************************************************************************)
BatchOK(b) == b \in [Rows -> Answers \cup {"not", "read"}]

LEMMA IdleType == Idle \in WorkerRow /\ \A r \in Rows : Idle.batch[r] = "not"
  BY PushesAssumption DEF Idle, WorkerRow, Answers

LEMMA RowTypes ==
  ASSUME PushTypeOK, NEW r \in Rows
  PROVE  /\ push[r] \in PushRow /\ rang[r] \in 0..2
         /\ \A w \in Workers : worker[w] \in WorkerRow /\ worker[w].batch[r] \in Answers \cup {"not", "read"}
  BY DEF PushTypeOK, WorkerRow

\* A batch that was read, or that Expo answered.
LEMMA BatchType ==
  ASSUME NEW rows, NEW answer, \A r \in rows \cap Rows : answer[r] \in Answers \cup {"read"}
  PROVE  /\ BatchOK(Batch(rows, answer))
         /\ \A r \in Rows : Batch(rows, answer)[r] = IF r \in rows THEN answer[r] ELSE "not"
  BY DEF BatchOK, Batch, Answers

LEMMA ReadType ==
  ASSUME NEW rows
  PROVE  /\ BatchOK(Read(rows))
         /\ \A r \in Rows : Read(rows)[r] = IF r \in rows THEN "read" ELSE "not"
  <1>1. \A r \in rows \cap Rows : [q \in Rows |-> "read"][r] \in Answers \cup {"read"}
    OBVIOUS
  <1> QED
    BY <1>1, BatchType DEF Read

\* One row of a batch is written, and what the other rows of it keep.
LEMMA WithoutRow ==
  ASSUME PushTypeOK, WorkersOK, NEW w \in Workers, NEW r \in Rows, worker[w].batch[r] # "not"
  PROVE  /\ Without(w, r) \in WorkerRow
         /\ Without(w, r).batch[r] = "not"
         /\ Without(w, r) = Idle \/ (/\ Without(w, r).pc = worker[w].pc
                                     /\ Without(w, r).then = worker[w].then)
         /\ \A q \in Rows \ {r} :
              /\ Without(w, r).batch[q] = worker[w].batch[q]
              /\ worker[w].batch[q] # "not" => Without(w, r) # Idle
  <1>1. worker[w] \in WorkerRow
    BY DEF PushTypeOK
  <1>2. CASE Held(w) = {r}
    <2>1. Without(w, r) = Idle
      BY <1>2 DEF Without
    <2>2. \A q \in Rows \ {r} : worker[w].batch[q] = "not"
      BY <1>2 DEF Held
    <2> QED
      BY <2>1, <2>2, IdleType
  <1>3. CASE Held(w) # {r}
    <2>1. Without(w, r) = [worker[w] EXCEPT !.batch[r] = "not"]
      BY <1>3 DEF Without
    <2>2. /\ Without(w, r) \in WorkerRow
          /\ Without(w, r).pc = worker[w].pc /\ Without(w, r).then = worker[w].then
          /\ Without(w, r).batch = [worker[w].batch EXCEPT ![r] = "not"]
      BY <1>1, <2>1 DEF WorkerRow
    <2>3. /\ Without(w, r).batch[r] = "not"
          /\ \A q \in Rows \ {r} : Without(w, r).batch[q] = worker[w].batch[q]
      BY <1>1, <2>2 DEF WorkerRow
    <2> QED
      BY <2>2, <2>3, IdleType
  <1> QED
    BY <1>2, <1>3

LEMMA ForgetRow ==
  ASSUME PushTypeOK, NEW w \in Workers, NEW r \in Rows
  PROVE  /\ Forget(w, r) \in WorkerRow
         /\ Forget(w, r).pc = "forget" /\ Forget(w, r).then = worker[w].then
         /\ Forget(w, r).batch[r] = "not"
         /\ \A q \in Rows \ {r} : Forget(w, r).batch[q] = worker[w].batch[q]
  <1>1. worker[w] \in WorkerRow /\ r[2] \in Devices
    BY DEF PushTypeOK, Rows
  <1>2. /\ Forget(w, r) \in WorkerRow
        /\ Forget(w, r).pc = "forget" /\ Forget(w, r).then = worker[w].then
        /\ Forget(w, r).batch = [worker[w].batch EXCEPT ![r] = "not"]
    BY <1>1 DEF Forget, WorkerRow
  <1> QED
    BY <1>1, <1>2 DEF WorkerRow

\* A step that gives one Worker a row of its type.
LEMMA WorkerStep ==
  ASSUME PushTypeOK, WorkersOK, NEW w \in Workers, NEW row \in WorkerRow,
         worker' = [worker EXCEPT ![w] = row],
         row.pc = "idle" => row = Idle,
         row.pc \in {"post", "tickets", "backoff"} => row.then = "tickets",
         row.pc \in {"fetch", "receipts"} => row.then = "receipts",
         row.pc \in {"tickets", "receipts", "forget"} =>
           \A r \in Rows : row.batch[r] \in Answers \cup {"not"}
  PROVE  worker' \in [Workers -> WorkerRow] /\ WorkersOK'
  <1>1. /\ worker' \in [Workers -> WorkerRow]
        /\ worker'[w] = row
        /\ \A v \in Workers \ {w} : worker'[v] = worker[v]
    BY DEF PushTypeOK
  <1> QED
    BY <1>1 DEF WorkersOK, Answered

LEMMA WorkersIdle ==
  ASSUME PushTypeOK, WorkersOK, NEW w \in Workers, worker' = [worker EXCEPT ![w] = Idle]
  PROVE  worker' \in [Workers -> WorkerRow] /\ WorkersOK'
  BY WorkerStep, IdleType DEF Idle

LEMMA SendTypes ==
  ASSUME PushTypeOK, WorkersOK, NEW w \in Workers, Send(w)
  PROVE  PushTypeOK' /\ WorkersOK'
  <1>1. CASE Post(w)
    <2>1. PICK ticket \in [Held(w) -> Answers] :
            /\ worker' = [worker EXCEPT ![w].pc = "tickets", ![w].batch = Batch(Held(w), ticket)]
            /\ Ring({r \in Held(w) : ticket[r] = "ok"})
      BY <1>1 DEF Post
    <2> DEFINE row == [worker[w] EXCEPT !.pc = "tickets", !.batch = Batch(Held(w), ticket)]
    <2>2. /\ BatchOK(Batch(Held(w), ticket))
          /\ \A r \in Rows : Batch(Held(w), ticket)[r] \in Answers \cup {"not"}
      <3>1. \A r \in Held(w) \cap Rows : ticket[r] \in Answers
        OBVIOUS
      <3> QED
        BY <3>1, BatchType
    <2>3. worker[w] \in WorkerRow /\ worker[w].pc = "post" /\ worker[w].then = "tickets"
      BY <1>1 DEF Post, At, PushTypeOK, WorkersOK
    <2>4. row \in WorkerRow /\ row.pc = "tickets" /\ row.then = "tickets"
          /\ row.batch = Batch(Held(w), ticket)
      BY <2>2, <2>3 DEF WorkerRow, BatchOK
    <2>5. worker' = [worker EXCEPT ![w] = row]
      BY <2>1 DEF PushTypeOK
    <2>6. rang' \in [Rows -> 0..2]
      BY <2>1 DEF Ring, PushTypeOK
    <2>7. worker' \in [Workers -> WorkerRow] /\ WorkersOK'
      BY <2>2, <2>4, <2>5, WorkerStep
    <2> QED
      BY <1>1, <2>6, <2>7 DEF Post, PushTypeOK
  <1>2. CASE PostFails(w)
    <2> DEFINE row == [worker[w] EXCEPT !.pc = "backoff"]
    <2>1. worker[w] \in WorkerRow /\ worker[w].pc = "post" /\ worker[w].then = "tickets"
      BY <1>2 DEF PostFails, At, PushTypeOK, WorkersOK
    <2>2. row \in WorkerRow /\ row.pc = "backoff" /\ row.then = "tickets"
      BY <2>1 DEF WorkerRow
    <2>3. worker' = [worker EXCEPT ![w] = row]
      BY <1>2 DEF PostFails, PushTypeOK
    <2>4. worker' \in [Workers -> WorkerRow] /\ WorkersOK'
      BY <2>2, <2>3, WorkerStep
    <2>5. rang' \in [Rows -> 0..2] /\ excuse' \subseteq Rows
      BY <1>2 DEF PostFails, Ring, Held, PushTypeOK
    <2> QED
      BY <1>2, <2>4, <2>5 DEF PostFails, PushTypeOK
  <1>3. CASE BackOff(w)
    <2>1. worker' \in [Workers -> WorkerRow] /\ WorkersOK'
      BY <1>3, WorkersIdle DEF BackOff
    <2>2. push' \in [Rows -> PushRow]
      BY <1>3 DEF BackOff, PushTypeOK, PushRow
    <2> QED
      BY <1>3, <2>1, <2>2 DEF BackOff, PushTypeOK
  <1>4. ASSUME NEW r \in Rows, WriteTicket(w, r)
        PROVE  PushTypeOK' /\ WorkersOK'
    <2> DEFINE answer == worker[w].batch[r]
               row == IF answer = "unregistered" THEN Forget(w, r) ELSE Without(w, r)
    <2>1. /\ answer \in Answers /\ answer # "not" /\ worker[w].then = "tickets"
          /\ worker[w].pc = "tickets"
          /\ \A q \in Rows : worker[w].batch[q] \in Answers \cup {"not"}
      BY <1>4 DEF WriteTicket, At, Held, WorkersOK, Answered
    <2>2. row \in WorkerRow /\ worker' = [worker EXCEPT ![w] = row]
      BY <1>4, <2>1, WithoutRow, ForgetRow DEF WriteTicket
    <2>3. \/ row = Idle
          \/ /\ row.pc \in {"tickets", "forget"} /\ row.then = "tickets"
             /\ \A q \in Rows : row.batch[q] \in Answers \cup {"not"}
      BY <2>1, WithoutRow, ForgetRow
    <2>4. worker' \in [Workers -> WorkerRow] /\ WorkersOK'
      <3>1. CASE row = Idle
        BY <2>2, <3>1, WorkersIdle
      <3>2. CASE row # Idle
        BY <2>2, <2>3, <3>2, WorkerStep
      <3> QED
        BY <3>1, <3>2
    <2>5. push' \in [Rows -> PushRow]
      <3>1. push[r] \in PushRow
        BY DEF PushTypeOK
      <3>2. Ticketed(r, answer) \in PushRow
        <4>1. CASE answer = "ok"
          BY <4>1 DEF Ticketed, PushRow
        <4>2. CASE answer = "unregistered"
          BY <3>1, <4>2 DEF Ticketed, PushRow
        <4>3. CASE answer = "error"
          BY <3>1, <4>3 DEF Ticketed, PushRow
        <4> QED
          BY <2>1, <4>1, <4>2, <4>3 DEF Answers
      <3>3. push' = [push EXCEPT ![r] = Ticketed(r, answer)]
        BY <1>4 DEF WriteTicket
      <3> QED
        BY <3>2, <3>3 DEF PushTypeOK
    <2> QED
      BY <1>4, <2>4, <2>5 DEF WriteTicket, PushTypeOK
  <1>5. CASE DeleteToken(w)
    <2> DEFINE row == [worker[w] EXCEPT !.pc = worker[w].then, !.device = Idle.device]
    <2>1. /\ worker[w] \in WorkerRow /\ worker[w].then \in {"tickets", "receipts"}
          /\ \A q \in Rows : worker[w].batch[q] \in Answers \cup {"not"}
      BY <1>5 DEF DeleteToken, At, PushTypeOK, WorkersOK, Answered, WorkerRow
    <2>2. row \in WorkerRow /\ row.pc = worker[w].then /\ row.then = worker[w].then
          /\ row.batch = worker[w].batch
      BY <2>1, IdleType DEF WorkerRow
    <2>3. worker' = [worker EXCEPT ![w] = Idle] \/ worker' = [worker EXCEPT ![w] = row]
      BY <1>5 DEF DeleteToken, PushTypeOK
    <2>4. worker' \in [Workers -> WorkerRow] /\ WorkersOK'
      <3>1. CASE worker' = [worker EXCEPT ![w] = Idle]
        BY <3>1, WorkersIdle
      <3>2. CASE worker' = [worker EXCEPT ![w] = row]
        BY <2>1, <2>2, <3>2, WorkerStep
      <3> QED
        BY <2>3, <3>1, <3>2
    <2> QED
      BY <1>5, <2>4 DEF DeleteToken, PushTypeOK
  <1> QED
    BY <1>1, <1>2, <1>3, <1>4, <1>5 DEF Send

LEMMA ReceiveTypes ==
  ASSUME PushTypeOK, WorkersOK, NEW w \in Workers, Receive(w)
  PROVE  PushTypeOK' /\ WorkersOK'
  <1>1. CASE ReadTicketed(w)
    <2> DEFINE rows == {r \in Rows : push[r].status = "TICKETED"}
               row == [Idle EXCEPT !.pc = "fetch", !.batch = Read(rows), !.then = "receipts"]
    <2>1. row \in WorkerRow /\ row.pc = "fetch" /\ row.then = "receipts"
      BY IdleType, ReadType DEF WorkerRow, BatchOK
    <2>2. worker' \in [Workers -> WorkerRow] /\ WorkersOK'
      BY <1>1, <2>1, WorkerStep DEF ReadTicketed
    <2> QED
      BY <1>1, <2>2 DEF ReadTicketed, PushTypeOK
  <1>2. CASE FetchReceipts(w)
    <2>0. PICK ready \in SUBSET Held(w) \ {{}} : \E receipt \in [ready -> Answers] :
            /\ \A r \in ready : push[r].receipt \in {"unknown", receipt[r]}
            /\ push' = [r \in Rows |-> IF r \in ready
                                      THEN [push[r] EXCEPT !.receipt = receipt[r]] ELSE push[r]]
            /\ worker' = [worker EXCEPT ![w].pc = "receipts", ![w].batch = Batch(ready, receipt)]
      BY <1>2 DEF FetchReceipts
    <2>1. PICK receipt \in [ready -> Answers] :
            /\ push' = [r \in Rows |-> IF r \in ready
                                      THEN [push[r] EXCEPT !.receipt = receipt[r]] ELSE push[r]]
            /\ worker' = [worker EXCEPT ![w].pc = "receipts", ![w].batch = Batch(ready, receipt)]
      BY <2>0
    <2> DEFINE row == [worker[w] EXCEPT !.pc = "receipts", !.batch = Batch(ready, receipt)]
    <2>2. /\ BatchOK(Batch(ready, receipt))
          /\ \A r \in Rows : Batch(ready, receipt)[r] \in Answers \cup {"not"}
      <3>1. \A r \in ready \cap Rows : receipt[r] \in Answers
        OBVIOUS
      <3> QED
        BY <3>1, BatchType
    <2>3. worker[w] \in WorkerRow /\ worker[w].then = "receipts"
      BY <1>2 DEF FetchReceipts, At, PushTypeOK, WorkersOK
    <2>4. row \in WorkerRow /\ row.pc = "receipts" /\ row.then = "receipts"
          /\ row.batch = Batch(ready, receipt)
      BY <2>2, <2>3 DEF WorkerRow, BatchOK
    <2>5. worker' = [worker EXCEPT ![w] = row]
      BY <2>1 DEF PushTypeOK
    <2>6. worker' \in [Workers -> WorkerRow] /\ WorkersOK'
      BY <2>2, <2>4, <2>5, WorkerStep
    <2>7. push' \in [Rows -> PushRow]
      BY <2>1 DEF PushTypeOK, PushRow, Answers
    <2> QED
      BY <1>2, <2>6, <2>7 DEF FetchReceipts, PushTypeOK
  <1>3. ASSUME NEW r \in Rows, WriteReceipt(w, r)
        PROVE  PushTypeOK' /\ WorkersOK'
    <2> DEFINE answer == worker[w].batch[r]
               row == IF answer = "unregistered" THEN Forget(w, r) ELSE Without(w, r)
    <2>1. /\ answer \in Answers /\ answer # "not" /\ worker[w].then = "receipts"
          /\ worker[w].pc = "receipts"
          /\ \A q \in Rows : worker[w].batch[q] \in Answers \cup {"not"}
      BY <1>3 DEF WriteReceipt, At, Held, WorkersOK, Answered
    <2>2. row \in WorkerRow /\ worker' = [worker EXCEPT ![w] = row]
      BY <1>3, <2>1, WithoutRow, ForgetRow DEF WriteReceipt
    <2>3. \/ row = Idle
          \/ /\ row.pc \in {"receipts", "forget"} /\ row.then = "receipts"
             /\ \A q \in Rows : row.batch[q] \in Answers \cup {"not"}
      BY <2>1, WithoutRow, ForgetRow
    <2>4. worker' \in [Workers -> WorkerRow] /\ WorkersOK'
      <3>1. CASE row = Idle
        BY <2>2, <3>1, WorkersIdle
      <3>2. CASE row # Idle
        BY <2>2, <2>3, <3>2, WorkerStep
      <3> QED
        BY <3>1, <3>2
    <2>5. push' \in [Rows -> PushRow]
      BY <1>3 DEF WriteReceipt, PushTypeOK, PushRow
    <2> QED
      BY <1>3, <2>4, <2>5 DEF WriteReceipt, PushTypeOK
  <1> QED
    BY <1>1, <1>2, <1>3 DEF Receive

LEMMA OtherTypes ==
  ASSUME PushTypeOK, WorkersOK
  PROVE  /\ \A e \in Events : enqueuePushes(e) => PushTypeOK' /\ WorkersOK'
         /\ \A w \in Workers, wanted \in SUBSET Events :
              ReadDue(w, wanted) => PushTypeOK' /\ WorkersOK'
         /\ \A w \in Workers : Dies(w) => PushTypeOK' /\ WorkersOK'
         /\ \A r \in Rows : FallsDue(r) => PushTypeOK' /\ WorkersOK'
  <1>1. ASSUME NEW e \in Events, enqueuePushes(e)
        PROVE  PushTypeOK' /\ WorkersOK'
    <2>1. push' \in [Rows -> PushRow]
      BY <1>1 DEF enqueuePushes, NoPush, PushTypeOK, PushRow, Answers
    <2> QED
      BY <1>1, <2>1 DEF enqueuePushes, PushTypeOK, WorkersOK, Answered
  <1>2. ASSUME NEW w \in Workers, NEW wanted \in SUBSET Events, ReadDue(w, wanted)
        PROVE  PushTypeOK' /\ WorkersOK'
    <2> DEFINE rows == {r \in Rows : r[1] \in wanted /\ isDue(r)}
               row == [Idle EXCEPT !.pc = "post", !.batch = Read(rows)]
    <2>1. row \in WorkerRow /\ row.pc = "post" /\ row.then = "tickets"
      BY IdleType, ReadType DEF WorkerRow, BatchOK, Idle
    <2>2. worker' \in [Workers -> WorkerRow] /\ WorkersOK'
      BY <1>2, <2>1, WorkerStep DEF ReadDue
    <2> QED
      BY <1>2, <2>2 DEF ReadDue, PushTypeOK
  <1>3. ASSUME NEW w \in Workers, Dies(w)
        PROVE  PushTypeOK' /\ WorkersOK'
    <2>1. worker' \in [Workers -> WorkerRow] /\ WorkersOK'
      BY <1>3, WorkersIdle DEF Dies
    <2> QED
      BY <1>3, <2>1 DEF Dies, Held, PushTypeOK
  <1>4. ASSUME NEW r \in Rows, FallsDue(r)
        PROVE  PushTypeOK' /\ WorkersOK'
    <2>1. push' \in [Rows -> PushRow]
      BY <1>4 DEF FallsDue, PushTypeOK, PushRow
    <2> QED
      BY <1>4, <2>1 DEF FallsDue, PushTypeOK, WorkersOK, Answered
  <1> QED
    BY <1>1, <1>2, <1>3, <1>4

LEMMA PushTypesNext ==
  PushTypeOK /\ WorkersOK /\ [PushNext]_pushVars => PushTypeOK' /\ WorkersOK'
  <1> SUFFICES ASSUME PushTypeOK, WorkersOK, [PushNext]_pushVars
               PROVE  PushTypeOK' /\ WorkersOK'
    OBVIOUS
  <1>1. CASE UNCHANGED pushVars
    BY <1>1 DEF pushVars, PushTypeOK, WorkersOK, Answered
  <1>2. Crons \subseteq Workers /\ Consumers \subseteq Workers
        /\ Events \in SUBSET Events /\ \A e \in Events : {e} \in SUBSET Events
    BY DEF Workers
  <1> QED
    BY <1>1, <1>2, SendTypes, ReceiveTypes, OtherTypes DEF PushNext

LEMMA PushTypesInit == PushInit => PushTypeOK /\ WorkersOK
  <1> SUFFICES ASSUME PushInit PROVE PushTypeOK /\ WorkersOK
    OBVIOUS
  <1>1. NoPush \in PushRow
    BY DEF NoPush, PushRow, Answers
  <1>2. \A w \in Workers : worker[w] = Idle /\ worker[w].pc = "idle"
    BY DEF PushInit, Idle
  <1>3. PushTypeOK
    BY <1>1, IdleType DEF PushInit, PushTypeOK
  <1> QED
    BY <1>2, <1>3 DEF WorkersOK, Answered

\* Every table and every Worker keeps its type.
THEOREM PushTypesCorrect == PushSpec => []PushTypeOK
  BY PushTypesInit, PushTypesNext, PTL DEF PushSpec

-----------------------------------------------------------------------------
(***************************************************************************)
(* One send at a time.                                                     *)
(***************************************************************************)
\* A step that leaves the row alone: a Worker holds it as before, or has let go
\* of it without having sent it.
LEMMA RowFrame ==
  ASSUME NEW r, SentOnce(r), AskedOnce(r),
         push'[r].status = push[r].status, push'[r].receipt = push[r].receipt,
         rang'[r] = rang[r],
         \A w \in Workers :
           \/ worker'[w].batch[r] = "not" /\ (Sends(w, r) => rang[r] = 0)
           \/ /\ worker'[w].batch[r] = worker[w].batch[r]
              /\ worker'[w].then = worker[w].then
              /\ Answered(w)' = Answered(w)
  PROVE  SentOnce(r)' /\ AskedOnce(r)'
  BY DEF SentOnce, AskedOnce, Sends, Asks

\* What the other Workers hold, when one of them takes a step.
LEMMA OneWorker ==
  ASSUME PushTypeOK, NEW w \in Workers, NEW row, worker' = [worker EXCEPT ![w] = row]
  PROVE  worker'[w] = row /\ \A v \in Workers \ {w} : worker'[v] = worker[v]
  BY DEF PushTypeOK

LEMMA EnqueueRows ==
  ASSUME PushInv, NEW e \in Events, enqueuePushes(e), NEW r \in Rows \ excuse
  PROVE  SentOnce(r)' /\ AskedOnce(r)'
  <1>1. SentOnce(r) /\ AskedOnce(r) /\ UNCHANGED <<rang, worker>>
    BY DEF PushInv, RowsOK, enqueuePushes
  <1>2. CASE push'[r] = push[r]
    BY <1>1, <1>2, RowFrame DEF Answered
  <1>3. CASE push'[r] # push[r]
    <2>1. push[r].status = "none" /\ push'[r].status = "PENDING"
      BY <1>3 DEF enqueuePushes, NoPush
    <2>2. \A w \in Workers : ~Sends(w, r) /\ ~Asks(w, r)
      BY <1>1, <2>1 DEF SentOnce, AskedOnce
    <2> QED
      BY <1>1, <2>1, <2>2 DEF SentOnce, AskedOnce, Sends, Asks
  <1> QED
    BY <1>2, <1>3

LEMMA ReadDueRows ==
  ASSUME PushInv, NEW w \in Workers, NEW wanted, ReadDue(w, wanted), NEW r \in Rows \ excuse'
  PROVE  SentOnce(r)' /\ AskedOnce(r)'
  <1> DEFINE rows == {q \in Rows : q[1] \in wanted /\ isDue(q)}
             row == [Idle EXCEPT !.pc = "post", !.batch = Read(rows)]
  <1>1. SentOnce(r) /\ AskedOnce(r) /\ UNCHANGED <<push, rang>>
    BY DEF PushInv, RowsOK, ReadDue
  <1>2. /\ worker[w] = Idle /\ worker' = [worker EXCEPT ![w] = row]
    BY DEF PushInv, WorkersOK, ReadDue, At
  <1>3. /\ row.pc = "post" /\ row.then = "tickets"
        /\ row.batch[r] = IF r \in rows THEN "read" ELSE "not"
    BY ReadType DEF Idle
  <1>4. worker'[w] = row /\ \A v \in Workers \ {w} : worker'[v] = worker[v]
    BY <1>2, OneWorker DEF PushInv
  <1>5. ~Sends(w, r) /\ ~Asks(w, r) /\ ~Answered(w)'
    BY <1>2, <1>3, <1>4, IdleType DEF Sends, Asks, Answered
  <1>6. CASE r \notin rows
    <2>1. worker'[w].batch[r] = "not"
      BY <1>3, <1>4, <1>6
    <2>2. \A v \in Workers \ {w} : Answered(v)' = Answered(v)
      BY <1>4 DEF Answered
    <2>3. \A v \in Workers :
           \/ worker'[v].batch[r] = "not" /\ (Sends(v, r) => rang[r] = 0)
           \/ /\ worker'[v].batch[r] = worker[v].batch[r]
              /\ worker'[v].then = worker[v].then
              /\ Answered(v)' = Answered(v)
      BY <1>4, <1>5, <2>1, <2>2
    <2> QED
      BY <1>1, <2>3, RowFrame
  <1>7. CASE r \in rows
    <2>1. \A v \in Workers : ~Sends(v, r)
      BY <1>5, <1>7 DEF ReadDue, Held, Sends
    <2>2. push[r].status = "PENDING" /\ rang[r] = 0
      BY <1>1, <1>7, <2>1 DEF isDue, SentOnce
    <2>3. \A v \in Workers : ~Asks(v, r)
      BY <1>1, <2>2 DEF AskedOnce
    <2>4. \A v \in Workers : (Sends(v, r)' => v = w) /\ ~Asks(v, r)'
      BY <1>3, <1>4, <2>1, <2>3 DEF Sends, Asks
    <2> QED
      BY <1>1, <1>5, <2>2, <2>4 DEF SentOnce, AskedOnce
  <1> QED
    BY <1>6, <1>7

LEMMA PostRows ==
  ASSUME PushInv, NEW w \in Workers, Post(w), NEW r \in Rows \ excuse
  PROVE  SentOnce(r)' /\ AskedOnce(r)'
  <1>1. PICK ticket \in [Held(w) -> Answers] :
          /\ worker' = [worker EXCEPT ![w].pc = "tickets", ![w].batch = Batch(Held(w), ticket)]
          /\ Ring({q \in Held(w) : ticket[q] = "ok"})
    BY DEF Post
  <1> DEFINE row == [worker[w] EXCEPT !.pc = "tickets", !.batch = Batch(Held(w), ticket)]
  <1>2. SentOnce(r) /\ AskedOnce(r) /\ UNCHANGED <<push, excuse>>
    BY DEF PushInv, RowsOK, Post
  <1>3. /\ worker[w] \in WorkerRow /\ worker[w].then = "tickets"
        /\ ~Answered(w) /\ worker' = [worker EXCEPT ![w] = row]
    BY <1>1 DEF PushInv, PushTypeOK, WorkersOK, Post, At, Answered
  <1>4. \A q \in Rows : Batch(Held(w), ticket)[q] = IF q \in Held(w) THEN ticket[q] ELSE "not"
    BY DEF Batch
  <1>5. row.pc = "tickets" /\ row.then = "tickets"
        /\ row.batch[r] = IF r \in Held(w) THEN ticket[r] ELSE "not"
    BY <1>3, <1>4 DEF WorkerRow
  <1>6. worker'[w] = row /\ \A v \in Workers \ {w} : worker'[v] = worker[v]
    BY <1>3, OneWorker DEF PushInv
  <1>7. \A v \in Workers \ {w} : Answered(v)' = Answered(v)
    BY <1>6 DEF Answered
  <1>8. CASE r \notin Held(w)
    <2>1. worker'[w].batch[r] = "not" /\ ~Sends(w, r)
      BY <1>5, <1>6, <1>8 DEF Held, Sends
    <2>2. rang'[r] = rang[r]
      BY <1>1, <1>8 DEF Ring
    <2>3. \A v \in Workers :
           \/ worker'[v].batch[r] = "not" /\ (Sends(v, r) => rang[r] = 0)
           \/ /\ worker'[v].batch[r] = worker[v].batch[r]
              /\ worker'[v].then = worker[v].then
              /\ Answered(v)' = Answered(v)
      BY <1>6, <1>7, <2>1
    <2> QED
      BY <1>2, <2>2, <2>3, RowFrame
  <1>9. CASE r \in Held(w)
    <2>1. Sends(w, r)
      BY <1>3, <1>9 DEF Held, Sends
    <2>2. push[r].status = "PENDING" /\ rang[r] = 0
      BY <1>2, <1>3, <2>1 DEF SentOnce
    <2>3. \A v \in Workers \ {w} : ~Sends(v, r)
      BY <1>2, <2>1 DEF SentOnce
    <2>4. \A v \in Workers : ~Asks(v, r)
      BY <1>2, <2>2 DEF AskedOnce
    <2>5. rang'[r] = IF ticket[r] = "ok" THEN 1 ELSE 0
      BY <1>1, <1>9, <2>2 DEF Ring
    <2>6. Answered(w)' /\ worker'[w].batch[r] = ticket[r] /\ ticket[r] # "not" /\ Sends(w, r)'
      BY <1>5, <1>6, <1>9 DEF Answered, Sends, Answers
    <2>7. \A v \in Workers : (Sends(v, r)' => v = w) /\ ~Asks(v, r)'
      BY <1>5, <1>6, <2>3, <2>4 DEF Sends, Asks
    <2> QED
      BY <1>2, <2>2, <2>5, <2>6, <2>7 DEF SentOnce, AskedOnce
  <1> QED
    BY <1>8, <1>9

LEMMA PostFailsRows ==
  ASSUME PushInv, NEW w \in Workers, PostFails(w), NEW r \in Rows \ excuse'
  PROVE  SentOnce(r)' /\ AskedOnce(r)'
  <1> DEFINE row == [worker[w] EXCEPT !.pc = "backoff"]
  <1>1. /\ SentOnce(r) /\ AskedOnce(r) /\ UNCHANGED push /\ rang'[r] = rang[r]
    BY DEF PushInv, RowsOK, PostFails, Ring
  <1>2. worker[w] \in WorkerRow /\ worker' = [worker EXCEPT ![w] = row] /\ ~Answered(w)
    BY DEF PushInv, PushTypeOK, PostFails, At, Answered
  <1>3. worker'[w] = row /\ \A v \in Workers \ {w} : worker'[v] = worker[v]
    BY <1>2, OneWorker DEF PushInv
  <1>4. /\ worker'[w].batch[r] = worker[w].batch[r] /\ worker'[w].then = worker[w].then
        /\ ~Answered(w)'
    BY <1>2, <1>3 DEF WorkerRow, Answered
  <1>5. \A v \in Workers : Answered(v)' = Answered(v)
    BY <1>2, <1>3, <1>4 DEF Answered
  <1> QED
    BY <1>1, <1>3, <1>4, <1>5, RowFrame

LEMMA BackOffRows ==
  ASSUME PushInv, NEW w \in Workers, BackOff(w), NEW r \in Rows \ excuse
  PROVE  SentOnce(r)' /\ AskedOnce(r)'
  <1>1. SentOnce(r) /\ AskedOnce(r) /\ UNCHANGED rang /\ ~Answered(w)
    BY DEF PushInv, RowsOK, BackOff, At, Answered
  <1>2. push'[r].status = push[r].status /\ push'[r].receipt = push[r].receipt
    BY DEF BackOff, PushInv, PushTypeOK, PushRow
  <1>3. worker'[w] = Idle /\ \A v \in Workers \ {w} : worker'[v] = worker[v]
    BY OneWorker DEF BackOff, PushInv
  <1>4. worker'[w].batch[r] = "not" /\ (Sends(w, r) => rang[r] = 0)
    BY <1>1, <1>3, IdleType DEF SentOnce
  <1>5. \A v \in Workers \ {w} : Answered(v)' = Answered(v)
    BY <1>3 DEF Answered
  <1> QED
    BY <1>1, <1>2, <1>3, <1>4, <1>5, RowFrame

\* A row of a batch is let go of, and the batch goes on, or ends with it.
LEMMA NextOfBatch ==
  ASSUME PushInv, NEW w \in Workers, NEW r \in Rows, worker[w].batch[r] # "not",
         worker[w].pc \in {"tickets", "receipts"},
         worker' = [worker EXCEPT ![w] = IF worker[w].batch[r] = "unregistered"
                                         THEN Forget(w, r) ELSE Without(w, r)]
  PROVE  /\ \A v \in Workers \ {w} : worker'[v] = worker[v]
         /\ worker'[w].batch[r] = "not"
         /\ \A q \in Rows \ {r} :
              \/ worker[w].batch[q] = "not" /\ worker'[w].batch[q] = "not"
              \/ /\ worker'[w].batch[q] = worker[w].batch[q]
                 /\ worker'[w].then = worker[w].then
                 /\ Answered(w)' = Answered(w)
  <1> DEFINE row == IF worker[w].batch[r] = "unregistered" THEN Forget(w, r) ELSE Without(w, r)
  <1>1. worker'[w] = row /\ \A v \in Workers \ {w} : worker'[v] = worker[v]
    BY OneWorker DEF PushInv
  <1>2. PushTypeOK /\ WorkersOK
    BY DEF PushInv
  <1>3. row.batch[r] = "not"
    BY <1>2, WithoutRow, ForgetRow
  <1>4. ASSUME NEW q \in Rows \ {r}
        PROVE  /\ row.batch[q] = worker[w].batch[q]
               /\ worker[w].batch[q] # "not" =>
                    row.then = worker[w].then /\ row.pc \in {"tickets", "receipts", "forget"}
    BY <1>2, WithoutRow, ForgetRow
  <1> QED
    BY <1>1, <1>3, <1>4 DEF Answered

LEMMA TicketRows ==
  ASSUME PushInv, NEW w \in Workers, NEW q \in Rows, WriteTicket(w, q), NEW r \in Rows \ excuse
  PROVE  SentOnce(r)' /\ AskedOnce(r)'
  <1>1. SentOnce(r) /\ AskedOnce(r) /\ UNCHANGED rang
    BY DEF PushInv, RowsOK, WriteTicket
  <1>2. /\ worker[w].batch[q] \in Answers /\ worker[w].batch[q] # "not"
        /\ worker[w].pc = "tickets" /\ worker[w].then = "tickets" /\ Answered(w)
    BY DEF WriteTicket, At, Held, PushInv, WorkersOK, Answered
  <1>3. /\ \A v \in Workers \ {w} : worker'[v] = worker[v]
        /\ worker'[w].batch[q] = "not"
        /\ \A p \in Rows \ {q} :
              \/ worker[w].batch[p] = "not" /\ worker'[w].batch[p] = "not"
              \/ /\ worker'[w].batch[p] = worker[w].batch[p]
                 /\ worker'[w].then = worker[w].then
                 /\ Answered(w)' = Answered(w)
    BY <1>2, NextOfBatch DEF WriteTicket
  <1>4. \A v \in Workers \ {w} : Answered(v)' = Answered(v)
    BY <1>3 DEF Answered
  <1>5. CASE r # q
    <2>1. push'[r] = push[r]
      BY <1>5 DEF WriteTicket
    <2>2. worker[w].batch[r] = "not" => ~Sends(w, r)
      BY DEF Sends
    <2> QED
      BY <1>1, <1>3, <1>4, <1>5, <2>1, <2>2, RowFrame
  <1>6. CASE r = q
    <2>1. Sends(w, r)
      BY <1>2, <1>6 DEF Sends
    <2>2. /\ push[r].status = "PENDING"
          /\ rang[r] = IF worker[w].batch[r] = "ok" THEN 1 ELSE 0
          /\ \A v \in Workers \ {w} : ~Sends(v, r)
      BY <1>1, <1>2, <2>1 DEF SentOnce
    <2>3. \A v \in Workers : ~Asks(v, r)
      BY <1>1, <2>2 DEF AskedOnce
    <2>4. \A v \in Workers : ~Sends(v, r)' /\ ~Asks(v, r)'
      BY <1>3, <1>6, <2>2, <2>3 DEF Sends, Asks
    <2>5. push'[r] = Ticketed(r, worker[w].batch[r])
      BY <1>6 DEF WriteTicket, PushInv, PushTypeOK
    <2>6. push'[r].status \in {"none", "PENDING"} => worker[w].batch[r] # "ok"
      BY <2>5 DEF Ticketed
    <2> QED
      BY <1>1, <2>2, <2>4, <2>6 DEF SentOnce, AskedOnce
  <1> QED
    BY <1>5, <1>6

LEMMA DeleteTokenRows ==
  ASSUME PushInv, NEW w \in Workers, DeleteToken(w), NEW r \in Rows \ excuse
  PROVE  SentOnce(r)' /\ AskedOnce(r)'
  <1> DEFINE row == IF Held(w) = {} THEN Idle
                    ELSE [worker[w] EXCEPT !.pc = worker[w].then, !.device = Idle.device]
  <1>1. SentOnce(r) /\ AskedOnce(r) /\ UNCHANGED <<push, rang>>
    BY DEF PushInv, RowsOK, DeleteToken
  <1>2. /\ worker[w] \in WorkerRow /\ worker[w].then \in {"tickets", "receipts"} /\ Answered(w)
        /\ worker' = [worker EXCEPT ![w] = row]
    BY DEF DeleteToken, At, PushInv, PushTypeOK, WorkerRow, Answered
  <1>3. worker'[w] = row /\ \A v \in Workers \ {w} : worker'[v] = worker[v]
    BY <1>2, OneWorker DEF PushInv
  <1>4. \A v \in Workers \ {w} : Answered(v)' = Answered(v)
    BY <1>3 DEF Answered
  <1>5. CASE Held(w) = {}
    BY <1>1, <1>3, <1>4, <1>5, IdleType, RowFrame DEF Held, Sends
  <1>6. CASE Held(w) # {}
    <2>1. row.pc = worker[w].then /\ row.then = worker[w].then /\ row.batch = worker[w].batch
      BY <1>2, <1>6 DEF WorkerRow
    <2>2. Answered(w)'
      BY <1>2, <1>3, <2>1 DEF Answered
    <2>3. \A v \in Workers :
           \/ worker'[v].batch[r] = "not" /\ (Sends(v, r) => rang[r] = 0)
           \/ /\ worker'[v].batch[r] = worker[v].batch[r]
              /\ worker'[v].then = worker[v].then
              /\ Answered(v)' = Answered(v)
      BY <1>2, <1>3, <1>4, <2>1, <2>2 DEF Answered
    <2> QED
      BY <1>1, <2>3, RowFrame
  <1> QED
    BY <1>5, <1>6

LEMMA ReadTicketedRows ==
  ASSUME PushInv, NEW w \in Workers, ReadTicketed(w), NEW r \in Rows \ excuse
  PROVE  SentOnce(r)' /\ AskedOnce(r)'
  <1> DEFINE rows == {q \in Rows : push[q].status = "TICKETED"}
             row == [Idle EXCEPT !.pc = "fetch", !.batch = Read(rows), !.then = "receipts"]
  <1>1. SentOnce(r) /\ AskedOnce(r) /\ UNCHANGED <<push, rang>>
    BY DEF PushInv, RowsOK, ReadTicketed
  <1>2. worker[w] = Idle /\ worker' = [worker EXCEPT ![w] = row]
    BY DEF PushInv, WorkersOK, ReadTicketed, At
  <1>3. /\ row.pc = "fetch" /\ row.then = "receipts"
        /\ row.batch[r] = IF r \in rows THEN "read" ELSE "not"
    BY ReadType DEF Idle
  <1>4. worker'[w] = row /\ \A v \in Workers \ {w} : worker'[v] = worker[v]
    BY <1>2, OneWorker DEF PushInv
  <1>5. \A v \in Workers : Sends(v, r)' = Sends(v, r) /\ Answered(v)' = Answered(v)
    BY <1>2, <1>3, <1>4, IdleType DEF Sends, Answered, Idle
  <1>6. SentOnce(r)'
    <2>1. ~Sends(w, r)'
      BY <1>3, <1>4 DEF Sends
    <2>2. \A v \in Workers : Sends(v, r)' => Sends(v, r) /\ worker'[v] = worker[v]
      BY <1>4, <1>5, <2>1
    <2>3. \A v \in Workers : Sends(v, r)' =>
            /\ push[r].status = "PENDING"
            /\ rang[r] = IF Answered(v)' /\ worker'[v].batch[r] = "ok" THEN 1 ELSE 0
      BY <1>1, <1>5, <2>2 DEF SentOnce
    <2>4. (\A v \in Workers : ~Sends(v, r)') => \A v \in Workers : ~Sends(v, r)
      BY <1>5
    <2>5. \A u, v \in Workers : Sends(u, r)' /\ Sends(v, r)' => u = v
      BY <1>1, <2>2 DEF SentOnce
    <2> QED
      BY <1>1, <2>3, <2>4, <2>5 DEF SentOnce
  <1>7. \A v \in Workers : Asks(v, r)' =>
          \/ Asks(v, r) /\ worker'[v] = worker[v]
          \/ push[r].status = "TICKETED" /\ ~Answered(v)'
    BY <1>3, <1>4 DEF Asks, Answered
  <1>8. AskedOnce(r)'
    BY <1>1, <1>5, <1>7 DEF AskedOnce
  <1> QED
    BY <1>6, <1>8

LEMMA FetchRows ==
  ASSUME PushInv, NEW w \in Workers, FetchReceipts(w), NEW r \in Rows \ excuse
  PROVE  SentOnce(r)' /\ AskedOnce(r)'
  <1>1. PICK ready \in SUBSET Held(w) \ {{}} : \E receipt \in [ready -> Answers] :
          /\ \A q \in ready : push[q].receipt \in {"unknown", receipt[q]}
          /\ push' = [q \in Rows |-> IF q \in ready
                                    THEN [push[q] EXCEPT !.receipt = receipt[q]] ELSE push[q]]
          /\ worker' = [worker EXCEPT ![w].pc = "receipts", ![w].batch = Batch(ready, receipt)]
    BY DEF FetchReceipts
  <1>2. PICK receipt \in [ready -> Answers] :
          /\ \A q \in ready : push[q].receipt \in {"unknown", receipt[q]}
          /\ push' = [q \in Rows |-> IF q \in ready
                                    THEN [push[q] EXCEPT !.receipt = receipt[q]] ELSE push[q]]
          /\ worker' = [worker EXCEPT ![w].pc = "receipts", ![w].batch = Batch(ready, receipt)]
    BY <1>1
  <1> DEFINE row == [worker[w] EXCEPT !.pc = "receipts", !.batch = Batch(ready, receipt)]
  <1>3. SentOnce(r) /\ AskedOnce(r) /\ UNCHANGED rang
    BY DEF PushInv, RowsOK, FetchReceipts
  <1>4. /\ worker[w] \in WorkerRow /\ worker[w].then = "receipts"
        /\ ~Answered(w) /\ worker' = [worker EXCEPT ![w] = row]
    BY <1>2 DEF PushInv, PushTypeOK, WorkersOK, FetchReceipts, At, Answered
  <1>5. row.then = "receipts" /\ row.batch[r] = IF r \in ready THEN receipt[r] ELSE "not"
    BY <1>4 DEF WorkerRow, Batch
  <1>6. worker'[w] = row /\ \A v \in Workers \ {w} : worker'[v] = worker[v]
    BY <1>4, OneWorker DEF PushInv
  <1>7. push[r] \in PushRow
    BY DEF PushInv, PushTypeOK
  <1>8. \A v \in Workers : Sends(v, r)' = Sends(v, r)
    BY <1>4, <1>5, <1>6 DEF Sends
  <1>9. push'[r].status = push[r].status
    BY <1>2, <1>7 DEF PushRow
  <1>10. SentOnce(r)'
    <2>1. \A v \in Workers : Sends(v, r) => v # w
      BY <1>4 DEF Sends
    <2> QED
      BY <1>3, <1>6, <1>8, <1>9, <2>1 DEF SentOnce, Answered
  <1>11. CASE r \notin ready
    <2>1. push'[r] = push[r]
      BY <1>2, <1>11
    <2>2. \A v \in Workers : Asks(v, r)' => Asks(v, r) /\ worker'[v] = worker[v]
      BY <1>5, <1>6, <1>11 DEF Asks
    <2>3. AskedOnce(r)'
      BY <1>3, <2>1, <2>2 DEF AskedOnce, Answered
    <2> QED
      BY <1>10, <2>3
  <1>12. CASE r \in ready
    <2>1. Asks(w, r)
      BY <1>4, <1>12 DEF Held, Asks
    <2>2. push'[r].receipt = receipt[r] /\ receipt[r] \in Answers
      BY <1>2, <1>7, <1>12 DEF PushRow
    <2>3. push[r].receipt # "unknown" => push'[r].receipt = push[r].receipt
      BY <1>2, <1>12, <2>2
    <2>4. worker'[w].batch[r] = receipt[r]
      BY <1>5, <1>6, <1>12
    <2>5. \A v \in Workers \ {w} : (Asks(v, r)' = Asks(v, r)) /\ (Answered(v)' = Answered(v))
                                   /\ worker'[v].batch[r] = worker[v].batch[r]
      BY <1>6 DEF Asks, Answered
    <2>6. \A v \in Workers \ {w} : Answered(v) /\ Asks(v, r) => worker[v].batch[r] # "unknown"
      BY DEF PushInv, WorkersOK, Answers, Asks
    <2>7. /\ push[r].status \in {"TICKETED", "DELIVERED", "FAILED"}
          /\ push[r].status = "DELIVERED" => push[r].receipt = "ok"
          /\ push[r].status = "FAILED" => push[r].receipt \in {"unregistered", "error"}
      BY <1>3, <2>1 DEF AskedOnce
    <2>8. AskedOnce(r)'
      <3> SUFFICES ASSUME NEW v \in Workers, Asks(v, r)'
                   PROVE  Answered(v)' => push'[r].receipt = worker'[v].batch[r]
        BY <1>9, <2>2, <2>3, <2>7 DEF AskedOnce
      <3>1. CASE v = w
        BY <2>2, <2>4, <3>1
      <3>2. CASE v # w
        BY <1>3, <2>3, <2>5, <2>6, <3>2 DEF AskedOnce
      <3> QED
        BY <3>1, <3>2
    <2> QED
      BY <1>10, <2>8
  <1> QED
    BY <1>11, <1>12

LEMMA ReceiptRows ==
  ASSUME PushInv, NEW w \in Workers, NEW q \in Rows, WriteReceipt(w, q), NEW r \in Rows \ excuse
  PROVE  SentOnce(r)' /\ AskedOnce(r)'
  <1>1. SentOnce(r) /\ AskedOnce(r) /\ UNCHANGED rang
    BY DEF PushInv, RowsOK, WriteReceipt
  <1>2. /\ worker[w].batch[q] \in Answers /\ worker[w].batch[q] # "not"
        /\ worker[w].pc = "receipts" /\ worker[w].then = "receipts" /\ Answered(w)
    BY DEF WriteReceipt, At, Held, PushInv, WorkersOK, Answered
  <1>3. /\ \A v \in Workers \ {w} : worker'[v] = worker[v]
        /\ worker'[w].batch[q] = "not"
        /\ \A p \in Rows \ {q} :
              \/ worker[w].batch[p] = "not" /\ worker'[w].batch[p] = "not"
              \/ /\ worker'[w].batch[p] = worker[w].batch[p]
                 /\ worker'[w].then = worker[w].then
                 /\ Answered(w)' = Answered(w)
    BY <1>2, NextOfBatch DEF WriteReceipt
  <1>4. \A v \in Workers \ {w} : Answered(v)' = Answered(v)
    BY <1>3 DEF Answered
  <1>5. CASE r # q
    <2>1. push'[r] = push[r]
      BY <1>5 DEF WriteReceipt
    <2>2. worker[w].batch[r] = "not" => ~Sends(w, r)
      BY DEF Sends
    <2> QED
      BY <1>1, <1>3, <1>4, <1>5, <2>1, <2>2, RowFrame
  <1>6. CASE r = q
    <2>1. Asks(w, r)
      BY <1>2, <1>6 DEF Asks
    <2>2. /\ push[r].status \in {"TICKETED", "DELIVERED", "FAILED"}
          /\ push[r].receipt = worker[w].batch[r]
      BY <1>1, <1>2, <2>1 DEF AskedOnce
    <2>3. \A v \in Workers : ~Sends(v, r)
      BY <1>1, <2>2 DEF SentOnce
    <2>4. \A v \in Workers : ~Sends(v, r)'
      BY <1>3, <1>6, <2>3 DEF Sends
    <2>5. /\ push'[r].status = IF worker[w].batch[r] = "ok" THEN "DELIVERED" ELSE "FAILED"
          /\ push'[r].receipt = push[r].receipt
      BY <1>6 DEF WriteReceipt, PushInv, PushTypeOK, PushRow
    <2>6. SentOnce(r)'
      BY <1>1, <2>4, <2>5 DEF SentOnce
    <2>7. \A v \in Workers : Asks(v, r)' => v # w /\ Asks(v, r) /\ worker'[v] = worker[v]
      BY <1>3, <1>6 DEF Asks
    <2>8. AskedOnce(r)'
      BY <1>1, <1>2, <1>4, <1>6, <2>2, <2>5, <2>7 DEF AskedOnce, Answers
    <2> QED
      BY <2>6, <2>8
  <1> QED
    BY <1>5, <1>6

LEMMA DiesRows ==
  ASSUME PushInv, NEW w \in Workers, Dies(w), NEW r \in Rows \ excuse'
  PROVE  SentOnce(r)' /\ AskedOnce(r)'
  <1>1. SentOnce(r) /\ AskedOnce(r) /\ UNCHANGED <<push, rang>>
    BY DEF PushInv, RowsOK, Dies
  <1>2. worker'[w] = Idle /\ \A v \in Workers \ {w} : worker'[v] = worker[v]
    BY OneWorker DEF Dies, PushInv
  <1>3. Sends(w, r) => ~Answered(w)
    BY DEF Dies, Held, Sends, At, Answered, PushInv, WorkersOK
  <1>4. worker'[w].batch[r] = "not" /\ (Sends(w, r) => rang[r] = 0)
    BY <1>1, <1>2, <1>3, IdleType DEF SentOnce
  <1>5. \A v \in Workers \ {w} : Answered(v)' = Answered(v)
    BY <1>2 DEF Answered
  <1> QED
    BY <1>1, <1>2, <1>4, <1>5, RowFrame

LEMMA FallsDueRows ==
  ASSUME PushInv, NEW q \in Rows, FallsDue(q), NEW r \in Rows \ excuse
  PROVE  SentOnce(r)' /\ AskedOnce(r)'
  <1>1. SentOnce(r) /\ AskedOnce(r) /\ UNCHANGED <<rang, worker>>
    BY DEF PushInv, RowsOK, FallsDue
  <1>2. push'[r].status = push[r].status /\ push'[r].receipt = push[r].receipt
    BY DEF FallsDue, PushInv, PushTypeOK, PushRow
  <1> QED
    BY <1>1, <1>2, RowFrame DEF Answered

LEMMA PushInvNext == PushInv /\ [PushNext]_pushVars => PushInv'
  <1> SUFFICES ASSUME PushInv, [PushNext]_pushVars PROVE PushInv'
    OBVIOUS
  <1>1. PushTypeOK' /\ WorkersOK'
    BY PushTypesNext DEF PushInv
  <1>2. excuse \subseteq excuse'
    BY DEF PushNext, pushVars, Send, Receive, enqueuePushes, ReadDue, Post, PostFails, BackOff,
           WriteTicket, DeleteToken, FallsDue, ReadTicketed, FetchReceipts, WriteReceipt, Dies
  <1>3. RowsOK'
    <2> SUFFICES ASSUME NEW r \in Rows \ excuse'
                 PROVE  SentOnce(r)' /\ AskedOnce(r)'
      BY DEF RowsOK
    <2>1. r \in Rows \ excuse
      BY <1>2
    <2>2. CASE UNCHANGED pushVars
      BY <2>1, <2>2, RowFrame DEF pushVars, Answered, PushInv, RowsOK
    <2>3. ASSUME NEW e \in Events, enqueuePushes(e)
          PROVE  SentOnce(r)' /\ AskedOnce(r)'
      BY <2>1, <2>3, EnqueueRows
    <2>4. ASSUME NEW w \in Workers, NEW wanted, ReadDue(w, wanted)
          PROVE  SentOnce(r)' /\ AskedOnce(r)'
      BY <2>4, ReadDueRows
    <2>5. ASSUME NEW w \in Workers, Receive(w)
          PROVE  SentOnce(r)' /\ AskedOnce(r)'
      BY <2>1, <2>5, ReadTicketedRows, FetchRows, ReceiptRows DEF Receive
    <2>6. ASSUME NEW w \in Workers, Send(w)
          PROVE  SentOnce(r)' /\ AskedOnce(r)'
      BY <2>1, <2>6, PostRows, PostFailsRows, BackOffRows, TicketRows, DeleteTokenRows DEF Send
    <2>7. ASSUME NEW w \in Workers, Dies(w)
          PROVE  SentOnce(r)' /\ AskedOnce(r)'
      BY <2>7, DiesRows
    <2>8. ASSUME NEW q \in Rows, FallsDue(q)
          PROVE  SentOnce(r)' /\ AskedOnce(r)'
      BY <2>1, <2>8, FallsDueRows
    <2>9. Crons \subseteq Workers /\ Consumers \subseteq Workers
      BY DEF Workers
    <2> QED
      BY <2>2, <2>3, <2>4, <2>5, <2>6, <2>7, <2>8, <2>9 DEF PushNext
  <1> QED
    BY <1>1, <1>3 DEF PushInv

LEMMA PushInvInit == PushInit => PushInv
  <1> SUFFICES ASSUME PushInit PROVE PushInv
    OBVIOUS
  <1>1. \A r \in Rows, w \in Workers : ~Sends(w, r) /\ ~Asks(w, r)
    BY IdleType DEF PushInit, Sends, Asks
  <1>2. \A r \in Rows : rang[r] = 0
    BY DEF PushInit
  <1> QED
    BY <1>1, <1>2, PushTypesInit DEF PushInv, RowsOK, SentOnce, AskedOnce

(***************************************************************************)
(* A phone rings twice for an event only for an overlap or a lost answer.  *)
(***************************************************************************)
THEOREM PhonesRingOnce == PushSpec => []RingsOnce
  <1>1. PushInv => RingsOnce
    BY DEF PushInv, PushTypeOK, RowsOK, SentOnce, RingsOnce
  <1> QED
    BY <1>1, PushInvInit, PushInvNext, PTL DEF PushSpec

\* A step changes no status that says what became of a push, excuses aside.
LEMMA FinalStatusStays ==
  ASSUME PushInv, [PushNext]_pushVars, NEW r \in Rows \ excuse,
         push[r].status \in {"DELIVERED", "FAILED"}
  PROVE  push'[r].status = push[r].status
  <1>1. /\ SentOnce(r) /\ AskedOnce(r) /\ PushTypeOK /\ WorkersOK /\ push[r] \in PushRow
    BY DEF PushInv, RowsOK, PushTypeOK
  <1>2. CASE UNCHANGED push
    BY <1>2
  <1>3. ASSUME NEW e \in Events, enqueuePushes(e)
        PROVE  push'[r] = push[r]
    BY <1>3 DEF enqueuePushes
  <1>4. ASSUME NEW w \in Workers, BackOff(w)
        PROVE  push'[r].status = push[r].status
    BY <1>1, <1>4 DEF BackOff, PushRow
  <1>5. ASSUME NEW w \in Workers, NEW q \in Rows, WriteTicket(w, q)
        PROVE  push'[r] = push[r]
    <2>1. Sends(w, q)
      BY <1>1, <1>5 DEF WriteTicket, At, Held, Sends, WorkersOK
    <2>2. r # q
      BY <1>1, <2>1 DEF SentOnce
    <2> QED
      BY <1>5, <2>2 DEF WriteTicket
  <1>6. ASSUME NEW w \in Workers, FetchReceipts(w)
        PROVE  push'[r].status = push[r].status
    <2>1. PICK ready \in SUBSET Held(w) \ {{}} : \E receipt \in [ready -> Answers] :
            push' = [q \in Rows |-> IF q \in ready
                                    THEN [push[q] EXCEPT !.receipt = receipt[q]] ELSE push[q]]
      BY <1>6 DEF FetchReceipts
    <2> QED
      BY <1>1, <2>1 DEF PushRow
  <1>7. ASSUME NEW w \in Workers, NEW q \in Rows, WriteReceipt(w, q)
        PROVE  push'[r].status = push[r].status
    <2>1. CASE r # q
      BY <1>7, <2>1 DEF WriteReceipt
    <2>2. CASE r = q
      <3>1. Asks(w, r) /\ Answered(w)
        BY <1>1, <1>7, <2>2 DEF WriteReceipt, At, Held, Asks, Answered, WorkersOK
      <3>2. push'[r].status = IF worker[w].batch[r] = "ok" THEN "DELIVERED" ELSE "FAILED"
        BY <1>1, <1>7, <2>2 DEF WriteReceipt, PushTypeOK, PushRow
      <3> QED
        BY <1>1, <3>1, <3>2 DEF AskedOnce
    <2> QED
      BY <2>1, <2>2
  <1>8. ASSUME NEW q \in Rows, FallsDue(q)
        PROVE  push'[r].status = push[r].status
    BY <1>1, <1>8 DEF FallsDue, PushTypeOK, PushRow
  <1>9. ASSUME NEW w \in Workers,
               \/ \E wanted \in SUBSET Events : ReadDue(w, wanted)
               \/ Post(w) \/ PostFails(w) \/ DeleteToken(w) \/ ReadTicketed(w) \/ Dies(w)
        PROVE  UNCHANGED push
    BY <1>9 DEF ReadDue, Post, PostFails, DeleteToken, ReadTicketed, Dies
  <1>10. Crons \subseteq Workers /\ Consumers \subseteq Workers
         /\ Events \in SUBSET Events /\ \A e \in Events : {e} \in SUBSET Events
    BY DEF Workers
  <1> QED
    BY <1>2, <1>3, <1>4, <1>5, <1>6, <1>7, <1>8, <1>9, <1>10
       DEF PushNext, Send, Receive, pushVars

(***************************************************************************)
(* What became of a push is written once, with the same excuses.           *)
(***************************************************************************)
THEOREM FinalStatusStands == PushSpec => FinalStands
  <1>1. PushInv /\ [PushNext]_pushVars =>
          [\A r \in Rows \ excuse : push[r].status \in {"DELIVERED", "FAILED"}
                                    => push'[r].status = push[r].status]_pushVars
    BY FinalStatusStays
  <1> QED
    BY <1>1, PushInvInit, PushInvNext, PTL DEF PushSpec, FinalStands

-----------------------------------------------------------------------------
(***************************************************************************)
(* What is recorded as sent did ring.  Here no row is excused: of every    *)
(* row that a Worker carries the good answer of, or asks the receipt of,   *)
(* the phone rang before.                                                  *)
(***************************************************************************)
Carries(w, r) == worker[w].batch[r] = "ok" \/ Asks(w, r)

Rung(r) == /\ push[r].status \in {"TICKETED", "DELIVERED"} => rang[r] > 0
           /\ \A w \in Workers : Carries(w, r) => rang[r] > 0

RungInv == PushInv /\ \A r \in Rows : Rung(r)

\* Nothing takes a ring back.
LEMMA RingsStay == ASSUME PushInv, [PushNext]_pushVars, NEW r \in Rows PROVE rang'[r] >= rang[r]
  <1>1. rang[r] \in 0..2
    BY RowTypes DEF PushInv
  <1>2. CASE UNCHANGED rang
    BY <1>1, <1>2
  <1>3. ASSUME NEW rows, Ring(rows) PROVE rang'[r] >= rang[r]
    BY <1>1, <1>3 DEF Ring
  <1>4. UNCHANGED rang \/ \E rows : Ring(rows)
    BY DEF PushNext, pushVars, Send, Receive, enqueuePushes, ReadDue, Post, PostFails, BackOff,
           WriteTicket, DeleteToken, FallsDue, ReadTicketed, FetchReceipts, WriteReceipt, Dies
  <1> QED
    BY <1>2, <1>3, <1>4

\* The steps of a Worker that write no status: what they make it carry rang.
LEMMA WorkerRung ==
  ASSUME PushInv, [PushNext]_pushVars, NEW r \in Rows, Rung(r),
         push'[r].status \in {"TICKETED", "DELIVERED"} =>
           push[r].status \in {"TICKETED", "DELIVERED"} \/ rang[r] > 0,
         \A v \in Workers : Carries(v, r)' => Carries(v, r) \/ rang'[r] > 0
  PROVE  Rung(r)'
  <1>1. rang[r] \in 0..2 /\ rang'[r] \in 0..2 /\ rang'[r] >= rang[r]
    BY RingsStay, RowTypes, PushInvNext DEF PushInv, PushTypeOK
  <1> QED
    BY <1>1 DEF Rung

LEMMA CarriesSame ==
  ASSUME NEW v, NEW r, worker'[v].batch[r] = "not" \/
                       (/\ worker'[v].batch[r] = worker[v].batch[r]
                        /\ worker'[v].then = worker[v].then)
  PROVE  Carries(v, r)' => Carries(v, r)
  BY DEF Carries, Asks

LEMMA RungRead ==
  ASSUME RungInv, NEW w \in Workers, NEW r \in Rows, [PushNext]_pushVars,
         ReadTicketed(w) \/ \E wanted \in SUBSET Events : ReadDue(w, wanted)
  PROVE  Rung(r)'
  <1>1. PushInv /\ Rung(r) /\ PushTypeOK /\ UNCHANGED push
    BY DEF RungInv, PushInv, ReadTicketed, ReadDue
  <1>2. CASE ReadTicketed(w)
    <2> DEFINE rows == {q \in Rows : push[q].status = "TICKETED"}
               row == [Idle EXCEPT !.pc = "fetch", !.batch = Read(rows), !.then = "receipts"]
    <2>1. worker' = [worker EXCEPT ![w] = row] /\ UNCHANGED rang
      BY <1>2 DEF ReadTicketed
    <2>2. worker'[w] = row /\ \A v \in Workers \ {w} : worker'[v] = worker[v]
      BY <1>1, <2>1, OneWorker
    <2>3. row.batch[r] = IF r \in rows THEN "read" ELSE "not"
      BY ReadType DEF Idle
    <2>4. Carries(w, r)' => rang'[r] > 0
      BY <1>1, <2>1, <2>2, <2>3 DEF Carries, Asks, Rung
    <2>5. \A v \in Workers \ {w} : Carries(v, r)' => Carries(v, r)
      BY <2>2, CarriesSame
    <2> QED
      BY <1>1, <2>4, <2>5, WorkerRung
  <1>3. ASSUME NEW wanted, ReadDue(w, wanted) PROVE Rung(r)'
    <2> DEFINE rows == {q \in Rows : q[1] \in wanted /\ isDue(q)}
               row == [Idle EXCEPT !.pc = "post", !.batch = Read(rows)]
    <2>1. worker' = [worker EXCEPT ![w] = row]
      BY <1>3 DEF ReadDue
    <2>2. worker'[w] = row /\ \A v \in Workers \ {w} : worker'[v] = worker[v]
      BY <1>1, <2>1, OneWorker
    <2>3. row.batch[r] \in {"read", "not"} /\ row.then = "tickets"
      BY ReadType DEF Idle
    <2>4. ~Carries(w, r)'
      BY <2>2, <2>3 DEF Carries, Asks
    <2>5. \A v \in Workers \ {w} : Carries(v, r)' => Carries(v, r)
      BY <2>2, CarriesSame
    <2> QED
      BY <1>1, <2>4, <2>5, WorkerRung
  <1> QED
    BY <1>2, <1>3

\* Expo's answer is what rings: a message it took is carried and rang.
LEMMA RungSend ==
  ASSUME RungInv, NEW w \in Workers, NEW r \in Rows, [PushNext]_pushVars,
         Post(w) \/ PostFails(w) \/ BackOff(w) \/ DeleteToken(w) \/ Dies(w)
  PROVE  Rung(r)'
  <1>1. /\ PushInv /\ Rung(r) /\ PushTypeOK /\ worker[w] \in WorkerRow
        /\ push[r] \in PushRow /\ rang[r] \in 0..2
    BY DEF RungInv, PushInv, PushTypeOK
  <1>2. push'[r].status = push[r].status
    BY <1>1 DEF Post, PostFails, BackOff, DeleteToken, Dies, PushRow
  <1>3. CASE Post(w)
    <2>1. PICK ticket \in [Held(w) -> Answers] :
            /\ worker' = [worker EXCEPT ![w].pc = "tickets", ![w].batch = Batch(Held(w), ticket)]
            /\ Ring({q \in Held(w) : ticket[q] = "ok"})
      BY <1>3 DEF Post
    <2> DEFINE row == [worker[w] EXCEPT !.pc = "tickets", !.batch = Batch(Held(w), ticket)]
    <2>2. worker' = [worker EXCEPT ![w] = row] /\ worker[w].then = "tickets"
      BY <1>1, <1>3, <2>1 DEF Post, At, PushInv, PushTypeOK, WorkersOK
    <2>3. worker'[w] = row /\ \A v \in Workers \ {w} : worker'[v] = worker[v]
      BY <1>1, <2>2, OneWorker
    <2>4. row.then = "tickets" /\ row.batch[r] = IF r \in Held(w) THEN ticket[r] ELSE "not"
      BY <1>1, <2>2 DEF WorkerRow, Batch
    <2>5. r \in Held(w) /\ ticket[r] = "ok" => rang'[r] > 0
      BY <1>1, <2>1 DEF Ring
    <2>6. Carries(w, r)' => rang'[r] > 0
      BY <2>3, <2>4, <2>5 DEF Carries, Asks
    <2>7. \A v \in Workers \ {w} : Carries(v, r)' => Carries(v, r)
      BY <2>3, CarriesSame
    <2> QED
      BY <1>1, <1>2, <2>6, <2>7, WorkerRung
  <1>4. CASE PostFails(w) \/ BackOff(w) \/ DeleteToken(w) \/ Dies(w)
    <2>1. PICK row : /\ worker' = [worker EXCEPT ![w] = row]
                     /\ row = Idle \/ (row.batch = worker[w].batch /\ row.then = worker[w].then)
      <3>1. CASE PostFails(w)
        <4>1. [worker[w] EXCEPT !.pc = "backoff"].batch = worker[w].batch
              /\ [worker[w] EXCEPT !.pc = "backoff"].then = worker[w].then
          BY <1>1 DEF WorkerRow
        <4> QED
          BY <1>1, <3>1, <4>1 DEF PostFails, PushTypeOK
      <3>2. CASE BackOff(w) \/ Dies(w)
        BY <3>2 DEF BackOff, Dies
      <3>3. CASE DeleteToken(w)
        <4> DEFINE next == [worker[w] EXCEPT !.pc = worker[w].then, !.device = Idle.device]
        <4>1. next.batch = worker[w].batch /\ next.then = worker[w].then
          BY <1>1 DEF WorkerRow
        <4>2. worker' = [worker EXCEPT ![w] = Idle] \/ worker' = [worker EXCEPT ![w] = next]
          BY <1>1, <3>3 DEF DeleteToken, PushTypeOK
        <4> QED
          BY <4>1, <4>2
      <3> QED
        BY <1>4, <3>1, <3>2, <3>3
    <2>2. worker'[w] = row /\ \A v \in Workers \ {w} : worker'[v] = worker[v]
      BY <1>1, <2>1, OneWorker
    <2>3. \A v \in Workers : Carries(v, r)' => Carries(v, r)
      BY <2>1, <2>2, CarriesSame, IdleType
    <2> QED
      BY <1>1, <1>2, <2>3, WorkerRung
  <1> QED
    BY <1>3, <1>4

\* What is written of a row comes from an answer that is carried.
LEMMA RungWrite ==
  ASSUME RungInv, NEW w \in Workers, NEW q \in Rows, NEW r \in Rows, [PushNext]_pushVars,
         WriteTicket(w, q) \/ WriteReceipt(w, q)
  PROVE  Rung(r)'
  <1>1. PushInv /\ Rung(r) /\ PushTypeOK /\ push[r] \in PushRow /\ WorkersOK
    BY DEF RungInv, PushInv, PushTypeOK
  <1>2. /\ worker[w].batch[q] \in Answers /\ worker[w].batch[q] # "not"
        /\ worker[w].pc \in {"tickets", "receipts"} /\ Answered(w)
        /\ WriteReceipt(w, q) => worker[w].then = "receipts"
    BY <1>1 DEF WriteTicket, WriteReceipt, At, Held, WorkersOK, Answered
  <1>3. /\ \A v \in Workers \ {w} : worker'[v] = worker[v]
        /\ worker'[w].batch[q] = "not"
        /\ r # q => \/ worker[w].batch[r] = "not" /\ worker'[w].batch[r] = "not"
                    \/ /\ worker'[w].batch[r] = worker[w].batch[r]
                       /\ worker'[w].then = worker[w].then
    BY <1>1, <1>2, NextOfBatch DEF WriteTicket, WriteReceipt
  <1>4. \A v \in Workers : Carries(v, r)' => Carries(v, r)
    BY <1>3, CarriesSame
  <1>5. CASE r # q
    <2>1. CASE WriteTicket(w, q)
      BY <1>1, <1>4, <1>5, <2>1, WorkerRung DEF WriteTicket, PushTypeOK
    <2>2. CASE WriteReceipt(w, q)
      BY <1>1, <1>4, <1>5, <2>2, WorkerRung DEF WriteReceipt, PushTypeOK
    <2> QED
      BY <2>1, <2>2
  <1>6. CASE r = q /\ WriteTicket(w, q)
    <2>1. push'[r] = Ticketed(r, worker[w].batch[r])
      BY <1>1, <1>6 DEF WriteTicket, PushTypeOK
    <2>2. worker[w].batch[r] # "ok" => push'[r].status \in {"FAILED", "PENDING"}
      BY <1>1, <1>2, <1>6, <2>1 DEF Ticketed, PushRow, Answers
    <2>3. worker[w].batch[r] = "ok" => rang[r] > 0
      BY <1>1 DEF Rung, Carries
    <2> QED
      BY <1>1, <1>4, <2>2, <2>3, WorkerRung
  <1>7. CASE r = q /\ WriteReceipt(w, q)
    <2>1. rang[r] > 0
      BY <1>1, <1>2, <1>7 DEF Rung, Carries, Asks
    <2> QED
      BY <1>1, <1>4, <2>1, WorkerRung
  <1> QED
    BY <1>5, <1>6, <1>7

LEMMA RungFetch ==
  ASSUME RungInv, NEW w \in Workers, NEW r \in Rows, [PushNext]_pushVars, FetchReceipts(w)
  PROVE  Rung(r)'
  <1>1. /\ PushInv /\ Rung(r) /\ PushTypeOK /\ push[r] \in PushRow /\ WorkersOK
        /\ worker[w] \in WorkerRow /\ worker[w].then = "receipts"
    BY DEF RungInv, PushInv, PushTypeOK, FetchReceipts, At, WorkersOK
  <1>2. PICK ready \in SUBSET Held(w) \ {{}} : \E receipt \in [ready -> Answers] :
          /\ push' = [q \in Rows |-> IF q \in ready
                                    THEN [push[q] EXCEPT !.receipt = receipt[q]] ELSE push[q]]
          /\ worker' = [worker EXCEPT ![w].pc = "receipts", ![w].batch = Batch(ready, receipt)]
    BY DEF FetchReceipts
  <1>3. PICK receipt \in [ready -> Answers] :
          /\ push' = [q \in Rows |-> IF q \in ready
                                    THEN [push[q] EXCEPT !.receipt = receipt[q]] ELSE push[q]]
          /\ worker' = [worker EXCEPT ![w].pc = "receipts", ![w].batch = Batch(ready, receipt)]
    BY <1>2
  <1> DEFINE row == [worker[w] EXCEPT !.pc = "receipts", !.batch = Batch(ready, receipt)]
  <1>4. worker' = [worker EXCEPT ![w] = row]
    BY <1>1, <1>3 DEF PushTypeOK
  <1>5. worker'[w] = row /\ \A v \in Workers \ {w} : worker'[v] = worker[v]
    BY <1>1, <1>4, OneWorker
  <1>6. row.then = "receipts" /\ row.batch[r] = IF r \in ready THEN receipt[r] ELSE "not"
    BY <1>1 DEF WorkerRow, Batch
  <1>7. push'[r].status = push[r].status
    BY <1>1, <1>3 DEF PushRow
  <1>8. Carries(w, r)' => Carries(w, r)
    BY <1>1, <1>5, <1>6 DEF Carries, Asks, Held
  <1>9. \A v \in Workers \ {w} : Carries(v, r)' => Carries(v, r)
    BY <1>5, CarriesSame
  <1> QED
    BY <1>1, <1>7, <1>8, <1>9, WorkerRung

LEMMA RungNext == RungInv /\ [PushNext]_pushVars => RungInv'
  <1> SUFFICES ASSUME RungInv, [PushNext]_pushVars, NEW r \in Rows PROVE Rung(r)'
    BY PushInvNext DEF RungInv
  <1>1. PushInv /\ Rung(r) /\ push[r] \in PushRow
    BY DEF RungInv, PushInv, PushTypeOK
  <1>2. ASSUME UNCHANGED worker, push'[r].status \in {push[r].status, "PENDING"}
        PROVE  Rung(r)'
    BY <1>1, <1>2, WorkerRung DEF Carries, Asks
  <1>3. CASE UNCHANGED pushVars
    BY <1>2, <1>3 DEF pushVars
  <1>4. CASE \E e \in Events : enqueuePushes(e)
    BY <1>2, <1>4 DEF enqueuePushes, NoPush
  <1>5. CASE \E q \in Rows : FallsDue(q)
    BY <1>1, <1>2, <1>5 DEF FallsDue, PushRow, PushInv, PushTypeOK
  <1>6. ASSUME NEW w \in Workers, NEW wanted \in SUBSET Events, ReadDue(w, wanted) PROVE Rung(r)'
    BY <1>6, RungRead
  <1>7. ASSUME NEW w \in Workers, Send(w) \/ Dies(w) PROVE Rung(r)'
    BY <1>7, RungSend, RungWrite DEF Send
  <1>8. ASSUME NEW w \in Workers, Receive(w) PROVE Rung(r)'
    BY <1>8, RungRead, RungFetch, RungWrite DEF Receive
  <1>9. Crons \subseteq Workers /\ Consumers \subseteq Workers
        /\ Events \in SUBSET Events /\ \A e \in Events : {e} \in SUBSET Events
    BY DEF Workers
  <1> QED
    BY <1>3, <1>4, <1>5, <1>6, <1>7, <1>8, <1>9 DEF PushNext

(***************************************************************************)
(* Nothing is recorded as sent, or as delivered, that did not ring, with   *)
(* any overlap, lost answer or death.                                      *)
(***************************************************************************)
THEOREM WhatIsSentHasRung == PushSpec => []SentHasRung
  <1>1. PushInit => RungInv
    <2> SUFFICES ASSUME PushInit, NEW r \in Rows PROVE Rung(r)
      BY PushInvInit DEF RungInv
    <2>1. push[r].status = "none" /\ \A w \in Workers : worker[w].batch[r] = "not"
      BY IdleType DEF PushInit, NoPush
    <2> QED
      BY <2>1 DEF Rung, Carries, Asks
  <1>2. RungInv => SentHasRung
    BY DEF RungInv, Rung, SentHasRung
  <1> QED
    BY <1>1, <1>2, RungNext, PTL DEF PushSpec

=============================================================================

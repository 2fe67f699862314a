-------------------------------- MODULE Pushes --------------------------------
(***************************************************************************)
(* The pushes of push.ts: rows waiting to be handed to Expo, the tickets   *)
(* it answers with, and the receipts that say what became of them.         *)
(*                                                                         *)
(* Two kinds of Worker send: the queue's consumer, the rows of the event   *)
(* it just enqueued (in waitUntil, after its acknowledgement), and the     *)
(* cron, every due row.  Neither claims what it reads, and every row is    *)
(* then written by its id alone.  A request to Expo may ring the phones    *)
(* and its answer be lost.                                                 *)
(*                                                                         *)
(* Backlogs stay below BATCH_SIZE here: the LIMIT, which has no order, is  *)
(* left out, and so are attempts, texts and the rows a deleted account     *)
(* takes along.                                                            *)
(***************************************************************************)
EXTENDS Naturals, FiniteSets

CONSTANTS Events, Devices,
          Crons,       \* runs of the scheduled handler in flight
          Consumers    \* callbacks of the queue in flight

ASSUME PushesAssumption == Devices # {}

VARIABLES push,        \* push_delivery, by event and device
          tokens,      \* device_push_token
          rang,        \* how often a phone rang for an event: 2 is twice or more
          worker,      \* the Workers in flight
          excuse       \* history: rows two sends held at once, or lost the answer of

pushVars == <<push, tokens, rang, worker, excuse>>

-----------------------------------------------------------------------------
Workers == Crons \cup Consumers
Rows == Events \X Devices
\* What Expo answers of a message: a ticket, that the device is gone, an error.
Answers == {"ok", "unregistered", "error"}

\* due is nextAttemptAt against the clock; receipt is what Expo answers of the
\* row's ticket, from the first time it is asked.
PushRow == [status : {"none", "PENDING", "TICKETED", "DELIVERED", "FAILED"},
            due : BOOLEAN, receipt : Answers \cup {"unknown"}]
NoPush == [status |-> "none", due |-> FALSE, receipt |-> "unknown"]

\* The batch of a Worker: the rows it read, then what Expo answered of them.
WorkerRow == [pc : {"idle", "post", "tickets", "backoff", "fetch", "receipts", "forget"},
              batch : [Rows -> Answers \cup {"not", "read"}],
              then : {"tickets", "receipts"},
              device : Devices]
Idle == [pc |-> "idle", batch |-> [r \in Rows |-> "not"], then |-> "tickets",
         device |-> CHOOSE d \in Devices : TRUE]

PushInit == /\ push = [r \in Rows |-> NoPush]
            /\ tokens = Devices
            /\ rang = [r \in Rows |-> 0]
            /\ worker = [w \in Workers |-> Idle]
            /\ excuse = {}

At(w, pc) == worker[w].pc = pc
Ring(rows) == rang' = [r \in Rows |-> IF r \in rows /\ rang[r] < 2 THEN rang[r] + 1 ELSE rang[r]]
Held(w) == {r \in Rows : worker[w].batch[r] # "not"}
Batch(rows, answer) == [r \in Rows |-> IF r \in rows THEN answer[r] ELSE "not"]
Read(rows) == Batch(rows, [r \in Rows |-> "read"])

\* What is left once a row is written, and the end of the batch.
Without(w, r) == IF Held(w) = {r} THEN Idle
                 ELSE [worker[w] EXCEPT !.batch[r] = "not"]

-----------------------------------------------------------------------------
(* Sending.                                                                *)

\* ON CONFLICT DO NOTHING: a row of the pair is left as it is.
enqueuePushes(e) ==
  /\ \E d \in tokens : push[<<e, d>>] = NoPush
  /\ push' = [r \in Rows |->
                IF r[1] = e /\ r[2] \in tokens /\ push[r].status = "none"
                THEN [NoPush EXCEPT !.status = "PENDING", !.due = TRUE]
                ELSE push[r]]
  /\ UNCHANGED <<tokens, rang, worker, excuse>>

\* Mutant: forgets the status; nextAttemptAt is null once the row has its ticket.
isDueByTime(r) == push[r].due \/ push[r].status \in {"TICKETED", "DELIVERED", "FAILED"}

\* Mutant: asks for the attempts still to come.
isDueLater(r) == push[r].status = "PENDING" /\ ~push[r].due

isDue(r) == push[r].status = "PENDING" /\ push[r].due

ReadDue(w, wanted) ==
  LET due == {r \in Rows : r[1] \in wanted /\ isDue(r)}
  IN  /\ At(w, "idle")
      /\ due # {}
      /\ worker' = [worker EXCEPT ![w] = [Idle EXCEPT !.pc = "post", !.batch = Read(due)]]
      /\ excuse' = excuse \cup {r \in due : \E v \in Workers \ {w} :
                                  r \in Held(v) /\ worker[v].then = "tickets"}
      /\ UNCHANGED <<push, tokens, rang>>

\* Expo takes the messages it answers "ok" of; each gets a receipt later.
Post(w) ==
  /\ At(w, "post")
  /\ \E ticket \in [Held(w) -> Answers] :
       /\ worker' = [worker EXCEPT ![w].pc = "tickets", ![w].batch = Batch(Held(w), ticket)]
       /\ Ring({r \in Held(w) : ticket[r] = "ok"})
  /\ UNCHANGED <<push, tokens, excuse>>

\* No answer, or an HTTP error; some phones may have rung.
PostFails(w) ==
  /\ At(w, "post")
  /\ \E heard \in SUBSET Held(w) : /\ Ring(heard)
                                   /\ excuse' = excuse \cup heard
  /\ worker' = [worker EXCEPT ![w].pc = "backoff"]
  /\ UNCHANGED <<push, tokens>>

\* The updates of the batch go out at once.
BackOff(w) ==
  /\ At(w, "backoff")
  /\ push' = [r \in Rows |-> IF r \in Held(w) THEN [push[r] EXCEPT !.due = FALSE]
                             ELSE push[r]]
  /\ worker' = [worker EXCEPT ![w] = Idle]
  /\ UNCHANGED <<tokens, rang, excuse>>

\* The row by its ticket, whatever became of the row meanwhile.
Ticketed(r, ticket) ==
  CASE ticket = "ok" -> [status |-> "TICKETED", due |-> FALSE, receipt |-> "unknown"]
    [] ticket = "unregistered" -> [push[r] EXCEPT !.status = "FAILED", !.due = FALSE]
    [] ticket = "error" -> [push[r] EXCEPT !.status = "PENDING", !.due = FALSE]

\* A device that is not registered any more loses its token in the next statement.
Forget(w, r) == [worker[w] EXCEPT !.pc = "forget", !.batch[r] = "not", !.device = r[2]]

WriteTicket(w, r) ==
  /\ At(w, "tickets") /\ r \in Held(w)
  /\ push' = [push EXCEPT ![r] = Ticketed(r, worker[w].batch[r])]
  /\ worker' = [worker EXCEPT ![w] = IF worker[w].batch[r] = "unregistered"
                                     THEN Forget(w, r) ELSE Without(w, r)]
  /\ UNCHANGED <<tokens, rang, excuse>>

DeleteToken(w) ==
  /\ At(w, "forget")
  /\ tokens' = tokens \ {worker[w].device}
  /\ worker' = [worker EXCEPT ![w] = IF Held(w) = {} THEN Idle
                                     ELSE [@ EXCEPT !.pc = worker[w].then, !.device = Idle.device]]
  /\ UNCHANGED <<push, rang, excuse>>

\* nextAttemptAt passes.
FallsDue(r) == /\ push[r].status = "PENDING" /\ ~push[r].due
               /\ push' = [push EXCEPT ![r].due = TRUE]
               /\ UNCHANGED <<tokens, rang, worker, excuse>>

-----------------------------------------------------------------------------
(* Receipts.                                                               *)

ReadTicketed(w) ==
  LET rows == {r \in Rows : push[r].status = "TICKETED"}
  IN  /\ At(w, "idle")
      /\ rows # {}
      /\ worker' = [worker EXCEPT ![w] =
           [Idle EXCEPT !.pc = "fetch", !.batch = Read(rows), !.then = "receipts"]]
      /\ UNCHANGED <<push, tokens, rang, excuse>>

\* Expo answers of the receipts it has by now; the other rows are passed over.
FetchReceipts(w) ==
  /\ At(w, "fetch")
  /\ \E ready \in SUBSET Held(w) \ {{}} :
       \E receipt \in [ready -> Answers] :
         /\ \A r \in ready : push[r].receipt \in {"unknown", receipt[r]}
         /\ push' = [r \in Rows |-> IF r \in ready
                                   THEN [push[r] EXCEPT !.receipt = receipt[r]]
                                   ELSE push[r]]
         /\ worker' = [worker EXCEPT ![w].pc = "receipts", ![w].batch = Batch(ready, receipt)]
  /\ UNCHANGED <<tokens, rang, excuse>>

WriteReceipt(w, r) ==
  LET receipt == worker[w].batch[r]
  IN  /\ At(w, "receipts") /\ r \in Held(w)
      /\ push' = [push EXCEPT ![r].status = IF receipt = "ok" THEN "DELIVERED" ELSE "FAILED"]
      /\ worker' = [worker EXCEPT ![w] = IF receipt = "unregistered"
                                         THEN Forget(w, r) ELSE Without(w, r)]
      /\ UNCHANGED <<tokens, rang, excuse>>

\* The Worker goes away; of what Expo took, the rows do not know.
Dies(w) ==
  /\ ~At(w, "idle")
  /\ worker' = [worker EXCEPT ![w] = Idle]
  /\ excuse' = excuse \cup {r \in Held(w) : At(w, "tickets") \/ At(w, "forget")}
  /\ UNCHANGED <<push, tokens, rang>>

-----------------------------------------------------------------------------
Send(w) == \/ Post(w)
           \/ PostFails(w)
           \/ BackOff(w)
           \/ \E r \in Rows : WriteTicket(w, r)
           \/ DeleteToken(w)

Receive(w) == \/ ReadTicketed(w)
              \/ FetchReceipts(w)
              \/ \E r \in Rows : WriteReceipt(w, r)

PushNext == \/ \E e \in Events : enqueuePushes(e)
            \/ \E w \in Crons : ReadDue(w, Events) \/ Receive(w)
            \/ \E w \in Consumers, e \in Events : ReadDue(w, {e})
            \/ \E w \in Workers : Send(w) \/ Dies(w)
            \/ \E r \in Rows : FallsDue(r)

PushSpec == PushInit /\ [][PushNext]_pushVars

\* The cron comes every minute, backoffs end, Expo takes a message in the end, and
\* not every Worker that holds its ticket goes away before the row is written.
Taken(w, r) == Post(w) /\ worker'[w].batch[r] \in {"ok", "unregistered"}
Recorded(w, r) == WriteTicket(w, r) /\ worker[w].batch[r] # "error"

FairPushes ==
  /\ PushSpec
  /\ \A r \in Rows : WF_pushVars(FallsDue(r))
  /\ \A w \in Crons : /\ SF_pushVars(ReadDue(w, Events))
                       /\ WF_pushVars(Receive(w))
  /\ \A w \in Workers : WF_pushVars(Send(w))
  /\ \A r \in Rows : /\ SF_pushVars(\E w \in Workers : Taken(w, r))
                      /\ SF_pushVars(\E w \in Workers : Recorded(w, r))

-----------------------------------------------------------------------------
\* Every row, phone and Worker holds a value of its type.
PushTypeOK == /\ push \in [Rows -> PushRow]
              /\ tokens \subseteq Devices
              /\ rang \in [Rows -> 0..2]
              /\ worker \in [Workers -> WorkerRow]
              /\ excuse \subseteq Rows

\* A phone rings twice for an event only if two sends held the row at once, or if
\* the answer of Expo was lost: retries, backoffs and receipts never ring it again.
RingsOnce == \A r \in Rows : rang[r] > 1 => r \in excuse

\* With the same excuses, what became of a push is written once.
FinalStands ==
  [][\A r \in Rows \ excuse : push[r].status \in {"DELIVERED", "FAILED"}
                              => push'[r].status = push[r].status]_pushVars

\* No push is recorded as sent, or as delivered, whose phone did not ring, whatever
\* overlapped, was answered late or died.
SentHasRung == \A r \in Rows : push[r].status \in {"TICKETED", "DELIVERED"} => rang[r] > 0

\* Every push that waits is handed over, or given up, in the end.
PushIsSent == \A r \in Rows : push[r].status = "PENDING" ~> push[r].status # "PENDING"

=============================================================================

--------------------------- MODULE Notifications ---------------------------
(***************************************************************************)
(* How an order event reaches people: the outbox row, its publication on   *)
(* the queue, the queue's redeliveries, and the consumer that writes one   *)
(* notification per person and the push rows.                              *)
(*                                                                         *)
(* Publishers are the requests that announce the event they committed and  *)
(* the invocations of the minute's sweep; consumers are the invocations of *)
(* handleQueue, each on one message.  Either may die between any two of    *)
(* its statements.  The queue, which is not in the repository, is          *)
(* at-least-once and keeps no order: a message stays until it is           *)
(* acknowledged, may be handed to two consumers, and after max_retries     *)
(* failures goes to the dead-letter queue.                                 *)
(***************************************************************************)
EXTENDS Naturals

CONSTANTS Events,      \* event ids
          moved,       \* ... ORDER_STATUS_CHANGED or ORDER_CANCELLED, not ORDER_PLACED
          byCustomer,  \* ... whose actor is the order's customer
          Users, Customer,
          Devices,     \* users with a device_push_token row
          Founders,    \* the business's owners to begin with
          Publishers, Consumers,
          Copies,      \* bound: copies of one event's message on the queue
          MaxRetries,  \* max_retries of the queue
          Nothing      \* null: a publisher's or consumer's event

ASSUME NotificationsAssumption ==
  /\ moved \subseteq Events /\ byCustomer \subseteq moved
  /\ Customer \in Users /\ Devices \subseteq Users
  /\ Founders \subseteq Users /\ Founders # {}
  /\ MaxRetries \in Nat /\ Copies # {}
  /\ Nothing \notin Events

VARIABLES outbox,     \* outbox_event: is there a row, and is publishedAt set
          publisher,  \* calls of publishEvents: the envelopes left, the one sent last
          queue,      \* the messages not yet acknowledged
          dead,       \* events in the dead-letter queue
          consumer,   \* calls of handleQueue
          inbox,      \* the notification table
          pushes,     \* push_delivery rows, as event and user
          unheard,    \* events logged as "order event has no recipients"
          owners,     \* the business's ACTIVE memberships
          leaving,    \* removals that passed assertNotLastOwner
          wants       \* the customer's notifyOrderUpdates

people == <<owners, leaving, wants>>
told == <<inbox, pushes, unheard>>
notifyVars == <<outbox, publisher, queue, dead, consumer, told, people>>

Message == [event : Events, copy : Copies, tries : 0..MaxRetries]
\* done is the event sent and not yet marked.
PublisherRow == [todo : SUBSET Events, done : Events \cup {Nothing}]
\* pc names the statement the consumer runs next; to is whom it tells.
ConsumerRow == [pc : {"idle", "recipients", "members", "customer", "write", "pushes", "ack"},
                event : Events \cup {Nothing}, copy : Copies, to : SUBSET Users]

\* A row says whether the person had one of the event, for a set to hold both.
NoticeRow == [key : Events \X Users, event : Events, user : Users, again : BOOLEAN]

Resting == [todo |-> {}, done |-> Nothing]
Waiting == [pc |-> "idle", event |-> Nothing, copy |-> CHOOSE k \in Copies : TRUE, to |-> {}]

NotifyInit ==
  /\ outbox = [e \in Events |-> "absent"]
  /\ publisher = [p \in Publishers |-> Resting]
  /\ queue = {} /\ dead = {}
  /\ consumer = [c \in Consumers |-> Waiting]
  /\ inbox = {} /\ pushes = {} /\ unheard = {}
  /\ owners = Founders /\ leaving = {}
  /\ wants \in BOOLEAN

-----------------------------------------------------------------------------
(***************************************************************************)
(* Publication.                                                            *)
(***************************************************************************)

\* The batch of place or applyMove commits the row; the request announces it.
Commit(p, e) ==
  /\ publisher[p] = Resting
  /\ outbox[e] = "absent"
  /\ outbox' = [outbox EXCEPT ![e] = "unpublished"]
  /\ publisher' = [publisher EXCEPT ![p].todo = {e}]
  /\ UNCHANGED <<queue, dead, consumer, told, people>>

\* publishPending: the rows whose publishedAt is null.
ReadPending(p) ==
  /\ publisher[p] = Resting
  /\ publisher' = [publisher EXCEPT ![p].todo = {e \in Events : outbox[e] = "unpublished"}]
  /\ publisher' # publisher
  /\ UNCHANGED <<outbox, queue, dead, consumer, told, people>>

Enqueue(e) ==
  \E k \in Copies :
    /\ \A m \in queue : m.event = e => m.copy # k
    /\ queue' = queue \cup {[event |-> e, copy |-> k, tries |-> 0]}

\* ORDER_EVENTS.send returned.
Send(p, e) ==
  /\ publisher[p].done = Nothing
  /\ e \in publisher[p].todo
  /\ Enqueue(e)
  /\ publisher' = [publisher EXCEPT ![p] = [todo |-> @.todo \ {e}, done |-> e]]
  /\ UNCHANGED <<outbox, dead, consumer, told, people>>

\* Mutant: the row is marked whether or not the send succeeded.
SendFailsMarked(p, e) ==
  /\ publisher[p].done = Nothing
  /\ e \in publisher[p].todo
  /\ publisher' = [publisher EXCEPT ![p] = [todo |-> @.todo \ {e}, done |-> e]]
  /\ UNCHANGED <<outbox, queue, dead, consumer, told, people>>

\* It threw, whether or not the queue kept the message: the next envelope.
SendFails(p, e) ==
  /\ publisher[p].done = Nothing
  /\ e \in publisher[p].todo
  /\ UNCHANGED queue \/ Enqueue(e)
  /\ publisher' = [publisher EXCEPT ![p].todo = @ \ {e}]
  /\ UNCHANGED <<outbox, dead, consumer, told, people>>

\* publishedAt, where it is still null.
Mark(p) ==
  /\ publisher[p].done # Nothing
  /\ outbox' = [outbox EXCEPT ![publisher[p].done] = "published"]
  /\ publisher' = [publisher EXCEPT ![p].done = Nothing]
  /\ UNCHANGED <<queue, dead, consumer, told, people>>

\* The update threw: publishEvents goes on with the next envelope.
MarkFails(p) ==
  /\ publisher[p].done # Nothing
  /\ publisher' = [publisher EXCEPT ![p].done = Nothing]
  /\ UNCHANGED <<outbox, queue, dead, consumer, told, people>>

\* The isolate is evicted.
PublisherDies(p) ==
  /\ publisher[p] # Resting
  /\ publisher' = [publisher EXCEPT ![p] = Resting]
  /\ UNCHANGED <<outbox, queue, dead, consumer, told, people>>

-----------------------------------------------------------------------------
(***************************************************************************)
(* Consumption: the statements of handleQueue for one message.             *)
(***************************************************************************)
At(c, pc) == consumer[c].pc = pc
Goto(c, pc, to) == consumer' = [consumer EXCEPT ![c] = [@ EXCEPT !.pc = pc, !.to = to]]
\* Dropping the message its consumer holds, and the consumer done with it.
Held(c) == {m \in queue : m.event = consumer[c].event /\ m.copy = consumer[c].copy}
Done(c) == consumer' = [consumer EXCEPT ![c] = Waiting]

\* External: the queue delivers a message, whether or not another holds it.
Deliver(c, m) ==
  /\ At(c, "idle")
  /\ consumer' = [consumer EXCEPT ![c] =
                    [pc |-> "recipients", event |-> m.event, copy |-> m.copy, to |-> {}]]
  /\ UNCHANGED <<outbox, publisher, queue, dead, told, people>>

\* recipientsFor: the ACTIVE members, if any.
ReadRecipients(c) ==
  /\ At(c, "recipients") /\ owners # {}
  /\ Goto(c, "members", owners)
  /\ UNCHANGED <<outbox, publisher, queue, dead, told, people>>

\* None: logged and acknowledged.
NoRecipients(c) ==
  /\ At(c, "recipients") /\ owners = {}
  /\ unheard' = unheard \cup {consumer[c].event}
  /\ queue' = queue \ Held(c)
  /\ Done(c)
  /\ UNCHANGED <<outbox, publisher, dead, inbox, pushes, people>>

\* Mutant: the key names the event alone, whoever it is for.
dedupeKeyEvent(e, u) == <<e, Customer>>

\* "event:<eventId>:<userId>".
dedupeKeyFor(e, u) == <<e, u>>

Notice(e, u) == [key |-> dedupeKeyFor(e, u), event |-> e, user |-> u,
                 again |-> \E r \in inbox : r.event = e /\ r.user = u]

\* Mutant: a plain insert, without the conflict clause.
NoticesPlain(c, to) == inbox' = inbox \cup {Notice(consumer[c].event, u) : u \in to}

\* insert ... onConflictDoNothing on the dedupe key.
Notices(c, to) ==
  LET e == consumer[c].event
      fresh == {u \in to : \A r \in inbox : r.key # dedupeKeyFor(e, u)}
  IN inbox' = inbox \cup {Notice(e, u) : u \in fresh}

NotifyMembers(c) ==
  /\ At(c, "members")
  /\ Notices(c, consumer[c].to)
  /\ Goto(c, IF consumer[c].event \in moved THEN "customer" ELSE "pushes", consumer[c].to)
  /\ UNCHANGED <<outbox, publisher, queue, dead, pushes, unheard, people>>

\* Mutant: whoever is no recipient of the notice is pushed all the same.
ReadCustomerPushed(c) ==
  /\ At(c, "customer")
  /\ consumer' = [consumer EXCEPT ![c] =
       IF @.event \in byCustomer \/ ~wants THEN [@ EXCEPT !.pc = "pushes", !.to = @ \cup {Customer}]
       ELSE [@ EXCEPT !.pc = "write"]]
  /\ UNCHANGED <<outbox, publisher, queue, dead, told, people>>

\* notifyCustomer reads: their own move, or the switch off, tells them nothing.
ReadCustomer(c) ==
  /\ At(c, "customer")
  /\ Goto(c, IF consumer[c].event \in byCustomer \/ ~wants THEN "pushes" ELSE "write", consumer[c].to)
  /\ UNCHANGED <<outbox, publisher, queue, dead, told, people>>

NotifyCustomer(c) ==
  /\ At(c, "write")
  /\ Notices(c, {Customer})
  /\ Goto(c, "pushes", consumer[c].to \cup {Customer})
  /\ UNCHANGED <<outbox, publisher, queue, dead, pushes, unheard, people>>

\* enqueuePushes, to those who have a device.
EnqueuePushes(c) ==
  /\ At(c, "pushes")
  /\ pushes' = pushes \cup ({consumer[c].event} \X (consumer[c].to \cap Devices))
  /\ Goto(c, "ack", consumer[c].to)
  /\ UNCHANGED <<outbox, publisher, queue, dead, inbox, unheard, people>>

Ack(c) ==
  /\ At(c, "ack")
  /\ queue' = queue \ Held(c)
  /\ Done(c)
  /\ UNCHANGED <<outbox, publisher, dead, told, people>>

\* Mutant: an error is acknowledged, so that a retry storm delays nobody.
FailsAcked(c) ==
  /\ consumer[c] # Waiting
  /\ queue' = queue \ Held(c)
  /\ Done(c)
  /\ UNCHANGED <<outbox, publisher, dead, told, people>>

(***************************************************************************)
(* A statement throws, or the invocation dies: retry, and after max_retries*)
(* the dead-letter queue.                                                  *)
(***************************************************************************)
Fails(c) ==
  LET again == {[m EXCEPT !.tries = @ + 1] : m \in {n \in Held(c) : n.tries < MaxRetries}}
  IN /\ consumer[c] # Waiting
     /\ queue' = (queue \ Held(c)) \cup again
     /\ dead' = dead \cup {m.event : m \in {n \in Held(c) : n.tries = MaxRetries}}
     /\ Done(c)
     /\ UNCHANGED <<outbox, publisher, told, people>>

-----------------------------------------------------------------------------
(***************************************************************************)
(* People.  Everyone here who is a member is an OWNER.                     *)
(***************************************************************************)

\* An invitation is accepted.
Join(u) ==
  /\ u \notin owners
  /\ owners' = owners \cup {u}
  /\ UNCHANGED <<outbox, publisher, queue, dead, consumer, told, leaving, wants>>

\* removeStaff, revoke and leave: first assertNotLastOwner ...
AskToLeave(u) ==
  /\ u \in owners \ leaving
  /\ owners \ {u} # {}
  /\ leaving' = leaving \cup {u}
  /\ UNCHANGED <<outbox, publisher, queue, dead, consumer, told, owners, wants>>

\* ... then the write, in a statement of its own.
Leave(u) ==
  /\ u \in leaving
  /\ leaving' = leaving \ {u}
  /\ owners' = owners \ {u}
  /\ UNCHANGED <<outbox, publisher, queue, dead, consumer, told, wants>>

\* users.updatePreferences.
Switch ==
  /\ wants' = ~wants
  /\ UNCHANGED <<outbox, publisher, queue, dead, consumer, told, owners, leaving>>

Publish(p) == \/ \E e \in Events : Commit(p, e) \/ Send(p, e) \/ SendFails(p, e)
              \/ ReadPending(p) \/ Mark(p) \/ MarkFails(p) \/ PublisherDies(p)

Consume(c) == \/ ReadRecipients(c) \/ NoRecipients(c) \/ NotifyMembers(c)
              \/ ReadCustomer(c) \/ NotifyCustomer(c) \/ EnqueuePushes(c) \/ Ack(c)

NotifyNext ==
  \/ \E p \in Publishers : Publish(p)
  \/ \E c \in Consumers : Consume(c) \/ Fails(c) \/ \E m \in queue : Deliver(c, m)
  \/ \E u \in Users : Join(u) \/ AskToLeave(u) \/ Leave(u)
  \/ Switch

NotifySpec == NotifyInit /\ [][NotifyNext]_notifyVars

(***************************************************************************)
(* The minute's sweep comes again, an event on the row is not refused by   *)
(* the queue for ever, and the queue delivers what it holds to a consumer  *)
(* that runs.  Nothing asks that a mark, or a consumer, ever succeeds.     *)
(***************************************************************************)
NotifyFairSpec ==
  /\ NotifySpec
  /\ SF_notifyVars(\E p \in Publishers : ReadPending(p))
  /\ \A e \in Events : SF_notifyVars(\E p \in Publishers : Send(p, e))
  /\ \A p \in Publishers : WF_notifyVars(Mark(p) \/ MarkFails(p) \/ PublisherDies(p))
  /\ \A c \in Consumers : WF_notifyVars(Consume(c) \/ Fails(c))
  /\ \A e \in Events :
       SF_notifyVars(\E c \in Consumers : \E m \in queue : m.event = e /\ Deliver(c, m))

-----------------------------------------------------------------------------
(***************************************************************************)
(* Properties.                                                             *)
(***************************************************************************)

\* Every table, message and call holds values of its type.
NotifyTypeOK ==
  /\ outbox \in [Events -> {"absent", "unpublished", "published"}]
  /\ publisher \in [Publishers -> PublisherRow]
  /\ queue \subseteq Message
  /\ dead \subseteq Events
  /\ consumer \in [Consumers -> ConsumerRow]
  /\ inbox \subseteq NoticeRow
  /\ pushes \subseteq Events \X Users
  /\ unheard \subseteq Events
  /\ owners \subseteq Users /\ leaving \subseteq Users
  /\ wants \in BOOLEAN
  /\ \A c \in Consumers : ~At(c, "idle") => consumer[c].event \in Events

Told(e, u) == \E r \in inbox : r.event = e /\ r.user = u

\* Somebody was told of the event, or its loss is where an operator looks.
Handled(e) == e \in dead \/ e \in unheard \/ \E r \in inbox : r.event = e

(***************************************************************************)
(* "At-least-once plus an idempotent effect" (schema.ts:1658): however     *)
(* often an event is sent, delivered and retried, and with how many        *)
(* consumers at once, a person has one notification of it.                 *)
(***************************************************************************)
OneNoticeEach ==
  \A r, s \in inbox : r.event = s.event /\ r.user = s.user => r = s

(***************************************************************************)
(* A row whose publishedAt is set is never an event lost with a receipt    *)
(* saying otherwise (outbox.ts:34): its message is still on the queue, or  *)
(* it was handled, through every crash of a publisher and a consumer.      *)
(***************************************************************************)
OnQueue(e) == \E m \in queue : m.event = e
PublishedIsNotLost ==
  \A e \in Events : outbox[e] = "published" => OnQueue(e) \/ Handled(e)

(***************************************************************************)
(* A message is acknowledged when each of its recipients has a             *)
(* notification of this event: the dedupe key neither folds the fan-out    *)
(* into one recipient nor two events of an order into one (queue.ts:300,   *)
(* schema.ts:1875-1885), also when an earlier delivery died half-way.      *)
(***************************************************************************)
FanOutComplete ==
  \A c \in Consumers : At(c, "ack") => \A u \in consumer[c].to : Told(consumer[c].event, u)

(***************************************************************************)
(* Whoever dies, retries or overlaps, the consumers implement              *)
(* NoticePromise: nobody hears of what was not committed, which is why the *)
(* event is a row of the batch (outbox.ts:18), and a phone rings only for  *)
(* what is in its owner's inbox.                                           *)
(***************************************************************************)
Committed == {e \in Events : outbox[e] # "absent"}
ToldOf == {<<r.event, r.user>> : r \in inbox}

Promise == INSTANCE NoticePromise WITH committed <- Committed, told <- ToldOf, pushed <- pushes

NoticesKeepPromise == Promise!NoticeSpec

(***************************************************************************)
(* An event once committed is handled in the end: somebody is told, or it  *)
(* is dead-lettered or logged as having nobody to tell.                    *)
(***************************************************************************)
EventIsHandled ==
  \A e \in Events : (outbox[e] # "absent") ~> Handled(e)

(***************************************************************************)
(* Removing two owners at once leaves "a state an admin can repair rather  *)
(* than one a customer sees" (businesses.ts:1491): an event is not dropped *)
(* untold when its customer should hear of it.  The consumer acknowledges  *)
(* on an empty list of members before it looks at the customer, so two     *)
(* removals at once do break it; LeaversTakeTurns says that there are      *)
(* none, and then nobody else's step does.                                 *)
(***************************************************************************)
CustomerHears ==
  [][\A e \in moved \ byCustomer :
       e \in unheard' \ unheard /\ wants => Told(e, Customer)]_notifyVars

LeaversTakeTurns == \A u, v \in leaving : u = v

=============================================================================

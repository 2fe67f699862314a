------------------------ MODULE NotificationsProofs ------------------------
(***************************************************************************)
(* That a published event is not lost, that everybody a consumer means to  *)
(* tell has a notification before it acknowledges, and that nobody has two *)
(* of one event; that owners who leave in turns leave somebody to be told; *)
(* and that all of it keeps to NoticePromise: for any number of events,    *)
(* people, publishers, consumers and copies of a message.                  *)
(***************************************************************************)
EXTENDS Notifications, TLAPS

-----------------------------------------------------------------------------
(***************************************************************************)
(* The inductive invariant.                                                *)
(***************************************************************************)

\* A message sent and not yet marked is no more lost than a marked one.
SentIsNotLost ==
  \A p \in Publishers :
    publisher[p].done # Nothing => OnQueue(publisher[p].done) \/ Handled(publisher[p].done)

\* A consumer past its first insert has somebody to tell, and told them.
ConsumersTell ==
  \A c \in Consumers :
    /\ consumer[c].pc = "members" => consumer[c].to # {}
    /\ consumer[c].pc \in {"customer", "write", "pushes", "ack"} =>
         /\ consumer[c].to # {}
         /\ \A u \in consumer[c].to : Told(consumer[c].event, u)

\* The key of a row is its event and user, and the unique index is on the key.
KeysAreUnique ==
  /\ \A r \in inbox : r.key = <<r.event, r.user>>
  /\ \A r, s \in inbox : r.key = s.key => r = s

NotLost == PublishedIsNotLost /\ SentIsNotLost /\ ConsumersTell

-----------------------------------------------------------------------------
(***************************************************************************)
(* Types.                                                                  *)
(***************************************************************************)

\* An idle consumer is a consumer.
LEMMA WaitingType == Waiting \in ConsumerRow /\ Waiting.pc = "idle"
  BY NotificationsAssumption DEF Waiting, ConsumerRow

\* The rows an insert adds are rows of the table (queue.ts:284-305).
LEMMA NoticesType ==
  ASSUME NotifyTypeOK, NEW c \in Consumers, NEW to \in SUBSET Users,
         consumer[c].event \in Events, Notices(c, to)
  PROVE  inbox' \subseteq NoticeRow
<1>1. ASSUME NEW u \in Users
      PROVE  Notice(consumer[c].event, u) \in NoticeRow
  BY Zenon DEF Notice, NoticeRow, dedupeKeyFor
<1>. QED
  BY <1>1 DEF NotifyTypeOK, Notices

\* A step of a publisher keeps every table, message and call of its type.
LEMMA PublishType ==
  ASSUME NotifyTypeOK, NEW p \in Publishers, Publish(p)
  PROVE  NotifyTypeOK'
<1>1. publisher[p] \in PublisherRow
  BY DEF NotifyTypeOK
<1>2. ASSUME NEW e \in Events, Commit(p, e)  PROVE NotifyTypeOK'
  BY <1>1, <1>2 DEF NotifyTypeOK, Commit, PublisherRow, told, people, At
<1>3. ASSUME NEW e \in Events, Enqueue(e)  PROVE queue' \subseteq Message
  BY <1>3, NotificationsAssumption DEF NotifyTypeOK, Enqueue, Message
<1>4. ASSUME NEW e \in Events, Send(p, e)  PROVE NotifyTypeOK'
  <2>1. queue' \subseteq Message
    BY <1>3, <1>4 DEF Send
  <2>. QED
    BY <1>1, <1>4, <2>1 DEF NotifyTypeOK, Send, PublisherRow, told, people, At
<1>5. ASSUME NEW e \in Events, SendFails(p, e)  PROVE NotifyTypeOK'
  <2>1. queue' \subseteq Message
    BY <1>3, <1>5 DEF SendFails, NotifyTypeOK
  <2>. QED
    BY <1>1, <1>5, <2>1 DEF NotifyTypeOK, SendFails, PublisherRow, told, people, At
<1>6. ASSUME ReadPending(p)  PROVE NotifyTypeOK'
  BY <1>1, <1>6 DEF NotifyTypeOK, ReadPending, PublisherRow, told, people, At
<1>7. ASSUME Mark(p)  PROVE NotifyTypeOK'
  BY <1>1, <1>7 DEF NotifyTypeOK, Mark, PublisherRow, told, people, At
<1>8. ASSUME MarkFails(p)  PROVE NotifyTypeOK'
  BY <1>1, <1>8 DEF NotifyTypeOK, MarkFails, PublisherRow, told, people, At
<1>9. ASSUME PublisherDies(p)  PROVE NotifyTypeOK'
  BY <1>9 DEF NotifyTypeOK, PublisherDies, PublisherRow, Resting, told, people, At
<1>. QED
  BY <1>2, <1>4, <1>5, <1>6, <1>7, <1>8, <1>9 DEF Publish

\* A step of a consumer keeps every table, message and call of its type.
LEMMA ConsumeType ==
  ASSUME NotifyTypeOK, NEW c \in Consumers,
         Consume(c) \/ Fails(c) \/ \E m \in queue : Deliver(c, m)
  PROVE  NotifyTypeOK'
<1>1. consumer[c] \in ConsumerRow
  BY DEF NotifyTypeOK
<1>2. ASSUME NEW m \in queue, Deliver(c, m)  PROVE NotifyTypeOK'
  BY <1>2 DEF NotifyTypeOK, Deliver, ConsumerRow, Message, told, people, At
<1>3. ASSUME ReadRecipients(c)  PROVE NotifyTypeOK'
  BY <1>1, <1>3 DEF NotifyTypeOK, ReadRecipients, Goto, ConsumerRow, told, people, At
<1>4. ASSUME NoRecipients(c)  PROVE NotifyTypeOK'
  BY <1>1, <1>4, WaitingType DEF NotifyTypeOK, NoRecipients, Done, Held, people, At
<1>5. ASSUME NotifyMembers(c)  PROVE NotifyTypeOK'
  <2>1. consumer[c].to \in SUBSET Users /\ consumer[c].event \in Events
    BY <1>1, <1>5 DEF NotifyTypeOK, NotifyMembers, ConsumerRow, At
  <2>2. inbox' \subseteq NoticeRow
    BY <1>5, <2>1, NoticesType DEF NotifyMembers
  <2>. QED
    BY <1>1, <1>5, <2>1, <2>2 DEF NotifyTypeOK, NotifyMembers, Goto, ConsumerRow, people, At
<1>6. ASSUME ReadCustomer(c)  PROVE NotifyTypeOK'
  BY <1>1, <1>6 DEF NotifyTypeOK, ReadCustomer, Goto, ConsumerRow, told, people, At
<1>7. ASSUME NotifyCustomer(c)  PROVE NotifyTypeOK'
  <2>1. {Customer} \in SUBSET Users /\ consumer[c].event \in Events
    BY <1>1, <1>7, NotificationsAssumption DEF NotifyTypeOK, NotifyCustomer, At
  <2>2. inbox' \subseteq NoticeRow
    BY <1>7, <2>1, NoticesType DEF NotifyCustomer
  <2>. QED
    BY <1>1, <1>7, <2>1, <2>2 DEF NotifyTypeOK, NotifyCustomer, Goto, ConsumerRow, people, At
<1>8. ASSUME EnqueuePushes(c)  PROVE NotifyTypeOK'
  <2>1. consumer[c].event \in Events /\ consumer[c].to \subseteq Users
    BY <1>1, <1>8 DEF NotifyTypeOK, EnqueuePushes, ConsumerRow, At
  <2>2. pushes' \subseteq Events \X Users
    BY <1>8, <2>1 DEF NotifyTypeOK, EnqueuePushes
  <2>. QED
    BY <1>1, <1>8, <2>2 DEF NotifyTypeOK, EnqueuePushes, Goto, ConsumerRow, people, At
<1>9. ASSUME Ack(c)  PROVE NotifyTypeOK'
  BY <1>9, WaitingType DEF NotifyTypeOK, Ack, Done, Held, told, people, At
<1>10. ASSUME Fails(c)  PROVE NotifyTypeOK'
  <2>1. queue' \subseteq Message
    BY <1>10, NotificationsAssumption DEF NotifyTypeOK, Fails, Held, Message
  <2>2. dead' \subseteq Events
    BY <1>10 DEF NotifyTypeOK, Fails, Held, Message
  <2>. QED
    BY <1>10, <2>1, <2>2, WaitingType DEF NotifyTypeOK, Fails, Done, told, people, At
<1>. QED
  BY <1>2, <1>3, <1>4, <1>5, <1>6, <1>7, <1>8, <1>9, <1>10 DEF Consume

\* Nothing the owners and the customer do changes another table.
LEMMA PeopleChangeNothing ==
  ASSUME \/ \E u \in Users : Join(u) \/ AskToLeave(u) \/ Leave(u)
         \/ Switch
  PROVE  UNCHANGED <<outbox, publisher, queue, dead, consumer, told>>
  BY DEF Join, AskToLeave, Leave, Switch

\* Every step keeps every table, message and call of its type.
LEMMA NotifyTypeNext ==
  ASSUME NotifyTypeOK, [NotifyNext]_notifyVars
  PROVE  NotifyTypeOK'
<1>1. CASE \/ \E u \in Users : Join(u) \/ AskToLeave(u) \/ Leave(u)
           \/ Switch
  <2>1. owners' \subseteq Users /\ leaving' \subseteq Users /\ wants' \in BOOLEAN
    BY <1>1 DEF NotifyTypeOK, Join, AskToLeave, Leave, Switch
  <2>. QED
    BY <1>1, <2>1, PeopleChangeNothing DEF NotifyTypeOK, told, At
<1>2. CASE UNCHANGED notifyVars
  BY <1>2 DEF NotifyTypeOK, notifyVars, told, people, At
<1>. QED
  BY <1>1, <1>2, PublishType, ConsumeType DEF NotifyNext

(***************************************************************************)
(* Every table, message and call has values of its type.                   *)
(***************************************************************************)
THEOREM NotifyTypeCorrect == NotifySpec => []NotifyTypeOK
<1>1. NotifyInit => NotifyTypeOK
  <2>1. Resting \in PublisherRow
    BY DEF Resting, PublisherRow
  <2>. QED
    BY <2>1, NotificationsAssumption, WaitingType DEF NotifyInit, NotifyTypeOK, At
<1>. QED
  BY <1>1, NotifyTypeNext, PTL DEF NotifySpec

-----------------------------------------------------------------------------
(***************************************************************************)
(* One notification of an event for each person.                           *)
(***************************************************************************)

\* The insert of a consumer keeps the index and loses no row.
LEMMA NoticesKeepKeys ==
  ASSUME KeysAreUnique, NEW c \in Consumers, NEW to, Notices(c, to)
  PROVE  KeysAreUnique'
<1>. DEFINE e == consumer[c].event
<1>1. \A u : Notice(e, u).key = <<e, u>> /\ Notice(e, u).event = e /\ Notice(e, u).user = u
  BY DEF Notice, dedupeKeyFor
<1>2. \A r \in inbox' \ inbox :
        \E u \in to : r = Notice(e, u) /\ \A t \in inbox : t.key # <<e, u>>
  BY DEF Notices, dedupeKeyFor
<1>. HIDE DEF e
<1>. QED
  BY <1>1, <1>2 DEF KeysAreUnique

\* Only the two inserts of handleQueue write the notification table.
LEMMA KeysNext ==
  ASSUME KeysAreUnique, [NotifyNext]_notifyVars
  PROVE  KeysAreUnique'
<1>1. ASSUME NEW c \in Consumers, NotifyMembers(c) \/ NotifyCustomer(c)
      PROVE  KeysAreUnique'
  BY <1>1, NoticesKeepKeys DEF NotifyMembers, NotifyCustomer
<1>2. ASSUME NEW p \in Publishers, Publish(p)  PROVE inbox' = inbox
  BY <1>2 DEF Publish, Commit, Send, SendFails, ReadPending, Mark, MarkFails, PublisherDies, told
<1>3. ASSUME NEW c \in Consumers,
             \/ ReadRecipients(c) \/ NoRecipients(c) \/ ReadCustomer(c) \/ EnqueuePushes(c)
             \/ Ack(c) \/ Fails(c) \/ \E m \in queue : Deliver(c, m)
      PROVE  inbox' = inbox
  BY <1>3 DEF ReadRecipients, NoRecipients, ReadCustomer, EnqueuePushes, Ack, Fails, Deliver, told
<1>4. CASE inbox' = inbox
  BY <1>4 DEF KeysAreUnique
<1>. QED
  BY <1>1, <1>2, <1>3, <1>4, PeopleChangeNothing DEF NotifyNext, Consume, notifyVars, told

(***************************************************************************)
(* However often an event is sent and delivered, a person has one          *)
(* notification of it.                                                     *)
(***************************************************************************)
THEOREM OneNotice == NotifySpec => []OneNoticeEach
<1>1. NotifyInit => KeysAreUnique
  BY DEF NotifyInit, KeysAreUnique
<1>2. KeysAreUnique => OneNoticeEach
  BY DEF KeysAreUnique, OneNoticeEach
<1>. QED
  BY <1>1, <1>2, KeysNext, PTL DEF NotifySpec

-----------------------------------------------------------------------------
(***************************************************************************)
(* A published event is not lost, and an acknowledged one was told to all  *)
(* its recipients.                                                         *)
(***************************************************************************)

\* Where an event can be found, on the queue or handled.
Found(e) == OnQueue(e) \/ Handled(e)

\* No step forgets a notification, a dead letter or a logged event.
LEMMA HandledStays ==
  ASSUME [NotifyNext]_notifyVars
  PROVE  /\ inbox \subseteq inbox' /\ dead \subseteq dead' /\ unheard \subseteq unheard'
         /\ \A e \in Events : Handled(e) => Handled(e)'
         /\ \A e \in Events, u \in Users : Told(e, u) => Told(e, u)'
<1>1. inbox \subseteq inbox' /\ dead \subseteq dead' /\ unheard \subseteq unheard'
  <2>1. ASSUME NEW p \in Publishers, Publish(p)
        PROVE  inbox' = inbox /\ dead' = dead /\ unheard' = unheard
    BY <2>1 DEF Publish, Commit, Send, SendFails, ReadPending, Mark, MarkFails, PublisherDies, told
  <2>2. ASSUME NEW c \in Consumers,
               \/ ReadRecipients(c) \/ ReadCustomer(c) \/ EnqueuePushes(c) \/ Ack(c)
               \/ \E m \in queue : Deliver(c, m)
        PROVE  inbox' = inbox /\ dead' = dead /\ unheard' = unheard
    BY <2>2 DEF ReadRecipients, ReadCustomer, EnqueuePushes, Ack, Deliver, told
  <2>3. ASSUME NEW c \in Consumers, NoRecipients(c) \/ Fails(c)
        PROVE  inbox' = inbox /\ dead \subseteq dead' /\ unheard \subseteq unheard'
    BY <2>3 DEF NoRecipients, Fails, told
  <2>4. ASSUME NEW c \in Consumers, NotifyMembers(c) \/ NotifyCustomer(c)
        PROVE  inbox \subseteq inbox' /\ dead' = dead /\ unheard' = unheard
    BY <2>4 DEF NotifyMembers, NotifyCustomer, Notices
  <2>. QED
    BY <2>1, <2>2, <2>3, <2>4, PeopleChangeNothing DEF NotifyNext, Consume, notifyVars, told
<1>. QED
  BY <1>1 DEF Handled, Told

\* After an insert, everybody it was for has a notification (queue.ts:284-305).
LEMMA NoticesTell ==
  ASSUME KeysAreUnique, NEW c \in Consumers, NEW to, Notices(c, to),
         NEW e, e = consumer[c].event
  PROVE  \A u \in to : Told(e, u)'
<1>. SUFFICES ASSUME NEW u \in to  PROVE \E r \in inbox' : r.event = e /\ r.user = u
  BY DEF Told
<1>1. CASE \E r \in inbox : r.key = <<e, u>>
  BY <1>1 DEF Notices, KeysAreUnique
<1>2. CASE \A r \in inbox : r.key # <<e, u>>
  <2>. DEFINE row == Notice(e, u)
  <2>1. row \in inbox'
    BY <1>2 DEF Notices, dedupeKeyFor
  <2>2. row.event = e /\ row.user = u
    BY DEF Notice
  <2>. QED
    BY <2>1, <2>2
<1>. QED
  BY <1>1, <1>2

\* A consumer that has told somebody has handled its event.
LEMMA TellingIsHandling ==
  ASSUME ConsumersTell, NEW c \in Consumers, consumer[c].pc \in {"customer", "write", "pushes", "ack"}
  PROVE  Handled(consumer[c].event)
  BY DEF ConsumersTell, Told, Handled

\* No step loses an event: what leaves the queue was handled.
LEMMA FoundStays ==
  ASSUME NotifyTypeOK, ConsumersTell, [NotifyNext]_notifyVars, NEW e \in Events, Found(e)
  PROVE  Found(e)'
<1>1. CASE Handled(e)
  BY <1>1, HandledStays DEF Found
<1>2. CASE queue \subseteq queue'
  BY <1>1, <1>2 DEF Found, OnQueue
<1>3. ASSUME NEW c \in Consumers, Ack(c)  PROVE Found(e)'
  <2>1. CASE consumer[c].event = e
    <3>1. Handled(e)
      BY <1>3, <2>1, TellingIsHandling DEF Ack, At
    <3>. QED
      BY <1>1, <3>1
  <2>2. CASE consumer[c].event # e
    BY <1>1, <1>3, <2>2 DEF Ack, Held, Found, OnQueue
  <2>. QED
    BY <2>1, <2>2
<1>4. ASSUME NEW c \in Consumers, NoRecipients(c)  PROVE Found(e)'
  <2>1. CASE consumer[c].event = e
    BY <1>4, <2>1 DEF NoRecipients, Found, Handled
  <2>2. CASE consumer[c].event # e
    BY <1>1, <1>4, <2>2 DEF NoRecipients, Held, Found, OnQueue
  <2>. QED
    BY <2>1, <2>2
<1>5. ASSUME NEW c \in Consumers, Fails(c), NEW m \in queue, m.event = e  PROVE Found(e)'
  <2>1. CASE m \notin Held(c)
    BY <1>5, <2>1 DEF Fails, Found, OnQueue
  <2>2. CASE m \in Held(c) /\ m.tries = MaxRetries
    BY <1>5, <2>2 DEF Fails, Found, Handled
  <2>3. CASE m \in Held(c) /\ m.tries < MaxRetries
    <3>1. [m EXCEPT !.tries = @ + 1] \in queue'
      BY <1>5, <2>3 DEF Fails
    <3>2. [m EXCEPT !.tries = @ + 1].event = e
      BY <1>5 DEF NotifyTypeOK, Message
    <3>. QED
      BY <3>1, <3>2 DEF Found, OnQueue
  <2>4. m.tries \in 0..MaxRetries
    BY <1>5 DEF NotifyTypeOK, Message
  <2>. QED
    BY <2>1, <2>2, <2>3, <2>4, NotificationsAssumption
<1>6. ASSUME NEW c \in Consumers, Fails(c)  PROVE Found(e)'
  BY <1>1, <1>5, <1>6 DEF Found, OnQueue
<1>7. ASSUME NEW p \in Publishers, Publish(p)  PROVE queue \subseteq queue'
  BY <1>7 DEF Publish, Commit, Send, SendFails, Enqueue, ReadPending, Mark, MarkFails, PublisherDies
<1>8. ASSUME NEW c \in Consumers,
             \/ ReadRecipients(c) \/ NotifyMembers(c) \/ ReadCustomer(c) \/ NotifyCustomer(c)
             \/ EnqueuePushes(c) \/ \E m \in queue : Deliver(c, m)
      PROVE  queue \subseteq queue'
  BY <1>8 DEF ReadRecipients, NotifyMembers, ReadCustomer, NotifyCustomer, EnqueuePushes, Deliver
<1>. QED
  BY <1>2, <1>3, <1>4, <1>6, <1>7, <1>8, PeopleChangeNothing DEF NotifyNext, Consume, notifyVars

\* Every step of a consumer keeps what the consumers have to have told.
LEMMA ConsumersTellNext ==
  ASSUME NotifyTypeOK, KeysAreUnique, ConsumersTell, [NotifyNext]_notifyVars
  PROVE  ConsumersTell'
<1>. DEFINE Tells(c) ==
       /\ consumer[c].pc = "members" => consumer[c].to # {}
       /\ consumer[c].pc \in {"customer", "write", "pushes", "ack"} =>
            /\ consumer[c].to # {}
            /\ \A u \in consumer[c].to : Told(consumer[c].event, u)
<1>1. ASSUME NEW c \in Consumers, consumer'[c] = consumer[c]  PROVE Tells(c)'
  <2>1. Tells(c)
    BY DEF ConsumersTell
  <2>2. consumer[c].pc # "idle" => consumer[c].event \in Events /\ consumer[c].to \subseteq Users
    BY DEF NotifyTypeOK, ConsumerRow, At
  <2>. QED
    BY <1>1, <2>1, <2>2, HandledStays
<1>2. ASSUME NEW c \in Consumers, consumer' = consumer \/ \E d \in Consumers \ {c} : \E row : consumer' = [consumer EXCEPT ![d] = row]
      PROVE  Tells(c)'
  <2>1. DOMAIN consumer = Consumers
    BY DEF NotifyTypeOK
  <2>2. consumer'[c] = consumer[c]
    BY <1>2, <2>1
  <2>. QED
    BY <1>1, <2>2
<1>3. ASSUME NEW c \in Consumers,
             Consume(c) \/ Fails(c) \/ \E m \in queue : Deliver(c, m)
      PROVE  /\ \E row : consumer' = [consumer EXCEPT ![c] = row]
             /\ Tells(c)'
  <2>1. consumer \in [Consumers -> ConsumerRow] /\ Tells(c)
    BY DEF NotifyTypeOK, ConsumersTell
  <2>2. CASE \E m \in queue : Deliver(c, m)
    <3>1. PICK m \in queue : Deliver(c, m)
      BY <2>2
    <3>2. \E row : consumer' = [consumer EXCEPT ![c] = row]
      BY <3>1 DEF Deliver
    <3>3. consumer'[c].pc = "recipients"
      BY <2>1, <3>1 DEF Deliver
    <3>. QED
      BY <3>2, <3>3
  <2>3. CASE ReadRecipients(c)
    BY <2>1, <2>3 DEF ReadRecipients, Goto, ConsumerRow
  <2>4. CASE NoRecipients(c) \/ Ack(c) \/ Fails(c)
    BY <2>1, <2>4, WaitingType DEF NoRecipients, Ack, Fails, Done
  <2>5. CASE NotifyMembers(c)
    <3>1. \A u \in consumer[c].to : \E r \in inbox' : r.event = consumer[c].event /\ r.user = u
      BY <2>5, NoticesTell DEF NotifyMembers, Told
    <3>2. /\ consumer'[c].event = consumer[c].event /\ consumer'[c].to = consumer[c].to
          /\ consumer[c].to # {}
      BY <2>1, <2>5 DEF NotifyMembers, Goto, ConsumerRow, At
    <3>3. consumer'[c].pc # "members"
      BY <2>1, <2>5 DEF NotifyMembers, Goto, ConsumerRow, At
    <3>4. \E row : consumer' = [consumer EXCEPT ![c] = row]
      BY <2>5 DEF NotifyMembers, Goto
    <3>. QED
      BY <3>1, <3>2, <3>3, <3>4 DEF Told
  <2>6. CASE ReadCustomer(c) \/ EnqueuePushes(c)
    <3>0. PICK pc \in {"pushes", "write", "ack"} : Goto(c, pc, consumer[c].to)
      BY <2>6 DEF ReadCustomer, EnqueuePushes
    <3>1. /\ consumer'[c].event = consumer[c].event /\ consumer'[c].to = consumer[c].to
          /\ consumer[c].to # {} /\ consumer'[c].pc # "members"
          /\ \A u \in consumer[c].to : Told(consumer[c].event, u)
      <4>1. consumer[c].pc \in {"customer", "pushes"}
        BY <2>6 DEF ReadCustomer, EnqueuePushes, At
      <4>2. consumer[c].to # {} /\ \A u \in consumer[c].to : Told(consumer[c].event, u)
        BY <2>1, <4>1
      <4>3. /\ consumer'[c].event = consumer[c].event /\ consumer'[c].to = consumer[c].to
            /\ consumer'[c].pc = pc
        BY <2>1, <3>0 DEF Goto, ConsumerRow
      <4>. QED
        BY <4>2, <4>3
    <3>2. inbox' = inbox
      BY <2>6 DEF ReadCustomer, EnqueuePushes, told
    <3>3. \E row : consumer' = [consumer EXCEPT ![c] = row]
      BY <3>0 DEF Goto
    <3>. QED
      BY <3>1, <3>2, <3>3 DEF Told
  <2>7. CASE NotifyCustomer(c)
    <3>1. /\ consumer'[c].event = consumer[c].event
          /\ consumer'[c].to = consumer[c].to \cup {Customer}
          /\ consumer'[c].pc # "members"
          /\ \A u \in consumer[c].to : Told(consumer[c].event, u)
      BY <2>1, <2>7 DEF NotifyCustomer, Goto, ConsumerRow, At
    <3>2. \E r \in inbox' : r.event = consumer[c].event /\ r.user = Customer
      BY <2>7, NoticesTell DEF NotifyCustomer, Told
    <3>3. inbox \subseteq inbox'
      BY HandledStays
    <3>4. \E row : consumer' = [consumer EXCEPT ![c] = row]
      BY <2>7 DEF NotifyCustomer, Goto
    <3>. QED
      BY <3>1, <3>2, <3>3, <3>4 DEF Told
  <2>. QED
    BY <1>3, <2>2, <2>3, <2>4, <2>5, <2>6, <2>7 DEF Consume
<1>4. ASSUME NEW p \in Publishers, Publish(p)  PROVE consumer' = consumer
  BY <1>4 DEF Publish, Commit, Send, SendFails, ReadPending, Mark, MarkFails, PublisherDies
<1>5. CASE consumer' = consumer
  <2>1. \A c \in Consumers : Tells(c)'
    BY <1>1, <1>5
  <2>. QED
    BY <2>1 DEF ConsumersTell
<1>6. ASSUME NEW d \in Consumers,
             Consume(d) \/ Fails(d) \/ \E m \in queue : Deliver(d, m)
      PROVE  ConsumersTell'
  <2>1. \A c \in Consumers : Tells(c)'
    BY <1>2, <1>3, <1>6
  <2>. QED
    BY <2>1 DEF ConsumersTell
<1>. QED
  BY <1>4, <1>5, <1>6, PeopleChangeNothing DEF NotifyNext, notifyVars

\* A publisher marks only what it sent, and finds what it sent on the queue.
LEMMA NotLostNext ==
  ASSUME NotifyTypeOK, NotLost, [NotifyNext]_notifyVars
  PROVE  PublishedIsNotLost' /\ SentIsNotLost'
<1>1. \A e \in Events : Found(e) => Found(e)'
  BY FoundStays DEF NotLost
<1>2. /\ \A e \in Events : outbox[e] = "published" => Found(e)
      /\ \A p \in Publishers, e \in Events : publisher[p].done = e => Found(e)
  BY NotificationsAssumption DEF NotLost, PublishedIsNotLost, SentIsNotLost, Found, NotifyTypeOK, PublisherRow
<1>3. SUFFICES /\ \A e \in Events : outbox'[e] = "published" => Found(e)'
               /\ \A p \in Publishers, e \in Events : publisher'[p].done = e => Found(e)'
  <2>1. publisher' \in [Publishers -> PublisherRow]
    <3>1. NotifyTypeOK'
      BY NotifyTypeNext
    <3>. QED
      BY <3>1 DEF NotifyTypeOK
  <2>2. \A p \in Publishers : publisher'[p].done \in Events \cup {Nothing}
    BY <2>1 DEF PublisherRow
  <2>. QED
    BY <2>2 DEF PublishedIsNotLost, SentIsNotLost, Found, OnQueue, Handled
<1>4. CASE outbox' = outbox /\ publisher' = publisher
  BY <1>1, <1>2, <1>4
<1>5. ASSUME NEW p \in Publishers, Publish(p)
      PROVE  /\ \A e \in Events : outbox'[e] = "published" => Found(e)'
             /\ \A q \in Publishers, e \in Events : publisher'[q].done = e => Found(e)'
  <2>1. outbox \in [Events -> {"absent", "unpublished", "published"}] /\ publisher \in [Publishers -> PublisherRow]
    BY DEF NotifyTypeOK
  <2>2. ASSUME NEW e \in Events, Send(p, e)  PROVE Found(e)'
    <3>1. PICK k \in Copies : queue' = queue \cup {[event |-> e, copy |-> k, tries |-> 0]}
      BY <2>2 DEF Send, Enqueue
    <3>. DEFINE n == [event |-> e, copy |-> k, tries |-> 0]
    <3>2. n \in queue' /\ n.event = e
      BY <3>1
    <3>. QED
      BY <3>2 DEF Found, OnQueue
  <2>3. CASE \E e \in Events : Send(p, e)
    <3>1. PICK e \in Events : Send(p, e)
      BY <2>3
    <3>2. \A q \in Publishers : publisher'[q].done = IF q = p THEN e ELSE publisher[q].done
      BY <2>1, <3>1 DEF Send, PublisherRow
    <3>3. outbox' = outbox
      BY <3>1 DEF Send
    <3>4. ASSUME NEW q \in Publishers, NEW f \in Events, publisher'[q].done = f  PROVE Found(f)'
      <4>1. CASE f = e
        BY <2>2, <3>1, <4>1
      <4>2. CASE f # e
        BY <1>1, <1>2, <3>2, <3>4, <4>2
      <4>. QED
        BY <4>1, <4>2
    <3>. QED
      BY <1>1, <1>2, <3>3, <3>4
  <2>4. CASE \E e \in Events : Commit(p, e) \/ SendFails(p, e)
    BY <1>1, <1>2, <2>1, <2>4 DEF Commit, SendFails, PublisherRow
  <2>5. CASE Mark(p)
    <3>1. \A q \in Publishers : publisher'[q].done = IF q = p THEN Nothing ELSE publisher[q].done
      BY <2>1, <2>5 DEF Mark, PublisherRow
    <3>2. publisher[p].done \in Events
      BY <2>1, <2>5 DEF Mark, PublisherRow
    <3>. QED
      BY <1>1, <1>2, <2>1, <2>5, <3>1, <3>2, NotificationsAssumption DEF Mark
  <2>6. CASE ReadPending(p) \/ MarkFails(p) \/ PublisherDies(p)
    <3>1. \A q \in Publishers : publisher'[q].done \in {Nothing, publisher[q].done}
      BY <2>1, <2>6 DEF ReadPending, MarkFails, PublisherDies, PublisherRow, Resting
    <3>2. outbox' = outbox
      BY <2>6 DEF ReadPending, MarkFails, PublisherDies
    <3>. QED
      BY <1>1, <1>2, <3>1, <3>2, NotificationsAssumption
  <2>. QED
    BY <1>5, <2>3, <2>4, <2>5, <2>6 DEF Publish
<1>6. ASSUME NEW c \in Consumers, Consume(c) \/ Fails(c) \/ \E m \in queue : Deliver(c, m)
      PROVE  outbox' = outbox /\ publisher' = publisher
  BY <1>6 DEF Consume, ReadRecipients, NoRecipients, NotifyMembers, ReadCustomer, NotifyCustomer,
              EnqueuePushes, Ack, Fails, Deliver
<1>. QED
  BY <1>4, <1>5, <1>6, PeopleChangeNothing DEF NotifyNext, notifyVars

(***************************************************************************)
(* A row marked published is on the queue or handled, and a consumer       *)
(* acknowledges what all its recipients were told: of every behaviour.     *)
(***************************************************************************)
THEOREM NothingPublishedIsLost == NotifySpec => []PublishedIsNotLost /\ []FanOutComplete
<1>1. NotifyInit => NotLost /\ KeysAreUnique
  <2>. SUFFICES ASSUME NotifyInit  PROVE NotLost /\ KeysAreUnique
    OBVIOUS
  <2>1. PublishedIsNotLost /\ KeysAreUnique
    BY DEF NotifyInit, PublishedIsNotLost, KeysAreUnique
  <2>2. SentIsNotLost
    BY DEF NotifyInit, SentIsNotLost, Resting
  <2>3. ConsumersTell
    BY WaitingType DEF NotifyInit, ConsumersTell
  <2>. QED
    BY <2>1, <2>2, <2>3 DEF NotLost
<1>2. NotifyTypeOK /\ NotLost /\ KeysAreUnique /\ [NotifyNext]_notifyVars => NotLost' /\ KeysAreUnique'
  BY KeysNext, ConsumersTellNext, NotLostNext DEF NotLost
<1>3. NotLost => PublishedIsNotLost /\ FanOutComplete
  BY DEF NotLost, ConsumersTell, FanOutComplete, At
<1>. QED
  BY <1>1, <1>2, <1>3, NotifyTypeCorrect, PTL DEF NotifySpec

\* An acknowledged message was told to each of its recipients, in their own row.
THEOREM EverybodyIsTold == NotifySpec => []FanOutComplete
  BY NothingPublishedIsLost, PTL

-----------------------------------------------------------------------------
(***************************************************************************)
(* Who is left to hear.                                                    *)
(***************************************************************************)

\* Whoever passed the last-owner check leaves somebody behind.
SomebodyStays == leaving \subseteq owners /\ owners \ leaving # {}

LEMMA SomebodyStaysNext ==
  ASSUME SomebodyStays, LeaversTakeTurns', [NotifyNext]_notifyVars
  PROVE  SomebodyStays'
<1>1. CASE UNCHANGED people
  BY <1>1 DEF SomebodyStays, people
<1>2. ASSUME NEW u \in Users, Join(u)
      PROVE  SomebodyStays'
  BY <1>2 DEF SomebodyStays, Join
<1>3. ASSUME NEW u \in Users, AskToLeave(u)
      PROVE  SomebodyStays'
  <2>1. leaving' = leaving \cup {u} /\ owners' = owners /\ u \in owners /\ owners \ {u} # {}
    BY <1>3 DEF AskToLeave
  <2>2. leaving' = {u}
    BY <2>1 DEF LeaversTakeTurns
  <2>. QED
    BY <2>1, <2>2 DEF SomebodyStays
<1>4. ASSUME NEW u \in Users, Leave(u)
      PROVE  SomebodyStays'
  BY <1>4 DEF SomebodyStays, Leave
<1>5. CASE Switch
  BY <1>5 DEF SomebodyStays, Switch
<1>6. ASSUME NEW p \in Publishers, Publish(p)
      PROVE  UNCHANGED people
  BY <1>6 DEF Publish, Commit, Send, SendFails, ReadPending, Mark, MarkFails, PublisherDies
<1>7. ASSUME NEW c \in Consumers, Consume(c) \/ Fails(c) \/ \E m \in queue : Deliver(c, m)
      PROVE  UNCHANGED people
  BY <1>7 DEF Consume, ReadRecipients, NoRecipients, NotifyMembers, ReadCustomer,
     NotifyCustomer, EnqueuePushes, Ack, Fails, Deliver
<1>8. CASE UNCHANGED notifyVars
  BY <1>1, <1>8 DEF notifyVars
<1>. QED
  BY <1>1, <1>2, <1>3, <1>4, <1>5, <1>6, <1>7, <1>8 DEF NotifyNext

\* An event is dropped untold only where nobody is a member.
LEMMA UnheardMeansEmpty ==
  ASSUME owners # {}, [NotifyNext]_notifyVars
  PROVE  UNCHANGED unheard
<1>1. ASSUME NEW c \in Consumers, Consume(c) PROVE UNCHANGED unheard
  BY <1>1 DEF Consume, ReadRecipients, NoRecipients, NotifyMembers, ReadCustomer,
     NotifyCustomer, EnqueuePushes, Ack, told
<1>2. ASSUME NEW c \in Consumers, Fails(c) \/ \E m \in queue : Deliver(c, m)
      PROVE  UNCHANGED unheard
  BY <1>2 DEF Fails, Deliver, told
<1>3. ASSUME NEW p \in Publishers, Publish(p) PROVE UNCHANGED unheard
  BY <1>3 DEF Publish, Commit, Send, SendFails, ReadPending, Mark, MarkFails, PublisherDies, told
<1>. QED
  BY <1>1, <1>2, <1>3, PeopleChangeNothing DEF NotifyNext, notifyVars, told

(***************************************************************************)
(* While removals take turns, the shop keeps somebody, so no event is      *)
(* dropped before its customer is looked at: for any owners who join and   *)
(* leave, and any number of consumers, whatever they hold when one leaves. *)
(***************************************************************************)
THEOREM CustomersHear == NotifySpec /\ []LeaversTakeTurns => CustomerHears
<1>1. NotifyInit => SomebodyStays
  BY NotificationsAssumption DEF NotifyInit, SomebodyStays
<1>2. SomebodyStays /\ LeaversTakeTurns' /\ [NotifyNext]_notifyVars => SomebodyStays'
  BY SomebodyStaysNext
<1>3. SomebodyStays /\ [NotifyNext]_notifyVars =>
        [\A e \in moved \ byCustomer :
           e \in unheard' \ unheard /\ wants => Told(e, Customer)]_notifyVars
  BY UnheardMeansEmpty DEF SomebodyStays
<1>. QED
  BY <1>1, <1>2, <1>3, PTL DEF NotifySpec, CustomerHears

-----------------------------------------------------------------------------
(***************************************************************************)
(* The promise of the outbox.                                              *)
(***************************************************************************)

\* Whatever is on its way was committed.
Announced ==
  /\ \A p \in Publishers : /\ publisher[p].todo \subseteq Committed
                           /\ publisher[p].done # Nothing => publisher[p].done \in Committed
  /\ \A m \in queue : m.event \in Committed
  /\ \A c \in Consumers : ~At(c, "idle") => consumer[c].event \in Committed

\* A publisher commits what was not, marks what was, and sends only that.
LEMMA PublishAnnounces ==
  ASSUME NotifyTypeOK, Announced, NEW p \in Publishers, Publish(p)
  PROVE  /\ Announced' /\ UNCHANGED <<consumer, told>>
         /\ Committed' = Committed \/ \E e \in Events \ Committed : Committed' = Committed \cup {e}
<1>0. /\ outbox \in [Events -> {"absent", "unpublished", "published"}]
      /\ publisher \in [Publishers -> PublisherRow]
  BY DEF NotifyTypeOK
<1>1. UNCHANGED <<consumer, told>>
  BY DEF Publish, Commit, Send, SendFails, ReadPending, Mark, MarkFails, PublisherDies
\* Only the rows of publishers, and of the queue, still need an argument.
<1>2. ASSUME Committed \subseteq Committed',
             \A m \in queue' : m \in queue \/ m.event \in Committed,
             \A q \in Publishers \ {p} : publisher'[q] = publisher[q],
             publisher'[p].todo \subseteq Committed',
             publisher'[p].done \in Committed' \cup {Nothing}
      PROVE  Announced'
  <2>1. ASSUME NEW q \in Publishers
        PROVE  /\ publisher'[q].todo \subseteq Committed'
               /\ publisher'[q].done # Nothing => publisher'[q].done \in Committed'
    BY <1>2 DEF Announced
  <2>2. /\ \A m \in queue' : m.event \in Committed'
        /\ \A c \in Consumers : ~At(c, "idle")' => consumer'[c].event \in Committed'
    BY <1>1, <1>2 DEF Announced, At
  <2>. QED
    BY <2>1, <2>2 DEF Announced
<1>9. publisher[p].todo \subseteq Committed /\ publisher[p].done \in Committed \cup {Nothing}
  BY DEF Announced
<1>3. ASSUME NEW e \in Events, Commit(p, e)
      PROVE  Announced' /\ Committed' = Committed \cup {e} /\ e \notin Committed
  <2>1. Committed' = Committed \cup {e} /\ e \notin Committed
    BY <1>0, <1>3 DEF Commit, Committed
  <2>2. queue' = queue /\ \A q \in Publishers \ {p} : publisher'[q] = publisher[q]
    BY <1>0, <1>3 DEF Commit
  <2>3. publisher'[p].todo = {e} /\ publisher'[p].done = Nothing
    BY <1>0, <1>3 DEF Commit, PublisherRow, Resting
  <2>. QED
    BY <1>2, <2>1, <2>2, <2>3
<1>4. ASSUME NEW e \in Events, Send(p, e) \/ SendFails(p, e)
      PROVE  Announced' /\ Committed' = Committed
  <2>1. Committed' = Committed /\ e \in Committed
    BY <1>4 DEF Send, SendFails, Committed, Announced
  <2>2. \A m \in queue' : m \in queue \/ m.event \in Committed
    BY <1>4, <2>1 DEF Send, SendFails, Enqueue
  <2>3. \A q \in Publishers \ {p} : publisher'[q] = publisher[q]
    BY <1>0, <1>4 DEF Send, SendFails
  <2>4. publisher'[p].todo \subseteq publisher[p].todo
        /\ publisher'[p].done \in {e, publisher[p].done}
    BY <1>0, <1>4 DEF Send, SendFails, PublisherRow
  <2>5. publisher'[p].todo \subseteq Committed' /\ publisher'[p].done \in Committed' \cup {Nothing}
    BY <1>9, <2>1, <2>4
  <2>. QED
    BY <1>2, <2>1, <2>2, <2>3, <2>5
<1>5. CASE ReadPending(p)
  <2>1. Committed' = Committed /\ queue' = queue
        /\ \A q \in Publishers \ {p} : publisher'[q] = publisher[q]
    BY <1>0, <1>5 DEF ReadPending, Committed
  <2>2. /\ publisher'[p].todo = {e \in Events : outbox[e] = "unpublished"}
        /\ publisher'[p].done = Nothing
    BY <1>0, <1>5 DEF ReadPending, PublisherRow, Resting
  <2>3. publisher'[p].todo \subseteq Committed' /\ publisher'[p].done \in Committed' \cup {Nothing}
    BY <2>1, <2>2 DEF Committed
  <2>4. /\ Committed \subseteq Committed' /\ \A m \in queue' : m \in queue \/ m.event \in Committed
        /\ \A q \in Publishers \ {p} : publisher'[q] = publisher[q]
    BY <2>1
  <2>5. Announced'
    BY <1>2, <2>3, <2>4
  <2>. QED
    BY <1>1, <2>1, <2>5
<1>6. CASE Mark(p)
  <2>1. publisher[p].done \in Committed /\ publisher[p].done \in Events
    BY <1>0, <1>6 DEF Mark, Announced, Committed
  <2>2. Committed' = Committed
    BY <1>0, <1>6, <2>1 DEF Mark, Committed
  <2>3. queue' = queue /\ \A q \in Publishers \ {p} : publisher'[q] = publisher[q]
    BY <1>0, <1>6 DEF Mark
  <2>4. publisher'[p].todo = publisher[p].todo /\ publisher'[p].done = Nothing
    BY <1>0, <1>6 DEF Mark, PublisherRow
  <2>5. publisher'[p].todo \subseteq Committed' /\ publisher'[p].done \in Committed' \cup {Nothing}
    BY <1>9, <2>2, <2>4
  <2>6. /\ Committed \subseteq Committed' /\ \A m \in queue' : m \in queue \/ m.event \in Committed
        /\ \A q \in Publishers \ {p} : publisher'[q] = publisher[q]
    BY <2>2, <2>3
  <2>7. Announced'
    BY <1>2, <2>5, <2>6
  <2>. QED
    BY <1>1, <2>2, <2>7
<1>7. CASE MarkFails(p) \/ PublisherDies(p)
  <2>1. Committed' = Committed /\ queue' = queue
        /\ \A q \in Publishers \ {p} : publisher'[q] = publisher[q]
    BY <1>0, <1>7 DEF MarkFails, PublisherDies, Committed
  <2>2. publisher'[p].todo \subseteq publisher[p].todo /\ publisher'[p].done = Nothing
    BY <1>0, <1>7 DEF MarkFails, PublisherDies, PublisherRow, Resting
  <2>3. publisher'[p].todo \subseteq Committed' /\ publisher'[p].done \in Committed' \cup {Nothing}
    BY <1>9, <2>1, <2>2
  <2>4. /\ Committed \subseteq Committed' /\ \A m \in queue' : m \in queue \/ m.event \in Committed
        /\ \A q \in Publishers \ {p} : publisher'[q] = publisher[q]
    BY <2>1
  <2>5. Announced'
    BY <1>2, <2>3, <2>4
  <2>. QED
    BY <1>1, <2>1, <2>5
<1>. QED
  BY <1>1, <1>3, <1>4, <1>5, <1>6, <1>7 DEF Publish

\* A consumer works on what the queue held.
LEMMA ConsumeAnnounced ==
  ASSUME NotifyTypeOK, Announced, NEW c \in Consumers,
         Consume(c) \/ Fails(c) \/ \E m \in queue : Deliver(c, m)
  PROVE  Announced' /\ Committed' = Committed
<1>0. consumer \in [Consumers -> ConsumerRow] /\ queue \subseteq Message
  BY DEF NotifyTypeOK
<1>1. UNCHANGED <<outbox, publisher>>
  BY DEF Consume, ReadRecipients, NoRecipients, NotifyMembers, ReadCustomer, NotifyCustomer,
     EnqueuePushes, Ack, Fails, Deliver
<1>2. Committed' = Committed
  BY <1>1 DEF Committed
<1>3. \A m \in queue' : m.event \in Committed
  <2>1. CASE queue' \subseteq queue
    BY <2>1 DEF Announced
  <2>2. CASE Fails(c)
    <3>1. ASSUME NEW n \in queue PROVE [n EXCEPT !.tries = @ + 1].event = n.event
      BY <1>0 DEF Message
    <3>2. ASSUME NEW m \in queue' PROVE \E n \in queue : m = n \/ m = [n EXCEPT !.tries = @ + 1]
      BY <2>2, <3>2 DEF Fails, Held
    <3>3. \A n \in queue : n.event \in Committed
      BY DEF Announced
    <3>. QED
      BY <3>1, <3>2, <3>3
  <2>3. CASE ~Fails(c)
    <3>1. queue' \subseteq queue
      BY <2>3 DEF Consume, ReadRecipients, NoRecipients, NotifyMembers, ReadCustomer,
         NotifyCustomer, EnqueuePushes, Ack, Deliver
    <3>. QED
      BY <2>1, <3>1
  <2>. QED
    BY <2>2, <2>3
<1>4. ASSUME NEW d \in Consumers, ~At(d, "idle")' PROVE consumer'[d].event \in Committed
  <2>1. CASE consumer'[d] = consumer[d]
    BY <1>4, <2>1 DEF Announced, At
  <2>2. CASE consumer'[d] # consumer[d]
    <3>1. d = c
      BY <1>0, <2>2 DEF Consume, ReadRecipients, NoRecipients, NotifyMembers, ReadCustomer,
         NotifyCustomer, EnqueuePushes, Ack, Fails, Deliver, Goto, Done
    <3>2. CASE NoRecipients(c) \/ Ack(c) \/ Fails(c)
      BY <1>0, <1>4, <3>1, <3>2, WaitingType DEF NoRecipients, Ack, Fails, Done, At
    <3>3. ASSUME NEW m \in queue, Deliver(c, m)
          PROVE  consumer'[c].event \in Committed
      BY <1>0, <3>3 DEF Deliver, Announced
    <3>4. CASE \/ ReadRecipients(c) \/ NotifyMembers(c) \/ ReadCustomer(c) \/ NotifyCustomer(c)
               \/ EnqueuePushes(c)
      <4>1. PICK pc, to : Goto(c, pc, to)
        BY <3>4 DEF ReadRecipients, NotifyMembers, ReadCustomer, NotifyCustomer, EnqueuePushes
      <4>2. consumer'[c].event = consumer[c].event
        BY <1>0, <4>1 DEF Goto, ConsumerRow
      <4>3. ~At(c, "idle")
        BY <3>4 DEF ReadRecipients, NotifyMembers, ReadCustomer, NotifyCustomer, EnqueuePushes, At
      <4>. QED
        BY <3>1, <4>2, <4>3 DEF Announced
    <3>. QED
      BY <3>1, <3>2, <3>3, <3>4 DEF Consume
  <2>. QED
    BY <2>1, <2>2
<1>. QED
  BY <1>1, <1>2, <1>3, <1>4 DEF Announced

LEMMA AnnouncedNext ==
  ASSUME NotifyTypeOK, Announced, [NotifyNext]_notifyVars
  PROVE  Announced'
<1>1. CASE UNCHANGED <<outbox, publisher, queue, consumer>>
  BY <1>1 DEF Announced, Committed, At
<1>. QED
  BY <1>1, PublishAnnounces, ConsumeAnnounced, PeopleChangeNothing DEF NotifyNext, notifyVars

\* An insert tells the people of one event.
LEMMA InsertTells ==
  ASSUME NEW c \in Consumers, NEW to \in SUBSET Users, Notices(c, to)
  PROVE  \E users \in SUBSET Users : ToldOf' = ToldOf \cup ({consumer[c].event} \X users)
<1>. DEFINE e == consumer[c].event
            fresh == {u \in to : \A r \in inbox : r.key # dedupeKeyFor(e, u)}
<1>1. inbox' = inbox \cup {Notice(e, u) : u \in fresh}
  BY DEF Notices
<1>2. \A u : Notice(e, u).event = e /\ Notice(e, u).user = u
  BY DEF Notice
<1>3. fresh \in SUBSET Users
  OBVIOUS
<1>. HIDE DEF fresh, e
<1>4. ToldOf' = ToldOf \cup {<<e, u>> : u \in fresh}
  BY <1>1, <1>2 DEF ToldOf
<1>5. {<<e, u>> : u \in fresh} = {e} \X fresh
  OBVIOUS
<1>. QED
  BY <1>3, <1>4, <1>5 DEF e

(***************************************************************************)
(* Publishers and consumers that die, retry and overlap tell of nothing    *)
(* that was not committed, take back nothing they told, and ring for       *)
(* nothing they did not tell.                                              *)
(***************************************************************************)
THEOREM NoticesAreKept == NotifySpec => NoticesKeepPromise
<1>1. NotifyInit => Promise!NoticeInit /\ Announced
  <2>. SUFFICES ASSUME NotifyInit PROVE Promise!NoticeInit /\ Announced
    OBVIOUS
  <2>1. Promise!NoticeInit
    BY DEF NotifyInit, Promise!NoticeInit, Committed, ToldOf
  <2>2. Announced
    BY WaitingType DEF NotifyInit, Announced, Resting, At
  <2>. QED
    BY <2>1, <2>2
<1>2. NotifyTypeOK /\ Announced /\ ConsumersTell /\ [NotifyNext]_notifyVars
        => [Promise!NoticeNext]_(Promise!noticeVars)
  <2>. SUFFICES ASSUME NotifyTypeOK, Announced, ConsumersTell, [NotifyNext]_notifyVars
                PROVE  [Promise!NoticeNext]_(Promise!noticeVars)
    OBVIOUS
  <2>0. UNCHANGED inbox => UNCHANGED ToldOf
    BY DEF ToldOf
  <2>1. CASE UNCHANGED <<outbox, told>>
    BY <2>0, <2>1 DEF told, Committed, Promise!noticeVars
  <2>2. ASSUME NEW p \in Publishers, Publish(p)
        PROVE  [Promise!NoticeNext]_(Promise!noticeVars)
    <3>1. UNCHANGED <<pushes, ToldOf>>
      BY <2>0, <2>2, PublishAnnounces DEF told
    <3>2. Committed' = Committed \/ \E e \in Events \ Committed : Committed' = Committed \cup {e}
      BY <2>2, PublishAnnounces
    <3>. QED
      BY <3>1, <3>2 DEF Promise!NoticeNext, Promise!Happen, Promise!noticeVars
  <2>3. ASSUME NEW c \in Consumers, NotifyMembers(c) \/ NotifyCustomer(c)
        PROVE  [Promise!NoticeNext]_(Promise!noticeVars)
    <3>. DEFINE e == consumer[c].event
    <3>1. e \in Committed /\ e \in Events
      BY <2>3 DEF Announced, Committed, NotifyMembers, NotifyCustomer, At
    <3>2. \E users \in SUBSET Users : ToldOf' = ToldOf \cup ({e} \X users)
      <4>1. consumer[c].to \in SUBSET Users /\ {Customer} \in SUBSET Users
        BY NotificationsAssumption DEF NotifyTypeOK, ConsumerRow
      <4>. QED
        BY <2>3, <4>1, InsertTells DEF NotifyMembers, NotifyCustomer
    <3>3. UNCHANGED <<Committed, pushes>>
      BY <2>3 DEF NotifyMembers, NotifyCustomer, Committed
    <3>. HIDE DEF e
    <3>. QED
      BY <3>1, <3>2, <3>3 DEF Promise!NoticeNext, Promise!Tell
  <2>4. ASSUME NEW c \in Consumers, EnqueuePushes(c)
        PROVE  [Promise!NoticeNext]_(Promise!noticeVars)
    <3>. DEFINE e == consumer[c].event
                users == consumer[c].to \cap Devices
    <3>1. e \in Events /\ users \in SUBSET Users
      BY <2>4 DEF EnqueuePushes, At, NotifyTypeOK, ConsumerRow
    <3>2. {e} \X users \subseteq ToldOf
      BY <2>4 DEF EnqueuePushes, At, ConsumersTell, Told, ToldOf
    <3>3. pushes' = pushes \cup ({e} \X users) /\ UNCHANGED <<Committed, ToldOf>>
      BY <2>4 DEF EnqueuePushes, Committed, ToldOf
    <3>. HIDE DEF e, users
    <3>. QED
      BY <3>1, <3>2, <3>3 DEF Promise!NoticeNext, Promise!Ring
  <2>5. ASSUME NEW c \in Consumers,
               \/ ReadRecipients(c) \/ NoRecipients(c) \/ ReadCustomer(c) \/ Ack(c) \/ Fails(c)
               \/ \E m \in queue : Deliver(c, m)
        PROVE  UNCHANGED <<Committed, ToldOf, pushes>>
    BY <2>5 DEF ReadRecipients, NoRecipients, ReadCustomer, Ack, Fails, Deliver, told,
       Committed, ToldOf
  <2>. QED
    BY <2>1, <2>2, <2>3, <2>4, <2>5, PeopleChangeNothing
       DEF NotifyNext, Consume, notifyVars, Promise!noticeVars
<1>3. NotifySpec => []ConsumersTell
  <2>1. NotifyInit => ConsumersTell /\ KeysAreUnique
    BY WaitingType DEF NotifyInit, ConsumersTell, KeysAreUnique
  <2>2. NotifyTypeOK /\ ConsumersTell /\ KeysAreUnique /\ [NotifyNext]_notifyVars
          => ConsumersTell' /\ KeysAreUnique'
    BY KeysNext, ConsumersTellNext
  <2>. QED
    BY <2>1, <2>2, NotifyTypeCorrect, PTL DEF NotifySpec
<1>4. NotifyTypeOK /\ Announced /\ [NotifyNext]_notifyVars => Announced'
  BY AnnouncedNext
<1>. QED
  BY <1>1, <1>2, <1>3, <1>4, NotifyTypeCorrect, PTL
     DEF NotifySpec, NoticesKeepPromise, Promise!NoticeSpec

=============================================================================

# PymesHub: a TLA+ model of orders, deliveries, payments and what surrounds them

PymesHub is a marketplace: customers order from small businesses, couriers (or the
business itself) deliver, every party confirms the money it receives, and everybody
involved is notified. Its server is a Cloudflare Worker (`packages/trpc-api`) over a D1
database (`packages/db`), with a queue for order events and a cron that runs every
minute. D1 has batches, which are atomic, and no transaction that spans a read and a
write. So every handler is a sequence of atomic statements, every other request runs
between two of them, and the Worker may end after any of them. This project models the
handlers in which that is hard to get right.

Paths below are relative to the repository; `trpc-api/` is `packages/trpc-api/src/`.

## 1. Inventory

| Component | State | Operations | What is hard | What makes it correct |
|---|---|---|---|---|
| Order state machine, `packages/shared/src/order-state.ts` | none: a table | `canTransition`, `isTerminalStatus` | rows that depend on actor and fulfilment | a status is left only as the table says |
| Order moves, `trpc-api/services/orders.ts`, `admin.ts` | `order` (status, version, courier), `order_event` (the timeline), `outbox_event` | `advance`, `cancel`, `startSelfDelivery`, `completeSelfDelivery`, `assign`, `applyMove`, `admin.cancelOrder` | read, compare-and-set and batch are three statements; the batch is not conditional on the version; an operator's cancellation bypasses `applyMove` | one version per event; a legal record; a move and its event are one write; a finished order stays finished |
| Delivery runs and offers, `services/deliveries.ts`, `delivery-dispatch.ts` | `delivery` (status, courier), `delivery_offer` | `dispatchNext`, accept, decline, expiry sweep, waiting sweep, the courier's steps, assignment | two couriers, the shop and the cron race for one run; `startSelfDelivery` undoes its claim over four statements | one courier per run, the same on both tables; the first answer of an offer stands; every offer is answered; the run and the order end together |
| Outbox, queue consumer, notifications, `outbox.ts`, `queue.ts`, `events.ts` | `outbox_event.publishedAt`, the queue, `notification`, `push_delivery` | `publishEvents`, `publishPending`, `handleQueue`, `notifyCustomer`, `enqueuePushes` | at-least-once delivery, two consumers of one message, deaths between a send and its mark, dead letters | one notification per person and event; nothing published is lost; every event is handled |
| Push delivery, `push.ts` | `push_delivery` (status, ticket), device tokens | `enqueuePushes`, `deliverPendingPushes`, `sendBatch`, `processPushReceipts` | the cron and the consumer read the same PENDING rows; Expo's answer is lost; a late ticket overwrites a delivered row | a phone rings twice only for an overlap or a lost answer; every push is handed over or given up |
| Order payments, `services/order-payments.ts` | the payment legs of an order, their receipts in R2 and in a table, the audit log, two columns of the order | `chooseMethod`, `submitProof`, `reviewPayment`, `commit`, `requirePaymentStage` | the audit row's primary key is what makes the batch a compare-and-set; the object is stored before the batch; a batch's answer may be lost; the order moves, is cancelled and is given another courier meanwhile | no stage is reached unpaid; a settled leg stays settled; no evidence is lost; a receipt is confirmed by who was shown it |
| Placing, cart, promotions, `orders.ts:place`, `services/cart.ts`, `promotions.ts` | `cart` and its lines, the ledger of `clientRequestId`s, `order`, a promotion's redemptions | `addItem`, `createCart`, `place`, `claim`, `existingOrderFor` | the claim and the order are two writes; retries with one id, taps with two; a batch that aborts after the claim | one order per request id; one order per receipt; no claim stranded but by a death |
| Subscriptions and billing, `services/subscription.ts`, `shared/src/plans.ts`, `context.ts` | `business_subscription`, the copies `business.plan` and `business.listed` | `changePlan`, `assignPlan`, `recordPayment`, `sweepLapsed`, `loadBilling` | a status derived from dates next to a copy that is written; boundary instants; a sweep with a window | no tier is granted unpaid; a lapsed shop's copy comes into line |
| Express quota, `services/plan-limits.ts`, `orders.ts:1095` | a count of accepted express orders | count, then accept | counted in one statement, spent in another | what a shop accepts in a day is within the quota of a plan its copy held that day, but for the requests in flight |
| Team and affiliations, `services/affiliations.ts`, `businesses.ts` | `business_member` | invite, accept, decline, leave, revoke, change role, remove | the last-owner check, the seat check and the write are separate; some writes restate what they read, some do not | a business keeps an owner; an ended membership stays ended |
| Account deletion, `services/account-deletion.ts` | requests with a due date | `request`, `cancel`, the sweep, `anonymizeAccount` | the sweep asks twice, then writes by the user's id | nobody with an open order, and no last owner, disappears |
| Couriers and verification, `services/couriers.ts`, `business-verification.ts` | application rows | apply, review | one writer per row | - |
| Identity, users, support, uploads | one row each | update | - | ownership |
| Catalogue, products, reviews, admin content, quotes, mobile configuration, mappers | independent rows | create, read, update, delete | last write wins | - |
| Durable objects and plumbing, `durable/`, `app.ts` | rate window, sockets | `RateLimitRoom`, `OrderRoom` | - | a window admits at most its limit |
| Clients `apps/web`, `mobile`, `desktop`; legacy `apps/api` | user interface; not served any more | - | - | - |

How they interact: `place` and `applyMove` write the order, its timeline row and its
outbox row in one batch; `place` also writes the payment legs and checks the cart out.
`applyMove` first asks `requirePaymentStage`, moves the delivery row in its batch, and a
move to READY goes on to `dispatchNext`; an acceptance asks the express quota of the
shop's copied plan. The request then publishes its event in the background, and
`publishPending` publishes on the next tick what no request did. The queue hands the
event to `handleQueue`, which writes notifications and push rows, acknowledges the
message and sends the pushes it just wrote. The cron runs, in this order,
`publishPending`, billing (`sweepLapsed`), pushes and receipts, account deletions,
`sweepExpiredOffers` and `sweepWaitingDeliveries` (`index.ts:62-140`), each caught on its
own so that one failure does not stop the next.

## 2. Modules

| Module | Models |
|---|---|
| `OrderState` | the statuses, actors, table and `canTransition` |
| `EventLog` | abstract: what the outbox promises its readers |
| `OrderMoves` | the requests that move an order, statement by statement; implements `EventLog` |
| `Fulfilment` | extends `OrderMoves` with the delivery, its offers and the handlers that touch them; implements `OrderMoves` |
| `PaymentPromise` | abstract: legs are settled once, and no stage is reached without its legs |
| `Payments` | extends `OrderMoves` with the payment legs, receipts, audit rows and the payment stage of a move; implements `PaymentPromise` |
| `Notifications` | from an outbox row to a notification, with publishers, queue, consumers and owners; implements `NoticePromise` |
| `NoticePromise` | abstract: nobody hears of what was not committed, nothing told is untold, no phone rings for what was not told |
| `Pushes` | from a push row to a phone, with crons, consumers, Expo's answers and receipts |
| `Checkout` | a customer's cart and the calls that place orders from it; implements `PlacePromise` |
| `PlacePromise` | abstract: a request id stands for one order for good, a picture pays for one |
| `Plans` | subscriptions, the copies of their plan, the sweep, the plan a request is granted and the express quota |
| `Team` | the members of a shop, invitations, and the deletion of accounts |
| `OrderMovesProofs`, `FulfilmentProofs`, `PaymentsProofs`, `NotificationsProofs`, `PushesProofs`, `CheckoutProofs`, `TeamProofs`, `PlansProofs` | the theorems of the module they are named after |
| `MCOrderMoves`, `MCFulfilment`, `MCPayments`, `MCNotifications`, `MCCheckout`, `MCPlans`, `MCTeam` | the instances' fulfilments, quotas, receipts and symmetry for TLC |

The composition follows the code's own: `Fulfilment` and `Payments` each extend
`OrderMoves`, and both are shown to keep to it, so the properties of the moves hold in
both. `Checkout` ends where `OrderMoves` begins, with an order that was placed.
`Notifications` begins with an outbox row of `OrderMoves`, and `Pushes` with what
`enqueuePushes` of a consumer writes. `Plans` and `Team` meet the orders only in the
express quota and in the question whether somebody has an order to finish.

What is left, in the order in which it would pay: the composition of `Fulfilment` with
`Payments` (self-delivery with two parties that are paid); the publishing of mobile
configurations, the last versioned document with two writers; the backlog of pushes
beyond one batch.

## 3. How the model corresponds to the code

### OrderMoves

`order`, `timeline` and `outbox` are the tables `order`, `order_event` and
`outbox_event`. `mover` holds the requests in flight. Each is at a statement (`pc`),
and remembers the status and version it read (`seen`, `base`), the status it wants
(`to`) and `applyMove`'s `selfDelivery` argument (`self`).

- `ReadToMove` is `advance` and `cancel` up to their last check on the row; a courier
  reaches only the order it carries. `ReadToStartSelf`, `ReadToClaimOut` and
  `ReadToCompleteSelf` are the two self-delivery handlers, which ask for a status instead
  of the table.
- `Reserve` and `LoseReservation` are the compare-and-set at `orders.ts:1694`;
  `CommitMove` is the batch at `orders.ts:1769`, whose status write asks for the id alone.
- `AdminRead` and `AdminCancel` are `admin.cancelOrder`. It writes a status and a timeline
  row, and neither a version nor an outbox row.
- `Abandon` is every way a request ends without its move: the delivery gate, the express
  quota or the payment stage refuses it, its batch fails, or the Worker dies.
- `SetCourier` is what acceptance and assignment write to the order.

`place` is the initial state. `MaxVersion` bounds the versions that may be reserved.

### Fulfilment

`delivery` and `offer` are the tables; an offer that is PENDING past its `expiresAt` is
`LAPSED`. `selfRun` is the orders with a `selfDeliveryUserId`. `task` says which statement
about the delivery each request runs next, before, around or instead of its move. Every
read and the write decided on it are two steps, a D1 batch is one.

- `ReadMove`, `Gate`, `ReserveMove`, `Commit`, `MoveFails` are `advance` with its delivery
  gate and what `applyMove`'s batch does to the run (`RunAfter`). `Commit` to READY goes
  on to `ReadRun`, as `applyMove` does.
- `StartSelf`, `Hold`, `Name`, `NameFails`, `Claim`, `ReadUndo`, `Restore`, `Clear` are
  `startSelfDelivery`, with the driver named before payment when the order has the payment
  flow, and the undo of a claim whose move failed.
- `ReadRun`, `Rank`, `Offer` are `dispatchNext`; `Accept`, `ReadDecline`/`Decline`,
  `Lapse`, `ReadSweep`/`Sweep` are what happens to an offer; `Ride`,
  `ReadConfirm`/`Confirm` are the courier's steps; `ReadAssign`/`Assign` is `assign`.
- `Drop` is a request that is refused, has nothing to write or dies.

### Payments

`pay`, `proof` and `audit` are `order_payment`, `order_payment_proof` and the payment rows
of `audit_log`; `media` is the receipts' objects in R2 and `paid` the two columns of the
order that every commit recomputes. `request` holds the payment requests in flight.

- `chooseMethod`, `submitProof` and `reviewPayment` are the handlers up to their last read;
  `submitProof` has put its object into R2 by then. `payable` and `payee` are `payable`
  and `permission`.
- `commit` is the batch all three end in. An update that matches no row does not fail the
  batch; `Aborts` is what does: the primary key of the audit row, named after the version
  that was read, the unique picture, and the trigger that guards called-off orders.
- `commit` may leave a submission `unsure`: the batch landed and its answer was lost.
  `CleanUp` is the catch, which looks for the row before it deletes the object.
- `ReadMove`, `PassStage`, `ReserveMove` and `EndMove` are the moves of `OrderMoves` with
  `requirePaymentStage` between the read and the reservation; `NameDriver` is what
  acceptance and assignment write.

### Notifications

`outbox` is a row's `publishedAt`, `publisher` the calls of `publishEvents`, `queue` and
`dead` the queue, `consumer` the calls of `handleQueue`, one message each, `inbox` and
`pushes` the rows they write, `owners`, `leaving` and `wants` what recipients depend on.
The queue is not in the repository. It is modelled from how `outbox.ts` and `queue.ts`
use it: `send` may throw whether or not the message was kept, a message is delivered
until it is acknowledged, to two consumers at once if it likes and in any order, and
after `max_retries` failures it is a dead letter. Those definitions are marked external.

### Pushes

`push` is `push_delivery` by event and device, with its due date against the clock;
`rang` counts the rings of a phone, up to two; `worker` holds a Worker's batch and what
Expo answered of each row. `ReadDue`, `Post`, `PostFails`, `BackOff`, `WriteTicket` and
`DeleteToken` are `deliverPendingPushes` and `sendBatch`, `ReadTicketed`, `FetchReceipts`
and `WriteReceipt` are `processPushReceipts`, and `Dies` is the end of a Worker between any
two of them. `excuse` is a history variable: the rows that two sends held at once, and
those whose answer was lost.

### Checkout

`cart`, `ledger`, `orders` and `redemptions` are the tables (the ledger is the notification
rows of kind `ORDER_LEDGER_KIND`); `call` the calls in flight. `AddRead`, `Abandon`,
`createCart`, `ReadLine`, `WriteLine`, `SecondInsert` are `addItem`. `place`, `Price`,
`RefuseCart`, `RefuseReceipt`, `claim`, `Batch`, `BatchAborts`, `Release` and
`existingOrderFor` are `place`: the ledger is asked, the cart and the promotion are read,
the id is claimed, and one batch writes everything or is rolled back by the branch's
trigger or the unique picture. `Fails` is a death or a database error between any two;
`stranded` records the ids whose claim it left behind.

### Plans

`subscription` and `business` are the tables, `now` the day, `call` the handlers, each
with the clock it read when it started. `Position` is the period a change starts,
`subscriptionStatusAt`, `effectivePlan` and `isListed` are `shared/src/plans.ts`,
`loadBilling` is the plan a request is granted. `changePlan` and `assignPlan` end in
`Place`, one batch with the copy; `ReadOwed`, `ReadToRenew`, `recordPayment` and `Audit`
are an operator's payment; `ReadSweep` and `sweepLapsed` the cron. `CountExpress` and
`AcceptExpress` are the two statements of the quota, which is asked of `business.plan` itself;
`Unlimited` are the plans whose `expressPerDay` is `Infinity`, `Quota` the others' numbers.
`held` is a history variable: the plans the copy named today. `GRACE_DAYS` and
`HIDDEN_AFTER_DAYS` are parameters.

### Team

`member` is the membership row of each user (`id` counts the rows of the pair, `lapsed` is
its `expiresAt` against the clock), `deletion` the deletion requests, `work` the people
with an order to finish. Every handler is `Ask`ed with what it may do, reads its row
(`ReadTarget`), asks its question (`CheckOwners`, `CheckSeat`) and writes (`WriteMember`);
`Matches` says for each what its `WHERE` restates, which is not the same for all.
`ReadDue`, `SweepOwners`, `SweepWork`, `Block`, `anonymize` and `SweepFails` are the sweep
of account deletions, row by row. Two history variables say what overlapped: `overlapped`,
that two handlers ever did, and `raced`, the accounts to which an order or an invitation came
between the sweep's last question and the end of its batch.

### Abstractions

- Which courier is eligible and ranks first is a free choice (`Rank`); distances, presence
  and ratings are left out. A courier never offered this run, carrying nothing and with
  nothing to answer is what the code requires of every candidate.
- The business is one account for self-delivery, and orders have their pins.
- `OrderMoves` and `Fulfilment` let the payment stages and the express quota only refuse
  (`Abandon`, `Drop`); what they ask is in `Payments` and `Plans`.
- `Fulfilment` has delivery orders only. Pickup orders are in `OrderMoves`; the runs take
  a delivery, which has every row of the table a pickup has but the handover at the counter,
  and the proofs hold for both.
- In `Payments` the courier of the order is also `paymentCourierId`: `CourierAgrees`, proved
  of `Fulfilment`, is why the two columns may be taken as one. The parties' accounts exist
  and do not change, and a driver is named only once the order was READY.
- In `Notifications` every member is an OWNER, devices do not change, and a consumer
  handles one message per call (`handleQueue` loops over a batch, message by message).
- An event of `Notifications` is one outbox row of `OrderMoves`: whether it is a placement,
  a move or a move by the customer is all that the consumer asks of it (`moved`,
  `byCustomer`). A row of `Pushes` leaves out texts and attempts.
- In `Checkout` a cart has one product, prices are data, and `updateItem`, `removeItem` and
  `clear` are left out. In `Plans` a payment is a sufficient one. In `Team` STAFF is left
  out, as a MANAGER may do all it may, and so are couriers, who hold no seat, and link
  tokens.

## 4. Runs

| Run | Instance | Shows |
|---|---|---|
| `moves` | 1 delivery order, 2 requests, 1 courier, all sides, versions up to 5 | `UniqueVersions`, `LegalHistory`, `MoveAndEvent`, `ImplementsLog` (806 thousand states) |
| `fulfilment_race` | 1 order outside the payment flow, 2 couriers, 2 requests, versions up to 5 | `ShopOrCourier`, `CourierAgrees`, `AnsweredStaysAnswered` (1.9 million) |
| `fulfilment_sequential` | 1 order with the payment flow, 2 couriers, 1 request at a time, versions up to 7, fairness | `RunMatchesOrder`, `OfferedHasSomebody`, `LeftRunIsHistory`, `VersionOrderIsMoveOrder` and `FinishedStaysFinished` hold while requests do not overlap, also when they die halfway; `OfferIsAnswered`, `ImplementsMoves` (99 thousand) |
| `payments` | 1 delivery order paid by transfer and placed with a receipt, 3 receipts of 2 pictures, 1 courier, 1 move and 2 payment requests at a time | `PaidStages`, `ColumnsAgree`, `EvidenceKept`, `AuditTellsAll`, `KeepsPromise`, `ConfirmedAsShown` (625 thousand) |
| `notifications` | 1 event, 2 people, 1 publisher, 2 consumers, 1 copy of the message in the queue, 1 retry, fairness | `OneNoticeEach`, `PublishedIsNotLost`, `FanOutComplete`, `NoticesKeepPromise`, `EventIsHandled` (472 thousand) |
| `push` | 1 push, 2 crons, 1 consumer, fairness | `RingsOnce`, `FinalStands`, `PushIsSent` (31 thousand) |
| `checkout` | 3 request ids, 2 calls, 2 carts, 2 shops, 1 receipt, a promotion for 1 order | `OneOrderEach`, `ClaimsHaveOwners`, `RedemptionsCounted`, `CartsSoldTogether` (1.7 million) |
| `plans` | 1 shop, 3 tiers (quotas 1, 2 and none), periods of 1 and 2 days, 1 day of grace, hidden after 2, 6 days, 1 handler and 2 acceptances at a time, up to 3 express orders a day and those in flight (`MaxExpress`), fairness | `AccessIsPaidFor`, `FreeShopIsListed`, `ExpressIsBounded`, `LapsedComesIntoLine` (977 thousand) |
| `team` | 2 people, one of whom may delete the account, 2 handlers, 2 seats | `OwnerRemains`, `DeletedIsGone`, `EndedStaysEnded`, `MembersKeepTheirRole` (4.0 million) |
| `finished_order_moves` | as `moves`, versions up to 3 | `FinishedStaysFinished` is violated |
| `paid_shop_hidden` | as `plans`, without express orders | `PaidShopIsListed` is violated |
| `own_transfer_only` | as `payments` with 2 couriers, 1 request | `OwnTransferOnly` is violated |

The type invariant of every module is proved (section 6) and not repeated by the runs,
and so is `ReservationsHeld`, the invariant behind `UniqueVersions`.

**Further instances.** These configurations go with theorems, to see on an instance what the
theorem says of all of them, and with section 5. They are run by hand, in up to three minutes
each: `tlc -config CheckoutApart.cfg MCCheckout`.

| Configuration, module | Instance | Shows |
|---|---|---|
| `FulfilmentCouriers.cfg`, `MCFulfilment` | 2 orders, 1 courier, 1 request, versions up to 5 | `CouriersCarryOne` (1.1 million states) |
| `NotificationsMembers.cfg`, `MCNotifications` | as `notifications`, one removal of an owner at a time | `CustomerHears` (130 thousand) |
| `CheckoutPromise.cfg`, `MCCheckout` | 2 request ids, 2 calls, 2 receipts, 1 shop | `PlacesOnce` (180 thousand) |
| `CheckoutApart.cfg`, `MCCheckout` | 2 request ids, 2 calls that do not place one id at once, lines up to 3 | `DuplicatesGetTheirOrder` (4.6 million) |
| `PlansApart.cfg`, `MCPlans` | as `plans`, 2 handlers of which no plan change overlaps a sweep of its shop, no express orders | `AccessIsPaidFor`, `FreeShopIsListed` (3.1 million) |
| `PlansPaidInTime.cfg`, `MCPlans` | as `PlansApart`, and no payment is recorded for a shop out of the feed | `PaidShopIsListed` (2.9 million) |
| `PaymentsPayeeStays.cfg`, `MCPayments` | 1 order, 2 couriers, 2 requests; no courier is replaced under a transfer | `OwnTransferOnly` (37 thousand) |
| `PushesTwoEvents.cfg`, `Pushes` | 2 events, 1 cron, 1 consumer | `RingsOnce`, `FinalStands`, `SentHasRung` (459 thousand) |
| `TeamSeats.cfg`, `MCTeam` | 3 people, 2 handlers, 2 seats | `SeatsAreBounded` (2.1 million) |
| `EveryTapCounts.cfg`, `MCCheckout` | any 2 calls, lines up to 3 | `EveryTapCounts` is violated |
| `DuplicatesGetTheirOrder.cfg`, `MCCheckout` | any 2 calls | `DuplicatesGetTheirOrder` is violated |
| `LapsedIsHeldToFree.cfg`, `MCPlans` | as `plans` with 1 acceptance | `LapsedIsHeldToFree` is violated |
| `AcceptedIsNotRewritten.cfg`, `MCTeam` | as `team` | `AcceptedIsNotRewritten` is violated |

`CheckoutApart`, `PlansApart`, `PlansPaidInTime` and `NotificationsMembers` have the
behaviours in which a state predicate holds throughout: `PlacesApart`, `SweepsApart`,
`SweepsApart` with `PaidInTime`, `LeaversTakeTurns`. Their specifications (`MCApart`,
`MCPaidInTime`, `MCTurns`) conjoin the predicate, primed, to the next-state relation;
`MCPayeeStays` conjoins `PayeeStays`, which is about a step. Each excludes the one overlap or
order of steps with which section 5 shows the property to fail: every other handler still runs
next to every other. The theorems about the same properties have the same predicate as their
hypothesis.

**Why the bounds are enough.** Orders share nothing but a courier's single active run
(`CarriesAnother`, `Candidate`), which is what `FulfilmentCouriers.cfg` has two of them for;
every other race of two requests is over one row, so one order is the instance with the
most races and the proofs cover any number. Two requests give
every interleaving of a stale read with another's write; the statements a third one could
add are the ones the second may run again, as requests start over without end. The
shortest life of an order takes five moves; versions up to 7 leave room for a reservation
that dies, and versions up to 5 for every pair of moves that can overlap. Two couriers
are needed for a run to be taken twice. An order outside the payment flow is the one
whose shop may claim a run without naming a driver, and so the one to race over; the
sequential run was also done without the payment flow (93 thousand states).

In `payments`, versions of a leg up to 3 let a receipt be rejected and replaced while
another request still holds the first one; two receipts that show one picture are needed
for the unique index, a third for the checkout's. In `notifications` one copy is what the
queue holds at a time: the publisher sends again after a mark that failed, so duplicates
and redeliveries are there. In `push` three Workers hold one row at once; the safety
properties hold of two events as well (`PushesTwoEvents.cfg`). In `checkout` two
calls race while a third id follows on the carts they leave. In `plans`, 3 express orders
and 2 acceptances pass either quota, by all the code allows and by the one order a wrong
comparison would add; a third tier has none, as `BUSINESS`. 6 days take a
shop through a whole period, grace, arrears and suspension and on into the next;
`MaxOutage` keeps a sweep within the window `sweepLapsed` looks back on, as a cron that
misses a whole month does not come into line. One handler means that handlers do not
overlap; `PlansApart.cfg` gives that shop a second one. In `team` two
people are enough to be each other's only other owner, and the second membership row
of one of them is a person invited anew.

**Deadlock** is not checked in the runs about orders, payments, carts, pushes and teams:
an order may be finished with no request left that has anything to do, and the bounds
stop the rest. In `Notifications` the customer's switch can always be used, and in
`Plans` a handler can always begin, so no state is a deadlock; that
calls do not wait on each other is what the liveness properties show. **Symmetry** is used
only where no liveness is checked, over requests, calls, handlers and, where nothing
names one, couriers, carts and ids.

### Fairness

`FairSpec` of `Fulfilment` assumes that time passes (`Lapse`), that a request ends or its
Worker dies (`Finish`), and, strongly fair, that the sweep of expired offers reads an offer
that stays lapsed and writes it: a cron that runs every minute tries again for as long as
there is one, and one of its tries is not cut short. Nobody is assumed to accept, decline,
move an order or come online.

`NotifyFairSpec` assumes the same of the minute's `publishPending` (strong, because a
publisher may be busy at any one minute), that the queue does not refuse one event's
`send` for ever and keeps delivering what it holds, and that a publisher and a consumer
end: with `Mark` or by dying, with `Ack` or by failing. No success is assumed of a mark or
of a consumer.

`FairPlans` assumes that a handler ends, with success or not, and, strongly fair, that a
cron finds an agent free and that one of its sweeps is written. Days need not pass.

`FairPushes` assumes that backoffs end, that a Worker goes on, and, strongly fair, that
the cron finds its Worker free, that Expo takes a message or says its device is gone in the
end (`Taken`), and that not every Worker that holds such an answer goes away before it is
written (`Recorded`). Without the last two a push is retried without end, which is what the
code does.

## 5. What disagrees with the code's own words

Three runs expect a violation.

- **A finished order moves** (`finished_order_moves`). `applyMove` compares and sets the
  version in one statement and writes the status by id in a later batch. A move that
  reserved its version before an operator's cancellation commits after it, and takes the
  order out of CANCELLED; two overlapping `applyMove` calls can do the same. The
  comment at `orders.ts:1679` knows the window and names a duplicate notification as its
  consequence. For the same reason `VersionOrderIsMoveOrder` holds only while requests
  do not overlap: two reserved moves may commit in either order, and the status is then
  the lower version's.
- **A shop that paid stays hidden** (`paid_shop_hidden`). `recordPayment` starts a period
  and writes the subscription alone. The copies `business.plan` and `business.listed`
  keep what the sweep wrote while the shop was suspended, and the sweep looks only at
  periods that ended.
- **Somebody else confirms a transfer** (`own_transfer_only`). `orders.assign` may replace
  the courier of a READY order whose customer has already sent a transfer to the first
  courier's account. The leg keeps that account, and the second courier is the one who
  may confirm it.

Without the cause each bullet names, the property is proved: the first while no two
requests about one order overlap (`FinishedOrdersStayFinished`), the second while payments
come in time and no plan changes under a sweep (`PaidShopsAreListed`), the third while no
courier is replaced under a transfer (`OwnTransfersAreVerified`).

Seven more definitions state what a comment says and are violated by the code, the first six
by one overlap. `DuplicatesGetTheirOrder`, `LeftRunIsHistory`, `OfferedHasSomebody` and
`CustomerHears` are proved without it (section 6), and `fulfilment_sequential` and the further
instances of section 4 check them without it. `EveryTapCounts` and `AcceptedIsNotRewritten` are not: without
their overlap they say no more than the guard at the read does.

- `EveryTapCounts` (`Checkout`): "Three things happen in one transaction, and they have to",
  says `cart.ts:283`, or two taps "lose one of the quantities". `addItem` reads the line and
  writes its new quantity in two statements; of two overlapping taps the second
  overwrites the first.
- `DuplicatesGetTheirOrder` (`Checkout`): `place` asks the ledger before it reads the cart, so
  that a duplicate is "handed the order it is asking about" (`orders.ts:229`). One that asks
  before the first request's batch and reads the cart after it is refused for an empty
  basket.
- `LeftRunIsHistory` (`Fulfilment`): `assign` checks READY on a row it read and then writes
  the courier and the run unconditionally, so a run that left in between gets another
  courier.
- `OfferedHasSomebody` (`Fulfilment`): the undo in `startSelfDelivery` gives the run back
  and cancels its offers in a later statement; an offer made in between is cancelled with
  them, and no sweep looks at an OFFERED run without an open offer.
- `CustomerHears` (`Notifications`): when a shop has lost its last members, `handleQueue`
  acknowledges the event before it looks at the customer. It takes two owners removed at
  once, each passing the last-owner check on the other.
- `AcceptedIsNotRewritten` (`Team`): `inviteStaff` restates in its update that the row is not
  ACTIVE, so that "a membership activated between them must not be silently re-written by a
  stale invitation" (`businesses.ts:1353`); that holds, whatever overlaps
  (`MembersKeepTheirRole`). `inviteAffiliate` updates the row it read by its id alone
  (`affiliations.ts:276`); a member who became active in between is made pending again.
- `LapsedIsHeldToFree` (`Plans`): "a lapsed shop is held to `FREE` and cannot be the one place
  that is not", says `orders.ts:1111` of the express quota. `advance` takes `business.plan` and
  `ACTIVE`, where every other limit takes the status from the dates (`loadBilling`); no
  overlap is needed. From the day a period and its grace end until a sweep has written the
  copy, the shop spends the quota of the plan it stopped paying for. `ExpressIsBounded` is
  therefore about the plans the copy named that day.

Some exceptions are part of properties that hold, and are worth knowing. An operator's
cancellation writes no outbox row, so nobody is notified of it (`MoveAndEvent`), and leaves
the run as it was (`RunMatchesOrder`). Without the payment flow a shop may claim the run
of an order that is already out; a Worker that dies between that claim and the statement
that cancels the run's offers leaves an offer open on an order that goes on to be completed
(the second exception in `RunMatchesOrder`). `dispatchNext`'s batch inserts its offer whether
or not its update matched, so an offer may be made for a run that was just claimed; it
cannot be accepted while the run is not OFFERED, and the sweep answers it (`OfferIsAnswered`).
Two owners removed at once leave a shop without one, as the comment of `removeStaff`
admits; `OwnerRemains` says that without an overlap nothing does. An order placed between the
deletion sweep's last question and its batch belongs to an anonymised account, and so does the
row of an invitation that read the account before the batch and is inserted after it (`raced`
in `DeletedIsGone`); any other overlap leaves nothing behind. A plan changed between
`sweepLapsed`'s read and its write is overwritten by the old copy, so `AccessIsPaidFor` and
`FreeShopIsListed` are checked and proved while no plan changes under a sweep
(`SweepsApart`); any other handlers may overlap. Two calls in flight together may sell one
cart twice, under two request ids (`CartsSoldTogether`), and two handlers may take one seat
(`SeatsAreBounded`), which a comment of `affiliations.ts` accepts. A claim that a death left
behind is never released (`stranded` in `ClaimsHaveOwners`), and its id is refused for good.

## 6. What is proved

The proofs hold for every set of orders, couriers, requests, receipts, events, devices,
people, carts, shops, publishers and consumers, every finite set of calls and of
acceptances, and every bound, from one named assumption on the constants of each module
(`OrderMovesAssumption`,
`FulfilmentAssumption`, `PaymentsAssumption`, `NotificationsAssumption`,
`PushesAssumption`, `CheckoutAssumption`, `TeamAssumption`, `PlansAssumption`). TLC
evaluates these on every run.

Eleven theorems are about behaviours without one particular overlap or order of steps,
because the code keeps their property only then (section 5). They have that as a
hypothesis, a predicate that holds throughout (of states; `PayeeStays` of steps):

| Predicate | What does not overlap, or happen | Theorems |
|---|---|---|
| `Apart` | two moves of one order | `VersionsFollowMoves`, `FinishedOrdersStayFinished` |
| `RunsApart` | two requests about one order or its run | `RunsMatchOrders`, `OffersAreAnswerable`, `CourierOfARunThatLeftStays` |
| `PlacesApart` | two placements with one request id | `DuplicatesAreAnswered` |
| `SweepsApart` | a change of a plan and a sweep of its shop | `TiersArePaidFor`, `FreeShopsAreListed`, `PaidShopsAreListed` |
| `PaidInTime` | a payment for a shop that is out of the feed, or that a sweep is taking out | `PaidShopsAreListed` |
| `PayeeStays` | a courier replaced while a transfer to them is unsettled or being chosen | `OwnTransfersAreVerified` |
| `LeaversTakeTurns` | two removals of owners | `CustomersHear` |

Everything else goes on beside it: any number of requests about other orders, couriers,
sweeps, other handlers, and deaths at any statement. All other theorems hold of every
behaviour.

**OrderMoves.** `MovesTypeCorrect` is inductive by itself. `VersionsAreUnique`:
`UniqueVersions` is not inductive, as a request that holds a reservation could commit a
version some event has. `ReservationsHeld` (`ReservationsAreHeld`) says that no event has
a held version, no two requests hold one, and all are at most the row's; `ReserveHolds` and
`CommitHolds` carry it over the only two statements that matter, `ReservationsFrame` over
the rest. `HistoryIsLegal` strengthens `LegalHistory` with `LegalPlans`: a plan is checked
at the read and only copied afterwards, so a stale read never puts an illegal move on the
record. `MovesImplementLog` maps each step to a `Record` or a stutter of `EventLog` from
these two. `MovesAndEventsAreOneWrite` proves `MoveAndEvent` from the types and fresh
versions. While no two requests are about one order, `ReadsAreUpToDate` shows that what
one read is what the row still says, and the version it holds the row's (`UpToDate`), from
which the other two follow.

**Fulfilment.** `FulfilmentStepMoves` shows that every step of a request about a delivery is
a step of `OrderMoves` or leaves it alone; hence `FulfilmentImplementsMoves`, and
`FulfilmentKeepsTheLog` carries unique versions, legal history and one write over.
`FulfilmentTypesCorrect` splits the types by table (`TasksOK`, `RunsOK`, `OffersOK`).
`OneCourier` proves `CourierAgrees` and `OneRunEach` proves `CouriersCarryOne`, from what a
step does to a run in both tables at once (`RunIsTurnedOrGiven`); `FirstAnswerStands` proves
`AnsweredStaysAnswered`.
`ShopOrOneCourier` proves `ShopOrCourier` for any number of requests: a claim that may
still be undone is the only one of its order, its run is taken, and only its own undo puts
the run up again (`ClaimHolds`). `RunsMatchOrders` needs that order and run end together
after every statement (`Ends`), that an offer is open, and a driver of the shop named, only
while the run stands where that fits (`Fits`), and that what a request read, and the gate
it passed, are still so (`StillSo`); a request about another order disturbs none of that.
`OffersAreAnswerable` and `CourierOfARunThatLeftStays` follow from the same invariant.

**Payments.** Again every step is a payment request's or a step of `OrderMoves`
(`PayOrMove`), so `PaymentsImplementMoves`, and `PaymentsKeepTheLog` carries the theorems
about versions, history and events over. Only `commit` touches the legs
(`OnlyCommitPays`). `PaidStages` is not
inductive: a request may settle a leg with what it read long ago, and a move may
commit long after its stage was asked. `PaymentsInv` adds what a request in flight knows.
`ChecksHold`: as long as the leg has the version that was read, it is not settled.
`StagesPassed`: a move past the stage, reserved or not, has its legs settled; as settled
legs never shrink (`SettledGrows`), every other step leaves that so. `StagesArePaid`
follows, and `PaymentsKeepPromise` maps each step to `Settle`, `Reach` or a stutter of
`PaymentPromise`. `ColumnsAlwaysAgree` follows from what a commit does to the legs
(`CommitLegs`), also when it matches no row. `AuditTellsEveryChange` shows that the audit
rows of a leg are exactly its past versions, so that a commit that is not aborted is of
the current version (`CommitIsCurrent`).
`EvidenceIsKept` adds that a stored object is held by at most one submission until its row
exists, and that the catch therefore never deletes another's. `ConfirmationsAreShown` adds
that a confirmation whose leg still has the version it read holds the receipt that leg
shows (`ReviewsShown`). `OwnTransfersAreVerified` adds `PayeesAgree`: an unsettled transfer
names who is paid today, and so do a request that chooses the transfer and one that
confirms the version it read.

**Notifications.** `OneNotice` follows from `KeysAreUnique`, the unique index on the dedupe
key, and the form of the key. `NothingPublishedIsLost` needs `NotLost`: what is marked was
sent (`SentIsNotLost`), and a consumer past its inserts has told everybody it collected
(`ConsumersTell`), so that an acknowledgement never removes the last trace of an event
(`FoundStays`). `EverybodyIsTold` proves `FanOutComplete` from the same invariant.
`NoticesAreKept` maps the outbox rows, the notifications and the push rows to
`NoticePromise`: a step is `Happen`, `Tell`, `Ring` or a stutter, because whatever a publisher,
the queue or a consumer holds was committed (`Announced`) and pushes go to people already
told. `CustomersHear` needs that somebody stays (`SomebodyStays`): an owner may leave only
while another one does not, so `handleQueue` always finds a member.

**Pushes.** `PhonesRingOnce` rests on `PushInv`. Of a row that no overlap and no lost answer
excuses, at most one Worker is about to send it, and the phone rang exactly when Expo took
the message from that Worker. `FinalStatusStands` follows from the guards of the writes and
from what a Worker holds. `WhatIsSentHasRung` excuses nothing: of every row a Worker has
the good answer of, or asks the receipt of, the phone rang before (`Rung`), and
nothing takes a ring back.

**Checkout.** `ClaimsAreOwned` is the key: a call that is about to write an order holds its
id's row, empty, and no other call holds it; every other empty row is one a death left.
`OneOrderForEach` follows with the uniqueness of order ids and carts. `RedemptionsAreCounted`
counts the redemptions together with the calls that priced the promotion and have not
written yet (`Redeeming`), as each of them may still add one. `CartsAreSoldTogether` does
the like for the orders of one cart. `PlacementsKeepPromise` maps a batch to `Place`, with or
without a picture, and every other step to a stutter of `PlacePromise`. `DuplicatesAreAnswered`
needs that the id of a call that found no answer has none (`AllUnanswered`).

**Team.** `EndedMembershipsStayEnded` and `RolesAreChangedByRoleChanges` hold under any
interleaving, from what the writes restate (`MemberSteps`). So does `DeletedAccountsAreGone`,
with `Left`: no handler is about to insert a row for an account that is gone, and a sweep about
to write found no order, `raced` accounts aside; `Route` says which questions a handler has
passed on its way to a statement, and that only an invitation comes to its write without a row.
`ShopsKeepAnOwner` is about the time before any two handlers overlapped: `Quiet` says that until
then the shop has an owner, and every handler that asked may rely on the answer (`Knows`).
`SeatsStayBounded` counts the seats taken with those promised to handlers that have yet to take
theirs (`admitted`), and holds with any overlap.

**Plans.** `TiersArePaidFor` and `FreeShopsAreListed` rest on `Granted`: a row that
charges has its dates (`RowOK`), the copy gives no more than the row and takes nothing from
a free one (`CopyOK`), and what the handler read is still so (`Knows`).
`PaidShopsAreListed` rests on `HiddenOwe`: a shop out of the feed, and one that a sweep is
about to take out, has a period that ended.
`ExpressOrdersAreBounded` holds under any interleaving: the orders and the
acceptances that have counted but not spent stay `Within` the quota of one of the plans held
today and the number of acceptances that can be in flight. It needs that the copied plan, by
which an acceptance counts, is always one of those (`HeldOK`).

**Only model-checked.** The liveness properties `OfferIsAnswered`, `EventIsHandled`,
`PushIsSent` and `LapsedComesIntoLine`: liveness under fairness and ENABLED are outside what
the prover handles. Every other property of the passing runs is proved. The three
violations of section 5 are counterexamples found by TLC.

## 7. What is not modelled, and why

- Of the modelled files: queries (`list`, `queue`, `stats`, `track`) change nothing;
  `reorder` copies lines into a cart and `reportLocation` overwrites one position;
  ratings, presence and the board of open runs only influence which courier `Rank` picks;
  price books, invoices and arrears are arithmetic on rows with one writer; the storefront
  half of `businesses.ts` writes independent rows.
- `delivery-quote.ts` and `delivery-pricing-admin.ts` compute distances and prices; the
  sweep of expired road quotes deletes rows nobody reads.
- `push.ts` reads at most `BATCH_SIZE` rows in no order: that a backlog which keeps failing
  may keep others waiting is a hazard without a property.
- `mobile-configuration.ts` publishes versioned documents; two editors are its one race.
- `RateLimitRoom` is one counter in a single-threaded object, and `OrderRoom` forwards to
  sockets what was already written.
- The remaining services are rows with a single writer, whose handlers have nothing to
  interleave. User interfaces hold no state the server trusts, and `apps/api` is not served
  any more; they are most of the repository's lines.

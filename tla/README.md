# TLA+ verification of the order platform

This directory models the event-driven core of the order platform: how orders, payments,
notifications, the product catalogue and the user accounts keep their tables, their Kafka topics,
their dedup records and their caches in step while several replicas, a Lambda, retries and failures
interleave, what the gateway tells its clients of it, and what the services promise together.
The modules are translated from the TypeScript sources; `PROJECT.json` maps each definition to the
lines it stands for. TLC checks small instances, TLAPS proves the theorems for every value of the
constants.

## The system

| part | state | operations | talks to |
|---|---|---|---|
| api-gateway | rate-limit counters in Redis | proxy every request, limit requests | HTTP to all services |
| user-service | users, addresses (PostgreSQL); tokens are signed and stored nowhere | create, register, log in, renew, update, manage addresses | called by order-service over HTTP |
| product-service | products (PostgreSQL), cache entries (Redis) | list, read, price, create, update, existence check | called by order-service over HTTP |
| order-service | orders, items, outbox, processed_events | create and cancel orders, apply inventory events, relay the outbox | HTTP to user and product, publishes `order-events`, consumes `inventory-events` |
| payment-service | payments, ledger_entries, outbox, dedup keys in Redis | charge, refund, compensate, relay the outbox | Stripe, publishes `payment-events`, consumes `order-events` and `payment-events` |
| notification-service | notification_deliveries, processed_events | record and mail a notification, retry pending ones | SMTP, consumes `order-events`, `inventory-events` |
| inventory-service | (no source in the repository) | reserves stock | publishes `inventory-events` |

Every service runs as two replicas in Kubernetes. The payment and notification consumers exist a
second time as Lambda functions: payment's in a consumer group of its own
(`terraform/main.tf:148`), notification's in the group of the replicas. What makes the system hard:

* every `await` is a point where another request, handler, replica or Lambda runs; almost no
  statement takes a lock or tests what it read before;
* a service changes its tables and announces the change in two steps, through an outbox that two
  replicas poll at once;
* Kafka redelivers: offsets are committed now and then, a crash or a rebalance goes back to the last
  commit, a stalled consumer loses its partition while its handler is still running;
* deduplication is a row or a key that is written in a statement of its own, before the work
  (payment) or after it (order, notification);
* an HTTP answer of Stripe or SMTP may be lost after the card was charged or the mail sent;
* Redis is filled by readers and emptied by writers without coordination.

Correctness, component by component:

* **orders**: one `OrderCreated` per committed order, first; a confirmation only after a
  reservation; announcements match status changes; an inventory outcome is neither skipped nor
  applied twice; order numbers can be drawn again after a clash, where the replicas' day is that of UTC.
* **outbox relays**: recorded, then published, only then retired; at least once; duplicates only
  for a cause; `OrderCreated` ahead of its order's other events.
* **payments**: one charge per order; what is announced of it is true; provider, books and outbox agree; every call ends.
* **consumers**: handlers of an event start once; what is recorded or committed has been handled.
* **notifications**: SENT means mailed; every delivery is decided.
* **catalogue**: the cache shows the database; an update changes what it was asked to change;
  stale entries die.
* **gateway**: a client is told what happened to its order, or that nobody knows; a limit bounds what
  is let pass and ends; every request is answered.
* **saga**: no charge without the order, no reservation without the charge, no confirmation without
  the reservation, no refund without a failed reservation; an order is settled in the end, and who
  pays for one that cannot be served gets the money back.
* **accounts**: one account per email; overlapping updates keep to the columns they name; an account
  that stays deactivated loses its tokens.

## The modules

| module | models | state ↔ code |
|---|---|---|
| `OrderService` | `OrderService`, `OrderRepository`, `InventoryEventProcessorService`, order-service's `KafkaConsumerService` | `status`, `version`, `number`, `createdOn` are columns of `orders`; `outbox` the rows of the outbox in commit order; `processed` the rows of `processed_events` with their expiry; `zone` is the replicas' time zone, `day` the last midnight of their local time, from which creations are counted, and `date` the date of UTC, which a number carries; `createPc`, `cancelPc`, `workerPc` the point a request or handler has reached; `log`, `committed`, `owner`, `next` the partition, the group's offset, its assignee and each consumer's position |
| `OrderOutboxRelay` | `OutboxService`, `OutboxRepository`, `KafkaProducerService` of order-service | `row` is `outbox.status`, `batch` the rows one poll fetched, `producer` whether the producer connected at start-up, `stopping` is `isShuttingDown`, `copies` what the topic carries |
| `EventPublication` | the promise of an outbox, independent of any relay | recorded, published and retired events |
| `PaymentService` | `PaymentsService`, `StripePaymentProviderStrategy`, the connection pool, the provider | `status`, `refunded`, `transaction` are columns of `payments`; `ledger` the sum of its REFUND entries; `charges` (with their keys and cards), `paidBack` what the provider did; `pc`, `seen`, `answer` the locals of a call |
| `PaymentOutboxRelay` | `OutboxRelayService`, `OutboxService`, `KafkaProducerService` of payment-service | `inflight` are messages `emit` handed to the Kafka client, `topic` the rows payment-events carries |
| `ConsumerGroup` | the use of Kafka by consumers (external) | partition, groups, offsets, positions |
| `PaymentEventConsumer` | payment-service's `KafkaEventProcessor`, `KafkaConsumerService`, `lambda/handler.ts` | `keys` the dedup keys in Redis, `starts`, `handled` what handlers have done |
| `NotificationService` | notification-service's event processor, `NotificationService`, SMTP dispatcher, retry job, Lambda | `deliveries`, `processed` the two tables, `aged` how many rows are older than five minutes, `tasks` running dispatches and what each still has to do, oldest first |
| `ProductCatalog` | `ProductService`, `RedisCacheService`, `ProductRepository` | `row`, `total` the products table, `cached` the Redis entries, `copy`, `diff` the locals of a request |
| `UserAccounts` | `UserApplicationService`, `AuthApplicationService`, the users part of `UserController`, `AuthController` | `users` the table in the order of creation, `tokens` the accounts whose refresh token has not expired, `op` what a request asked for, `copy`, `diff` the locals of an update |
| `RateLimiter` | `RedisThrottlerStorage`, `ThrottlerGuard` | `hits`, `life` the counter and its time to live in Redis, `current` what INCR returned |
| `RateLimiterHistory` | the same, with a history variable | `recent`: each request of the last window's length that the guard let pass or has yet to decide, with the number INCR gave it, how often the counter has expired and how many ticks have passed since then, and since the guard decided |
| `ApiGateway` | `ProxyController`, `ProxyService`, the HTTP client and its timeout, with clients and services around them | `call` the forwarded request and its answer, `told` what the client heard last, `late` requests the gateway gave up on and order-service still works on, `orders` what order-service created |
| `OrderPromise` | what the platform promises about an order, its stock and its card, independent of any service | open, confirmed, cancelled; reserved, failed; charged, refunded |
| `OrderSaga` | `OrderService` and `PaymentService` joined by their events, with the inventory service | the variables of both, renamed where they clash, and `stock`, what became of the reservation |

`ApiGateway` and `RateLimiterHistory` extend `RateLimiter`; `OrderSaga` extends `OrderService`, instantiates `PaymentService`
and implements `OrderPromise`. `ConsumerGroup` is extended by `PaymentEventConsumer` and `NotificationService`; `OrderOutboxRelay`
instantiates `EventPublication` through a refinement mapping. `MC*` modules hold the constants of
the runs, `*Proofs` modules the theorems. An action is one awaited statement, message or HTTP call
with everything the code does up to the next one; failures are actions that consume a budget
(`MaxFaults`), and properties that only hold without some kind of fault say so by naming its counter.
Definitions commented *Mutant* are plausible bugs; each is substituted for the definition after it
to show that the property in question notices.

## The runs

| run | instance | what it shows |
|---|---|---|
| `orders` | one order, a cancellation, both inventory outcomes, two replicas, two messages, each kind of fault once; or three creations around two midnights of UTC and two of the replicas, in UTC, east and west of it; replicas symmetric | `CreatedFirst`; `ChangesAreAnnounced`: no announcement without its change, and without a failed statement or a crash no change without its announcement; `ConfirmedOnce` unless a consumer stalls; `HandledIsSettled`: for committed offsets unless a handler fails; `NextNumberIsFree`: in UTC at any time, elsewhere while the day that is counted began no later than the date in the number |
| `relay` | three rows of two orders, the oldest one never accepted by the broker, batches of two, two replicas, each kind of fault once, fairness | `RelayIsAnOutbox` (safety refinement) and `RelayDelivers` (with the abstract outbox's fairness, for the rows the broker accepts); `DuplicatesBounded`; `CreatedReachesKafkaFirst` unless a publish fails |
| `payment_relay` | two rows, two replicas, each kind of fault once, fairness | `SentReachesKafka` and `EveryRowReachesKafka` until an emission is lost or a replica crashes |
| `payment_calls` | the charge of OrderCreated and the customer's with another card, a request, a required refund and a compensation of one order, five connections, each kind of fault once, fairness | `ChargedOnce`; `OutcomeIsTrue`: a success always, a failure unless the call that announces it lost its answer or was refused for its key; `BooksAndOutboxAgree` (announced but not booked: only after a rollback or crash), `BooksWithinProvider`, `EveryCallEnds` |
| `payment_events` | an event with an id, one without, two replicas and the Lambda in two groups, each kind of fault once, fairness | `StartedOnce`, per key; `RecordedIsHandled` and `EveryEventIsHandled` unless a handler fails or dies |
| `notify` | an event, a request, a replica and the Lambda in one group, one run of the retry job, any two faults of different kinds, fairness | `HandledHasDelivery` (for committed offsets: no failed statement), `DeliveriesBounded`, `SentIsMailed`, `EveryDeliveryEnds` |
| `catalog` | two requests at a time, two changes, one overlap, one failure, fairness | `CatalogIsCurrent` and `OnlyWhatWasAsked` while requests neither overlap nor fail; `StaleEntriesDie` in any case |
| `accounts` | one email, two requests at a time and any number of them, a failure at any step, fairness | `UpdatesKeepOtherFields`; `DeactivatedIsLockedOut` and, once that has come about, `LockoutLasts`; `TypeOK`, which bounds the accounts by the emails |
| `gateway` | a buyer and a reader behind one counter, limit two, window two ticks, three forwarded orders, one request that ends half way, fairness | `CounterExpires` and `LimitEnds` unless a request ends between INCR and EXPIRE; `AnswersAreTrue`; `RequestsEnd` |
| `limiter` | two clients that may take any time between INCR and the guard, limit two, window three ticks, one request that ends half way | `AdmittedIsBounded`: in any period as long as the window the guard lets pass fewer than twice the limit of the requests counted in it, and at most one of each client that was counted before. Both bounds are reached: three and two |
| `saga` | one order, OrderCreated delivered twice, both inventory outcomes, a cancellation, the compensation, a crash of order-service, a lost answer and a failed statement of payment-service, fairness | `SagaKeepsPromise` whatever happens; `OrdersAreSettled` unless the card is refused or something fails; `FailuresArePaidBack` unless something fails or the compensation comes before the payment |
| `order_revived` | *violation* of `CancelledIsNeverConfirmed` | a cancelled order is confirmed |

**Bounds.** Each hazard needs two actors on one order, row, event or key and at most one fault of a
kind at the wrong moment: two replicas, two messages or rows and one fault of each kind contain all
pairs. The partition is two messages long, so that an event can be published twice and a redelivery
can meet its own handler. `orders` looks at one order with all that can
happen to it or at several that are created, not at both (`OneOrSeveral`): what happens to an order
once it is there neither takes nor frees a number. `zone` says which midnight comes first, the local one
or that of UTC; two of each, in turns, show every order of a creation and the two. That the provider replays
the answer of a charge it knows with the same card is what the copy of OrderCreated in `saga` meets.
`Amount = 3` with refunds of 1 and 2 lets refunds overlap, add up, and
exceed what is left. Five connections in `payment_calls` are one for each call, the fewest that
cannot be exhausted by calls in a transaction (what happens with fewer is among the departures
below). In `relay` the poisoned row leaves one place of a batch to the others; as many poisoned rows
as a batch holds stop the relay (see the departures). In `gateway` the limit is reached by two
clients, expires and is reached again, and the buyer can repeat an order that was created behind its
back; in `limiter` a window of three ticks lets a request wait over two expiries of the counter within
the life of one period. `saga` has one delivery too many of OrderCreated and one message in `inventory-events`: repeated
messages are the subject of `orders`. `accounts` bounds only the requests in progress: rows are as many as emails, and requests that
have ended make room for others. A batch holds one or two rows, so that the limit takes effect. In `accounts`,
`gateway` and `limiter` the clients never run out of requests, and deadlock is checked; in
the other runs TLC stops at the counters' bounds (`MaxLog`, `MaxDay`, `MaxFaults`, `MaxChanges`,
`MaxOverlaps`, `MaxDeliveries`, `MaxRequests`, `MaxBreaks`, `MaxAttempts`), and requests that have ended stay ended, hence
`CHECK_DEADLOCK FALSE` there. Symmetry is used only in `orders`, which checks nothing but invariants.

**Fairness** is weak, and per process. kafkajs keeps fetching and committing and a consumer that is
behind gets the partition back; Node runs a call on as soon as what it waits for is there; the
relays poll on an interval (two and ten seconds); the retry job fires every minute; Redis drops
expired keys; Kubernetes restarts a pod; a stopping process exits; tokens run out. In the saga an event that
is in an outbox reaches its readers, and the inventory service answers. No fairness is
assumed of clients, of the services behind the gateway, of faults, of reconnecting a producer that never
connected, or of a Lambda's background dispatch once the handler has returned.

## What is proved

TLAPS checks, with no assumption beyond the ASSUMEs of the modules (finite sets, typed constants,
UUIDs that name one event, a client key that names one order), for any number of orders, rows, replicas, calls and faults:

| module | theorem | argument |
|---|---|---|
| `OrderProofs` | `TypeCorrect` | `TypeOK` with `WorkerInv` (a busy consumer's position is inside the log) |
| | `OrderCreatedComesFirst` | `RowInv` ties an order's row to the step of its creation, so the outbox only grows behind the first `OrderCreated` |
| | `AnnouncementsMatchChanges` | `ChangesInv`: rows written, plus calls and handlers that owe one, are as many as the changes of the order; a fault can only lower the sum (`CancelBalance`, `WorkerBalance`, by cardinalities) |
| | `ConfirmationIsAnnouncedOnce` | `ConfirmInv`: without a stall only the partition's owner is in its handler, and the order it is about to confirm has no `OrderConfirmed` yet, because one in the outbox means the order is settled |
| | `NoOutcomeIsSkipped` | `OutcomeInv`: from the update on, a handler's order is settled, and a settled order stays settled (`SettledStays`); `PassedInv`: until a handler fails, every message passed over is settled; a consumer restarts at `committed`, which never exceeds what was passed over |
| | `NextNumberStaysFree` | `NumberInv`: the orders since the last local midnight have numbers of the current date up to their count, as long as that day began no later than the date (`DayCoversDate`), and only a number that is free is inserted; a midnight that makes the two days agree again starts a date without numbers |
| | `SagaIsOrderService`, `SagaIsPaymentService`, `NoOutcomeIsSkippedInSaga` | every step of the saga is a step of order-service or leaves it alone, and so for payment-service: the theorems about each hold in the saga |
| | `PromiseIsKept` | `CausalInv`: a charge call that has started has its order, a compensation its failed reservation, a message of `inventory-events` the outcome it reports, a reservation its charge, a refund a failed reservation; with `CreatedFirst` and `OutcomeIsTrue` of the two services each step maps to one of `OrderPromise` or to a stutter |
| `OrderOutboxRelayProofs` | `TypeCorrect`, `NoRowRetiredUnsent` | `PublishedInv`: whoever is about to mark the row it is at has published it |
| | `RelayImplementsOutbox` | the same invariant and `FetchedInv`; each step maps to Record, Publish, Retire or a stutter |
| | `CreatedIsPublishedFirst` | `CoveredInv`: a connected replica that holds a row holds its order's first row too or Kafka has it, because the batch is a prefix of the pending rows (`OlderIsFetched`, by cardinalities) |
| | `DuplicatesHaveACause` | `CopyInv`: while a row is PENDING its copies are at most the replicas about to mark it plus the faults; once it is SENT, its copies and the replicas that still hold it unpublished are at most the replicas plus the faults |
| `PaymentKafkaProofs` | `RelayTypes`, `SentRowsReachKafka` | what a replica has emitted is in the topic or in flight, and deliveries only move it from one to the other |
| | `ConsumerTypes`, `HandlersStartOnce`, `RecordedEventsAreHandled` | starts of a key are at most the expiries plus one while it is set; until a consumer dies or a handler fails, a handler leaves its event only by handling it |
| `PaymentServiceProofs` | `TypeCorrect`, `CardIsChargedOnce`, `AnnouncedOutcomesAreTrue`, `OutboxAgreesWithBooks` | the provider holds one charge per key and the key is the order; `AnswerInv`: a call's answer `success` has an accepted charge and a failure that the provider decided a rejected one, whatever other calls lost or were refused, and the provider decides a key once; `AnnouncerInv`: the call of a row in the outbox keeps the answer it announced (`AnnouncedStays`); an announced call has its row in the outbox before it commits, and only a rollback or a crash takes a call out of its transaction after that |
| | `BooksNeverExceedProvider` | `SumInv`: the ledger plus the refunds the provider has paid and the books do not hold yet is at most what was paid back, and equal to it until a fault; the sum over the refunds in flight is the cardinality of the set `Units`, one element per unit of money, so that no recursion is needed |
| `NotificationServiceProofs` | `NotificationTypes` | `TypeOK` with `InHand` (a busy consumer's position is inside the log) |
| | `SentWasMailed` | `SentInv`: a dispatch that holds the answer SENT for a delivery is at one that was mailed, and `mailed` never shrinks, so it does not matter how many dispatches are at the same delivery |
| | `HandledWasDelivered` | `HandledIsDelivered`: a consumer marks an event only after the delivery is in the table; until a statement fails, a position has passed only events that have theirs, and a consumer restarts at `committed`, which is one of these positions |
| | `DeliveriesAreBounded` | `CopiesAccounted`: as long as an event is not recorded, its deliveries and the handlers about to make one are at most the groups whose present owner is at it, plus the faults; a consumer that loses the partition while it handles the event has stalled, one that leaves it undone has failed or crashed (`Blamed`), and after the record nobody starts again |
| `ProductCatalogProofs` | `CatalogTypes` | what a request reads, from the cache or the table, has the form of a row (`HasReadType`) |
| | `CatalogStaysCurrent` | `OrderlyInv`: while nothing overlaps or fails, one request is in progress, and the only keys that may be stale are those it has yet to delete (`Doubtful`); what it is about to put into the cache is current |
| | `UpdatesDoWhatWasAsked` | `CopyFollows`, from the same invariant: what the update starts from is the row, so the columns that differ are those of its DTO |
| `UserAccountsProofs` | `TypeCorrect`, `EmailsAreUnique` | `EmailInv`, which holds by the unique column alone; more accounts than emails would contradict it (pigeonhole), so `TypeOK` follows from both |
| | `UpdatesKeepFields` | `WriteInv`: what an update is about to write is what its request named |
| | `LockoutIsFinal` | no request comes to sign tokens for an account that is not active (`SignersStep`), and only such a request gives it any (`TokensStep`) |
| `ApiGatewayProofs` | `TypeCorrect`, `GatewayUsesLimiter`, `CountersExpire` | every step of the gateway is one of the limiter or leaves it alone; the request that created a counter stays before its EXPIRE until it runs it |
| | `AdmittedAreBounded` | `WindowInv`: the requests of one counter have different numbers, and those let pass none above the limit; those of an expired counter were counted at least as long ago as the running one has lived. What was counted and let pass in one period therefore has one of 2 × `Limit` pairs of a number and an expiry, and not that of the request that opened the earlier counter, which is a window old when it expires (`TwoWindows`, by cardinalities). `ClientInv`: a client has one request between INCR and the guard, so of those it was let pass in the period only the first can be older (`OnePerClient`) |
| | `BuyersAreToldTheTruth` | a request in progress has not been counted as unanswered, and the client was told nothing final before it |

Where an invariant carries a condition on a fault counter, its proof uses a lemma (`FaultsStay`,
`FailuresStay`, `OrderlyStays`) that counters never go back, so the condition held in every earlier
state.

`RateLimiterHistory` conjoins each step of the limiter with what it notes in `recent` and bars none of
them: whatever state the history is in, every step of the limiter has one here. That a behaviour of
the limiter has a history is argued from that and not proved.

Every invariant, action property and safety refinement that a passing run checks is stated by a
theorem. Only
model-checked: the liveness properties (`RelayDelivers`, `EveryRowReachesKafka`, `EveryCallEnds`,
`EveryEventIsHandled`, `EveryDeliveryEnds`, `StaleEntriesDie`, `DeactivatedIsLockedOut`, `LimitEnds`,
`RequestsEnd`, `OrdersAreSettled`, `FailuresArePaidBack`), as the prover has neither fairness nor
ENABLED, and the violation in `order_revived`. The modules hold no recursive definition: counts
are cardinalities. The one fold, `SumFunction` in the budget of the notification service's faults,
stands in a guard that the proofs do not look into.

## Where the code departs from its documents

One disagreement has a run of its own, `order_revived`. For most of the others the condition in a
property is the evidence: delete it and TLC shows the trace. Such a condition leaves the fault out of
what the property says, so the harm itself is described here and shown by no passing run; so are the
worst cases of poisoned rows, of a producer that never connects and of a pool that runs out.

* `order_revived`: `inventory-event.processor.service.ts:141` updates by id what it checked at :132,
  so an order cancelled in between is confirmed, against its own log line at :135.
* `order.repository.ts:133` counts from the local midnight for a number that carries the
  date of UTC (:129), against :132 "Get count of orders
  created today for sequence number" (`NextNumberIsFree` without `DayCoversDate` fails). At UTC+7 every creation between the
  local midnight and midnight UTC draws a taken number once one of that date exists, as no creation succeeds
  and the count does not grow. A container without TZ runs in UTC, where it does not
  happen; nothing in the repository says that it has to. West of UTC the
  count goes on at midnight UTC and restarts at the local midnight, and the same happens when the orders since
  then get as far as a number drawn between the two.
* `payments.service.ts:158`: the charge of OrderCreated sends 'tok_mock_default'
  (order-service's event names no card), POST /payments/charge the customer's, both under the order's id
  as the provider's key (:80). Stripe refuses a key that it knows with other parameters, or that it is still
  at work on, `stripe-payment-provider.strategy.ts:63` makes that a failed charge, and PaymentFailed is announced
  for a card that was charged, against DESIGN_ARCHITECTURE.MD.md:108 "tell everyone if payment worked"
  (`OutcomeIsTrue` without "refused" in `Misled` fails with no fault at all).
* `order.service.ts:216/224`: status and announcement are two transactions; a failure in between
  leaves a change nobody hears of (`ChangesAreAnnounced`), against
  DESIGN_ARCHITECTURE.MD.md:280 "either both happen or neither does".
* `inventory-event.processor.service.ts:132`: after a stall two consumers confirm and announce the
  same order (`ConfirmedOnce`), against :472 "Idempotent (repeat-safe) event handling everywhere".
* order-service `kafka-producer.service.ts:46`: a producer that does not connect at start-up never
  does, so a deployment started during an outage of the broker publishes nothing for as long as it
  lives, against :471 "no risk of 'saved but never announced.'". `RelayDelivers` holds as one of the two replicas connects.
* order-service `outbox.repository.ts:40`: a row that fails is fetched again by every poll, ahead of
  all newer ones, and nothing counts its attempts; as many rows the broker never takes as a batch
  holds stop the relay for good (`RelayDelivers` fails with `Poisoned` of the size of `Limit`).
* payment-service `outbox-relay.service.ts:44`: rows are SENT before Kafka answers; a refused
  emission or a crash loses the event (`SentReachesKafka`), against the comment at :53 "leave as PENDING".
  Its locks end with the fetch (`outbox.service.ts:38`), against the comment at :9 "FOR UPDATE SKIP
  LOCKED", and every emission draws a new event id (`kafka-producer.service.ts:39`), so consumers
  cannot recognise a copy (:286).
* `payments.service.ts:116`: the outbox row is not part of the transaction it stands in; a rollback
  leaves an announcement of nothing (`BooksAndOutboxAgree`), against :89 of the file. The same early
  row lets a compensation arrive before the payment exists and be skipped (:193), so the card is not
  refunded (`FailuresArePaidBack`), against DESIGN_ARCHITECTURE.MD.md:213 "refund the card (undo the
  charge)". The router that :217 names, from `inventory-events` to `payment-events`, is not in the
  repository.
* `payments.service.ts:281/285`: overlapping refunds add to the same `refundedAmount` they both read,
  and one of them is lost (`BooksWithinProvider` allows `refunded` below `ledger` for that reason).
* order-service subscribes to `inventory-events` alone (`kafka-consumer.service.ts:60`): after a
  PaymentFailed nobody settles the order (`OrdersAreSettled`), and an order its customer cancels after
  the charge is not refunded, as nothing publishes the RefundRequired that
  `kafka-event.processor.service.ts:68` of payment-service waits for.
* `throttler.ts:34/36`: INCR and EXPIRE are two commands; a request that ends between them leaves a
  counter without an expiry, and its clients blocked (`LimitEnds`). The windows are fixed, so all but twice
  the limit passes within one window's length, and with requests that are slow between INCR and the
  guard one more for each of them (`AdmittedIsBounded`), against the "short rolling
  window" of DESIGN_ARCHITECTURE.MD.md:339. A client is one request in progress at a time; whoever
  sends several at once counts as several.
* `proxy.controller.ts:37`: a POST /orders that times out is answered like one that never arrived, and
  its repetition is a second order, as no one looks at `requestId` (`AnswersAreTrue` counts them).
  `getProducts` sets `Cache-Control: public` before it knows whether the answer is an error (:60).
* `payments.service.ts:90/286`: a transaction holds a connection while it waits for the row lock of
  another call, and `outboxService.append` (:116, :300) asks the same pool for a second connection
  without a timeout; as many concurrent calls as the pool has connections wait for each other for
  ever. `EveryCallEnds` fails with `PoolSize` 2 and two charges; DESIGN_ARCHITECTURE.MD.md:347 calls
  running out of free connections "a common, easy-to-miss cause of slow responses".
* `stripe-payment-provider.strategy.ts:63`: a lost answer, too, is recorded as a failed payment of a charged
  card (`OutcomeIsTrue`); :90 takes a refund that is pending or canceled for one that was paid, and the
  books count it.
* payment-service `kafka-event.processor.service.ts:49`: the dedup key is set first and stays when the
  handler fails, so the redelivery is skipped (`RecordedIsHandled`), against :287 "IDs I've already
  handled"; an event without an id has one key for the replicas (:46) and one for the Lambda, which
  passes no offset on, and is handled under both (`StartedOnce` is per key), and the Lambda's key is that of
  every such event of the partition; the Lambda handler (`lambda/handler.ts:58`) swallows errors, against :463.
* notification-service `kafka-event.processor.service.ts:110`: delivery and mark are two statements, so
  an event may be mailed twice (`DeliveriesBounded` names the causes); errors are swallowed
  (`HandledHasDelivery`); and a slow dispatch and the retry job overwrite each other's status
  (`notification.service.ts:114`), so a FAILED delivery may have been mailed, against :110 "track what
  was sent". `SentIsMailed` is the direction that holds.
* `product.service.ts:52/91`: a late fill puts an old value back in the cache (`CatalogIsCurrent`), and
  an update that starts from a stale entry writes the old value back to the database
  (`OnlyWhatWasAsked`), against DESIGN_ARCHITECTURE.MD.md:341 and "order-platform-design (4).md:134".

## Not modelled

* the gateway's block key, which only sets a header; guards, policies (`policy.service.ts`, the JWT
  strategies), configuration and health checks: decisions on one request or on none, without state.
* the topics, relays and consumers between the services of the saga: a row in an outbox is read
  sooner or later, and possibly again, which is what the modules of the relays show without faults;
  what the faults of a relay or a dedup key do to the saga is not composed.
* the addresses of user-service: `addAddress` inserts a row whatever the others are (a second default
  address stays beside the first), and nothing in the code reads more than one request wrote.
* order items, prices, addresses, mail texts: data no property looks at. A remote validation that
  refuses or times out is a creation that fails.
* the schema of `users` is the entity's (`user.entity.ts:16` makes the email unique); production
  does not synchronise it and the repository holds no migration for it. That an update does not touch
  the columns its request leaves out rests on the DTO's class fields (`target` ES2023), which are own
  properties with the value `undefined` that `Object.assign` copies and TypeORM skips.
* the mock provider, which knows no keys: the provider modelled is Stripe, its library's own repetition of a
  conflicting request (409) included in the time a request takes. A card token Stripe does not know, as
  'tok_mock_default' would be to a live account, is a request turned away unread. `processing` counts
  as a success (`stripe-payment-provider.strategy.ts:6`), and is taken for a charge that was accepted.
* inventory-service, Stripe, SMTP, Kafka, Redis and PostgreSQL are external and modelled by what the
  code can observe of them.
* a second order per idempotency key (listed as a hazard with the reason), messages that are no JSON,
  and a consumer group's first offset.

## Plan

1. *(done)* `OrderService`, `OrderOutboxRelay` with `EventPublication`, then payments, consumers,
   notifications, the catalogue and the accounts, each with its runs, and their proofs.
2. *(done)* the gateway's limiter and proxy; poisoned outbox rows; the order saga over `OrderPromise`,
   with the proof that the services implement it.
3. open: the saga with the relays and the dedup keys in between, that is with their faults; two orders
   that share an idempotency key; the addresses of user-service.
4. *(done)* the invariants of the notification service, the catalogue and the rate limiter proved.
5. open proofs: the safety half of the liveness properties, which steps may bring back what has to
   end (done for the accounts: `LockoutLasts`), and that the relay of payment-service, too, implements `EventPublication` until an emission
   is lost.

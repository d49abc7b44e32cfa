# A specification of the order saga

TLA+ modules of the three services of this repository, the TLC runs that check
them on small instances and the TLAPS proofs about them.

## The system

A customer orders a product with `POST /v1/orders`. Three services, each with a
database of its own, settle the order by exchanging events over Kafka; nobody
coordinates them.

```
 client --> orders-service --orders.created--> inventory-service
               ^   ^  |                          |   |   ^
               |   |  +--orders.confirmed------->|   |   |
               |   +-----inventory.insufficient-stock|   |
               |   +-----inventory.released----------+   |
               |                                 |       |
               |                       inventory.reserved|
               |                                 v       |
               +--payments.authorized-- payments-service-+ payments.denied
```

| component | state | operations | hard because |
|---|---|---|---|
| orders-service, HTTP (`middleware`, `handler`, `service`, `repository`) | Redis keys, `orders`, `outbox` | create an order under an `Idempotency-Key` | Redis fails open, loses replies, expires keys; COMMIT may be lost; the two stores are not atomic |
| orders-service, status | `orders.status`, `outbox` | `ConfirmOrder`, `CancelOrder` | messages late, repeated, from topics without a common order |
| inventory-service, endpoints | `products`, `stocks` | create product, create stock, PATCH quantity | absolute quantities written over reservations; 32-bit sums |
| inventory-service, reservations | `stocks`, `stock_reservations`, `outbox_events` | reserve, release, confirm | no status is checked before it is overwritten; duplicates are found through the outbox; amount overflows |
| payments-service | `payments`, `outbox_events` | decide a payment once | the check is outside the transaction that it guards |
| Go outbox relay (two services) | outbox rows: status, retries, `locked_at` | poll, lease, send, mark | crash between send and mark, stale leases, two instances |
| Go Kafka consumers (two services) | position, committed offset | fetch, handle, commit | failing handlers and commits, restarts, rebalances |
| inventory-service relay (`@Scheduled`) | outbox rows: status, retries | find, lock, send, mark, all in one transaction per batch | rollback after sending, two instances with the same batch, counts read long before they decide |
| inventory-service listeners (Spring Kafka) | position, batch, attempts, committed offset | poll, listen, commit each record (`AckMode.RECORD`) | ten attempts and skip; records that do not parse; eviction in the middle of a batch |

What must hold: one order per idempotency key; an order CONFIRMED only when paid
and reserved, CANCELED only when refused or compensated; stock neither created
nor lost; the customer charged once, for what was ordered, under the card limit;
no outbox event dropped silently; and every order and reservation settled in the
end, unless an event of theirs was given up.

## The modules

| module | models | built on |
|---|---|---|
| `SagaEvents` | the events, one constructor per topic, and the inputs | |
| `Orders` | orders-service: the endpoint, Redis, `orders`, the methods behind the consumers | `SagaEvents` |
| `Inventory` | inventory-service: endpoints, reserve, release, confirm, one step each | `SagaEvents` |
| `Payments` | payments-service: the decision, one step | `SagaEvents` |
| `Saga` | the three composed through Kafka, relays and consumers abstracted | `Orders`, `Inventory`, `Payments`; instantiates `SagaOutcome` |
| `SagaOutcome` | abstract: what the saga promises about an order's status, goods and money | |
| `StockTransactions` | the transactions of inventory-service, statement by statement, several threads | `SagaEvents`; instantiates `Inventory` |
| `PaymentTransactions` | `ProcessPayment`, statement by statement, several consumers | `Payments` |
| `Outbox` | abstract: what an outbox and its relay promise | |
| `OutboxRelay` | the relay of the Go services, statement by statement | instantiates `Outbox` |
| `InventoryRelay` | the relay of inventory-service, statement by statement | instantiates `Outbox` |
| `KafkaConsumer` | the consume loop of the Go services, call by call | |
| `SpringListener` | the listener containers of inventory-service | |
| `SagaInvariant` | the inductive invariant of the saga | `Saga` |
| `OrdersProofs`, `SagaProofs`, `StockTransactionsProofs`, `PaymentTransactionsProofs`, `OutboxRelayProofs`, `InventoryRelayProofs`, `KafkaConsumerProofs`, `SpringListenerProofs` | theorems and proofs | the module of that name |
| `MC*` | instances for TLC | the module of that name |

```
   SagaOutcome                       Outbox
       ^ ImplementsOutcome          ^      ^  KeepsPromise
     Saga = Orders + Inventory + Payments  |
                     ^             ^    OutboxRelay, InventoryRelay
        StepsAreAtomic       DecisionsAreAtomic
                     |             |    KafkaConsumer, SpringListener
        StockTransactions    PaymentTransactions
```

### How they correspond to the code

**Orders.** One action per outcome of the handler chain. The middleware
(`IdempotencyMiddleware`: stored, refused, or Redis failed, with the key stored or
not) is one step and the handler another, because Redis and MySQL are separate:
other requests and `ExpireKey` come in between. go-redis sends a command again when
its reply is lost, up to three times, as `MustConnectRedis` leaves `MaxRetries` alone:
in `ResentSetNX` the first SETNX stored the key and a later one meets it, a 409. The
attempts are one step; what another request does between them changes only whose key
is met, and both outcomes are there. Then `RejectBody` (400),
`CreateOrder` (the transaction; 202, or 500 when COMMIT's answer is lost),
`DuplicateOrder` (MySQL 1062: 409) or `CreateOrderFails` (500, rolled back). A
transaction is one step, as nobody sees it before COMMIT and the deferred
Rollback undoes it on each early return. `requests` holds what the client was
told, and in `metOwnKey`, a history variable, whether a 409 was of that last kind. The id of an order is that of its request: `uuid.New()` is fresh, and a
request creates at most one order. What `OrdersSpec` adds is an environment
that sends any confirm or cancel message at any time.

**Inventory.** Each `@Transactional` service is one step, which is what
`StockTransactions` shows of their statements. Exceptions and violated CHECKs roll back: the action is not taken.
`ReserveStock` is `AlreadyProcessed` (the query on the outbox) and then
`AnswerOrder`, the early returns in their order. `Wrap` is Kotlin's `Int`. The
outbox is a set of events, as in the other services: rows are never deleted, and one
order has one event per topic. A set does not tell a second, identical row from the
first, which would only be delivered once more: what every consumer tolerates of a
message it has had (`WorkIsDoneOnce`). `supplied` is a history variable: what administrators put in.
What they enter is a Kotlin `Int` (`KotlinInts`), as in the request classes. Held units
are counted as the elements of a set of pairs, an order and a number, so that
proofs need no sum over orders.

**Payments.** `evaluate` and the insert of payment and event. Check and insert
are one step, which is what `PaymentTransactions` shows of the statements.

**Saga.** `published` grows only; `Deliver` hands any published message to the
handler its topic is wired to, at any time, any number of times. This covers
redelivery after a restart or rebalance, an event sent twice by a relay, and the
absence of an order between topics or partitions. `GiveUp` (dead letter) and
`Skip` (a consumer that passes over a message) are the two ways to lose an
event. Tracing, timestamps, user and payment ids are left out.

**StockTransactions.** `tx` is what each thread's transaction has read: its job
(reserve, release or confirm), the order, the stock row it has locked and the
quantity it saw there. `Begin` stands for the reads before the lock
(`existsByAggregateIdAndAggregateType`, the product, `findByOrderId`), one step
because nothing that they read of an order is ever undone. `LockStock` is
`findByProductIdWithLock`: it waits while another transaction has the row and then
reads its latest version. `CommitReserve`, `CommitRelease` and `CommitConfirm` are
the writes, which Hibernate flushes just before COMMIT. `Rollback` is any exception
or crash. `UpdateStockQuantity` is not transactional in the code: a read without a
lock and without an influence, and one UPDATE, which waits for the row. `rows` is a
sequence per order, as nothing in the table forbids a second reservation.
Products and stock rows exist from the start. A Kafka group hands a message to one
thread, unless it takes a listener for dead that is still at work: `overlaps`
counts those cases, and `MaxOverlaps` bounds them.

**PaymentTransactions.** `ExistsByOrderID`, with the rules that follow it; INSERT of
the payment, which waits while another transaction has inserted the same
`order_id` and fails if one was committed; INSERT of the event and COMMIT. Any
number of threads may have messages about the same order, whatever the reason.

**OutboxRelay.** `status`, `retries`, `expired` (is `locked_at` older than five
minutes) are the table, `batch` and `outcome` the memory of each relay. A
database transaction is a step and so is a call to Kafka. A write reported as
failed may have been stored. Rows are numbered by `created_at`, so that a batch is
a set that the relay takes in order. `Crash` also stands for a leasing transaction
whose COMMIT was not acknowledged: rows PROCESSING and nobody sending them. The
two services differ only in names and in `max_retries` (3 and 5).

**InventoryRelay.** `relay()` is one transaction. `rows` is what is committed,
`writes` what each relay's transaction has changed (and so locked), `batch` the
events as `findPendingEvents` read them. That query locks nothing; `lockEvents`
waits for rows another transaction has changed, and its count is ignored, so the
relay goes on to send what it did not lock. `Mark` is one UPDATE by id;
`chk_retries` makes it throw when the count would pass `max_retries`. Whether
the event is given up is decided on the count of `batch`, and the last failure is
not counted. `Rollback` is anything that aborts the transaction: the marks are
gone, what was sent to Kafka is not. The condition on `locked_at` in the query is
left out: no committed row has one, which is part of the type invariant.

**KafkaConsumer.** One partition and its reader. kafka-go is external and
modelled from its use: `FetchMessage` advances a position in memory, and the
committed offset is read only on joining the group (`Restart`, `Rebalance`).
`CommitInterval: 0` makes a commit synchronous, and it sets the offset to that of
the message plus one, even when that is behind.

**SpringListener.** One partition and the listener threads that may own it.
spring-kafka is external: `KafkaConfig` asks for `AckMode.RECORD`, and what it
leaves alone is `DefaultErrorHandler` with its ten attempts (`SeekBack`, then
`Recover`, which commits the record). `Poll` returns a batch that ends before a
record that `JsonDeserializer` cannot parse, because no
`ErrorHandlingDeserializer` is configured; at such a record no step exists. An
instance that was evicted finishes the record it is at, and the broker refuses its
commit; it joins again only when it polls.

### What ties the pieces together

Four refinements, each checked by TLC; of each the steps are also proved.

- `ImplementsOutcome`: `Saga` implements `SagaOutcome`. An order is answered once
  it is placed, paid only for goods set aside, confirmed only when paid, canceled
  only when refused or released; each of this happens once, whatever is lost,
  repeated or reordered.
- `StepsAreAtomic`: while no message is in the hands of two threads, each COMMIT
  of `StockTransactions` is one step of `Inventory`, and every other statement a
  stutter. This is the licence to compose the saga of whole handlers.
- `DecisionsAreAtomic`: the same of `PaymentTransactions` and `Payments`, without
  a condition.
- `KeepsPromise`: each relay implements `Outbox`, liveness included. `Saga`
  assumes of a relay what `Outbox` says: only saved events are published, and each
  is published or given up. `SagaRelaysAreOutboxes` proves that the saga keeps the
  same promise: with the three outboxes as one, and a dead letter that reached Kafka
  not counted as lost, each of its steps is a step of `Outbox`. So the relays of the
  code and those of the saga have one abstract specification. That the saga leaves
  its relays as free as `Outbox` does is seen by reading: `Publish` is the same
  action, and a dead letter may still be published.

The services alone are tied to the saga by proof: the saga implements `OrdersSpec` and
`InventorySpec` (`OrdersInTheSaga`, `InventoryInTheSaga`), whose environments may send
any message at all.

`Saga` assumes of a consumer that a message is handled or skipped. `KafkaConsumer`
and `SpringListener` show this of the two loops (`EveryMessageIsHandled`,
`RecordsSettle`; `CommittedIsHandled`, `CommittedIsSettled`); here the
correspondence is by reading, as the saga has no offsets. A skip is, in a Go
service, a handler error followed by a later commit; in inventory-service, ten
failed attempts, or a record behind one that does not parse.

## The runs

| run | configuration | what it shows |
|---|---|---|
| `orders_api` | `MCOrders.cfg` | one order per key, 202 means stored, 409 that nothing was bought and, a re-sent SETNX apart, that another request came first; the outbox says what the table says |
| `inventory_service` | `MCInventory.cfg` | units accounted for under any message sequence, one answer and at most one release per order |
| `saga_safety` | `MCSaga.cfg` | the services' final states agree, stock is conserved, charges are right; no order waits for an event nobody sends, and each event has its handler act once; the invariant of the proofs holds; the saga implements `SagaOutcome` |
| `saga_liveness` | `MCSagaLive.cfg` | orders and reservations settle unless one of their events is lost |
| `saga_overflow` | `MCSagaOverflow.cfg` | *violation*: the amount overflows and the card limit is not kept |
| `stock_transactions` | `MCStockTransactions.cfg` | three threads and an administrator side by side do what `Inventory` does in single steps; a message processed twice at once loses no unit and gives back at most one order's units twice |
| `payment_transactions` | `MCPaymentTransactions.cfg` | UNIQUE (order_id) makes up for the check outside the transaction |
| `go_relay` | `MCOutboxRelay.cfg` | two relays: nothing settled without cause, settled rows touched only by a relay that lost its lease, events settle for good, `Outbox` implemented |
| `inventory_relay` | `MCInventoryRelay.cfg` | two relays: the same, through rollbacks after sending; nothing is left PROCESSING |
| `go_consumer` | `MCKafkaConsumer.cfg` | nothing committed unhandled, no message blocks those behind it |
| `go_consumer_redelivery` | `MCKafkaConsumerRedelivery.cfg` | *violation*: a failed message is not redelivered |
| `spring_listener` | `MCSpringListener.cfg` | nothing committed unsettled, records settle in order, no commit takes the group back, every record before a malformed one settles |

Two of the properties of `saga_safety` need a word. `HasWork(e)` says that the handler
of `e` still has something to do for it, in terms of the rows it will look at.
`NothingIsForgotten`: an order that is PENDING, or a reservation that is RESERVED, has
an event with work in some outbox; if no handler's early return, repetition or
reordering can leave an order without one, only a loss can, which is what the
liveness run assumes of losses. `WorkIsDoneOnce`: a delivery that changes anything is of
an event that had work and has none afterwards, and no step of any service gives
an event work again. This is the idempotency of the consumers, of which each checks
its own tables at most, and `ConfirmReservationService` nothing. Type correctness of
orders-service alone has no run: `SagaTypeOK` contains it.

### Bounds

- `MCOrders`: three requests and two keys, so that two collide while a third is
  free; quantities 0 (refused) and 1.
- `MCInventory`: two orders compete for two products; 4-bit integers
  (`HalfRange = 8`), stock levels up to 7, so that a release overflows; prices
  and levels the CHECKs refuse.
- `MCSaga`: two orders and one product at 4000 cents; one unit is under the card
  limit of 10000 and three are above it, and stock of 2 or 3 is too little for
  one or for both. An order for every payment type. `MaxLosses = 0`: a loss
  only removes behaviours from what safety looks at, as `published` messages
  need not be delivered anyway.
- `MCSagaLive`: one order, because orders meet only in the stock they want and a
  refusal settles an order too; without symmetry, which is not sound for
  liveness. Two losses, by a relay or by a consumer.
- `MCStockTransactions`: three orders of two units each of a product that starts
  with three and may be PATCHed to 0 or 7, so that one waits for another, one is
  refused and a release overflows 4-bit integers; three threads; one overlap, so
  that one message is reserved or released twice (`MaxQuantity = 2`: the largest order).
- `MCPaymentTransactions`: three consumers, two orders, an amount at the card limit
  and one above it: messages about one order that would be decided differently.
- `MCOutboxRelay`, `MCInventoryRelay`: two relays and two events in batches of two,
  two attempts, two faults: a crash of one and a stale mark of the other in one
  behaviour. In the first, one event has no writer and must become a dead letter.
- `MCKafkaConsumer`: four messages, one malformed, three faults: a failure, a
  rebalance and a late commit in one behaviour.
- `MCSpringListener`: four records, the third malformed, three attempts instead of
  ten, two instances and two faults: an eviction in the middle of a batch, and a
  restart in the middle of the attempts.

Where an instance ends at rest (every outbox row settled, every message read, or a
record that does not parse), the configuration switches the deadlock check off.

### Fairness

`Saga`: weak fairness of publishing and of delivering each pending event, as
relays poll on a ticker and consumers fetch in a loop while their services run.
Clients, administrators, expiries and losses are under no obligation. A handler
that fails for ever is not fair; it is a `Skip`, and the properties exempt its
order. `OutboxRelay`: weak fairness of `poll` per relay (the ticker), and of the
clock that makes a lease old. `InventoryRelay`: weak fairness of `relay` per
instance (`@Scheduled`). `KafkaConsumer` and `SpringListener`: weak fairness of the
loop, per instance. None asks that a send, a handler or a commit succeed; faults
are bounded by `MaxFaults`, and failed sends and attempts by the retry limits of
the code.

## What is proved

Every theorem is for all values of the constants, from the assumptions named in
the modules that declare them (the inputs are numbers, the limits at least one,
threads and relays finite in number where the proof counts them). What administrators
enter is assumed to fit a Kotlin `Int`, as the request classes hold no other numbers;
of a customer's quantity nothing is assumed, and that a reservation's fits is proved.

| module | theorem | property |
|---|---|---|
| `OrdersProofs` | `OrdersTypeCorrect` | `OrdersTypeOK` |
| | `Idempotence` | `OneOrderPerKey` |
| | `HonestAnswers` | `AcceptedIsStored` |
| | `HonestConflicts` | `ConflictHasACause` |
| | `OutboxAgrees` | `OutboxMatchesOrders` |
| | `SettledOrders` | `FinalStatusIsKept` |
| `SagaProofs` | `TypeCorrect` | `SagaTypeOK` |
| | `ProvenanceHolds` | `Provenance` |
| | `Confirmation` | `ConfirmedIsPaid` |
| | `Compensation` | `CanceledIsCompensated` |
| | `ReservationAndPayment` | `ReservationFollowsPayment`, which follows from `Provenance` and has no run |
| | `Charging` | `ChargedForWhatWasOrdered` |
| | `Finality` | `ReservationIsFinal` |
| | `OrdersInTheSaga` | `OrdersSpec`: the saga implements orders-service's own specification |
| | `OrdersPromises` | what `OrdersProofs` shows, in the saga |
| | `InventoryTypeCorrect` | `InventoryTypeOK`, of inventory-service alone |
| | `OneAnswer` | `OneAnswerPerOrder`, of inventory-service alone |
| | `UnitsAccounted` | `UnitsAreAccountedFor`, of inventory-service alone |
| | `InventoryInTheSaga` | `InventorySpec`: the saga implements inventory-service's own specification |
| | `InventoryPromises` | the last two, in the saga |
| | `StockConserved` | `StockIsConserved` |
| | `NothingForgotten` | `NothingIsForgotten` |
| | `EventualAgreement` | `AgreedAtRest`: when no event of an order has work left, it is confirmed, paid and taken, or canceled, unpaid and returned |
| | `ConsumersAreIdempotent` | `WorkIsDoneOnce` |
| | `CardLimitInRange` | `CardLimitIsKeptInRange`: a card is charged above the limit only for an amount that overflows |
| | `SagaRelaysAreOutboxes` | the saga implements `Outbox` without its liveness |
| | `Implementation` | `ImplementsOutcome` |
| `StockTransactionsProofs` | `TransactionsTypeCorrect` | `TransactionsTypeOK` |
| | `TransactionsAreAtomic` | `StepsAreAtomic` |
| | `OverlapsDoLimitedHarm` | `OverlapsAreBounded` |
| `PaymentTransactionsProofs` | `PaymentTransactionsTypeCorrect` | `PaymentTransactionsTypeOK` |
| | `PaymentsAreAtomic` | `DecisionsAreAtomic` |
| `OutboxRelayProofs` | `RelayTypeCorrect` | `RelayTypeOK` |
| | `RelaySettlesForCause` | `SettledForCause` |
| | `RelayLifecycle` | `LifecycleEnds` |
| | `RelayImplementsOutbox` | `KeepsPromise` without its liveness |
| `InventoryRelayProofs` | `InventoryRelayTypeCorrect` | `InventoryRelayTypeOK` |
| | `InventoryRelaySettlesForCause` | `SettledForCause` |
| | `InventoryRelayImplementsOutbox` | `KeepsPromise` without its liveness |
| `KafkaConsumerProofs` | `ConsumerTypeCorrect` | `ConsumerTypeOK` |
| | `NothingIsSkippedSilently` | `CommittedIsHandled` |
| `SpringListenerProofs` | `ListenerTypeCorrect` | `ListenerTypeOK` |
| | `ListenersSkipNothing` | `CommittedIsSettled` |
| | `ListenersKeepTheOrder` | `SettledInOrder` |
| | `CommitsMoveForward` | `CommittedOnlyGrows` |

### The arguments

*The saga.* None of the properties is inductive, as none says anything about
the messages still to be delivered. `Provenance` does. Every published message
is in an outbox, every event in an outbox is *still* true of the row it announced
(an order announced as confirmed is CONFIRMED, a denial's payment is DENIED for
that reason, a release's reservation is RELEASED), and every row has its cause
(a reservation its order, a payment its reservation). An event once true stays
true because rows move in one direction only, and this in turn is so because
events are true: an order becomes CONFIRMED only on `payments.authorized` and its
reservation RELEASED only on `payments.denied`, and one payment is never both.
`ReserveStock` cannot put a settled reservation back, because the outbox event it
looks for was written with the reservation. Each action has a lemma that it
preserves `Provenance`; the theorems follow from it. `Implementation` needs no more:
what a handler finds in its own tables and in the message tells it, by
`Provenance`, what the other services have done.

*orders-service.* The invariant is `OrdersInv`: the properties themselves and
three facts that relate the stores. An order belongs to a request that has its
answer and carries its key (so a request, which has one chance to create its
order, never writes over another's); Redis knows a key only from a request that
has passed the middleware (so a 409 from Redis has another request as its cause,
unless it is that of `ResentSetNX`);
an event is about an order that exists (so a new order's event is the first).
`OrdersInTheSaga` carries the results over: the messages that the saga delivers
are among those of the environment of `OrdersSpec`.

*What is still to come.* `NothingIsForgotten` goes through the rows an order may have:
without a reservation its `orders.created` has work, or its refusal has; with one but
no payment, `inventory.reserved` has; after the decision, the decision's event, the
release or `orders.confirmed`. That the event is there follows from `Provenance` for
inventory-service, from `OutboxMatchesOrders` for orders-service and from
`DecisionsAreAnnounced` for payments-service, each an invariant that a row and its
event are written together. For `WorkIsDoneOnce`, that work once done is not
undone is read off `SagaOutcome`, in which status, goods and money of an order move
forward only, and off the outbox of inventory-service, which only grows; that no other
step makes work for an old event needs that a refusal is of an order that exists
(`AnswersAreOfOrders`) and that a `payments.denied` or `orders.confirmed` has a
reservation. That a delivery without work changes nothing is plain for the handlers
that check; for `ConfirmReservation`, which does not, it is `Provenance` once more: a
confirmed order's reservation is not RELEASED, so it is written over with itself.

*The card limit.* The price times the quantity is computed in one service, judged in
another and owed by the order of a third. Below 2^31 it is not changed by `Wrap`, the
event and the payment carry it unchanged, and the rules compare it with the limit. So
`CardLimitIsKept` fails for the overflow of `saga_overflow` and for nothing else.

*inventory-service alone.* An order's answers and releases are at most one, and its
reservation is there if and only if it was answered with one; `ReserveStock` and
`ReleaseStock` look at exactly these events before they add one. Units are counted as
the cardinality of a set of pairs (order, number), so that a reservation adds a block
of `quantity` pairs, disjoint from the others, and the first release of its order takes
that block away. The count is inductive with `ReservationsAreBacked`: a reservation's
quantity is at least one and was in stock, so that it and the stock fit an `Int`, and
the sum of a release either is exact or is negative, and then CHECK aborts it. In the
saga a reservation is RELEASED exactly when its release was announced, which turns
the count of inventory-service into `StockIsConserved`.

*Its transactions.* `TransactionsInv` says that what a transaction has read is
still good. A locked row is as its transaction saw it (`LocksHold`: one holder, and
nobody else, PATCH included, writes it). A reservation that was found stays
(`ReservationsStay`). And while `overlaps = 0`, no other thread does the same job
for the same order, so that its idempotency check is not answered behind its back,
and a row exists only with its event (`ChecksStayTrue`). Then the guard of
`Inventory`'s action holds at COMMIT, and the writes are those of the action.

*Messages in two hands.* Reserving twice takes two blocks of units and holds two, so
it keeps the balance; only releasing twice gives back what was given back. The units in
excess are never negative, and at most `MaxQuantity` for each overlap that is not
still to do its harm (`Spare`): every release under way of an order that is released,
or that another thread is about to release, stands for an overlap of its own. Such a
release turns one of these into at most one order's units of excess when it commits;
a thread that begins one is an overlap more; and the first release of an order makes
those that wait behind it its spares.

*Payments.* `InsertedIsAlone`: the transaction that has inserted is the only one
that has, and no payment of its order is committed. The idempotency check does not
occur in the argument.

*The Go relay.* `RemembersRightly`: a relay has an outcome only for the first event
of its batch, and "written" is true of it. With this `SettledForCause` is inductive,
though a mark may come after the lease, because it says nothing about who holds the
row. For `Outbox`: a DEAD_LETTER that another relay overwrites is one that was
published or is given up once more, and `GiveUp` allows for that.

*The relay of inventory-service.* Here a relay decides DEAD_LETTER on a count that
may be old, and an aborted transaction takes counts back. `CountsRightly` bounds
both: a row, as any transaction sees it, has counted at most the failures there
were, less those that some relay is still about to mark. Together with
`RemembersRightly` (a remembered count is at most the row's), `WritesRightly` (a
transaction never lowers a count and settles only for cause) and `LocksExclude` (no
two have changed the same row) this gives `SettledForCause` after every COMMIT, and
that no `chk_retries` is violated by what is committed.

*The consumers.* A commit covers all that is before it, so the invariants say what
is behind the loop: below the committed offset, below the position and below the
message in hand all is settled. In `SpringListener` this holds of each instance,
also of one that was evicted, and the owner is never behind the committed offset.

### Only model-checked

Liveness, which is out of the prover's reach: `OrdersSettle`,
`ReservationsSettle`, `SettlesForGood`, `EventsSettle`, `EveryMessageIsHandled`,
`RecordsSettle` and the liveness of `KeepsPromise`. Every invariant and every action
property that a run checks is a theorem. `CardLimitIsKept` is true only of amounts
that do not overflow, and of those `CardLimitInRange` proves it.

## Where code and documents disagree

1. *Redelivery* (`go_consumer_redelivery`). Four comments in the Go consumers say
   that a message whose handler failed will be redelivered because it is not
   committed. The loop fetches the next one, and committing that commits both.
2. *Card limit* (`saga_overflow`). `product.price * command.quantity` is a 32-bit
   product. The run uses 16 bits, as TLC's own integers have 32: 30000 * 2 becomes
   -5536 and is authorized.

Four more have no run of their own; the models have them as the code does:

3. *Leases.* Marks name a row by id alone. A Go relay slower than the lease turns
   SENT into FAILED; the event is then sent again, or becomes a dead letter though
   it was sent. `LifecycleEnds` exempts the rows such a relay holds.
4. *SKIP LOCKED.* The README of the repository (line 379) shows it for the relays;
   `OutboxEventJpaRepository.findPendingEvents` locks nothing. Two instances send the
   same events, which consumers tolerate.
5. *Idempotency of reservations.* inventory-service's README (line 122) says that
   the check on the outbox avoids duplicate processing. It is read before the row is
   locked and no constraint backs it: two threads with the same message both
   reserve. `OverlapsAreBounded` says how much harm that does.
6. *Conflicts.* `idempotency.go:32` tells the client that its key "was already used".
   With go-redis's retries it may be the request's own SETNX that used it: the client
   has sent the key once, has no order, and meets 409 for the 24 hours of the key. A
   request that fails with 400 or 500 after the middleware leaves its key behind too.
   `ConflictHasACause` names the first case, and shows that there is no other in
   which a request collides with itself.

## Not modelled

- Queries (`GET /v1/orders`, `/v1/products`, `/v1/products/stocks`): they read rows
  and change nothing.
- Configuration, logging, tracing: start-up, log lines and a header that no logic
  reads.
- Deployment: containers, topics' partition counts, dashboards. No property depends
  on them, as the saga lets any two messages overtake each other.
- The `recover` around the goroutines of the Go services (`main.go:97`): a panic
  would end the relay or a consumer while the service goes on. No code path of the
  loops is known to panic, and the liveness properties assume that none does.
- Deletion of rows: no code deletes any.

## Plan

Done: everything in the table of modules. What could follow:

1. The saga over partitions and offsets, with `KafkaConsumer` and `SpringListener`
   in the place of `Deliver` and `Skip`: the one correspondence that is by reading.
2. `StockTransactions` with product and stock creation, which today is in
   `Inventory` only.

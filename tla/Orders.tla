------------------------------ MODULE Orders ------------------------------
(***************************************************************************)
(* orders-service: the POST /v1/orders endpoint with its Redis idempotency *)
(* middleware, the orders table, the outbox it fills, and the service      *)
(* methods the Kafka consumers call.  One action per handler; a database   *)
(* transaction is one step, because nobody sees it before COMMIT and the   *)
(* deferred Rollback undoes it on every early return.                      *)
(*                                                                         *)
(* Redis and MySQL are separate: a request is admitted by the middleware   *)
(* in one step and creates its order in a later one, other requests and    *)
(* the 24-hour expiry of its Redis key may come in between.                *)
(***************************************************************************)
EXTENDS SagaEvents

VARIABLES
    requests,      \* per request: how far it got or its HTTP status, its key, and
                   \* (history) whether its own SETNX, sent again, met that key
    redisKeys,     \* the idempotency keys Redis holds
    orders,        \* the orders table; request r creates the order of id r
    ordersOutbox   \* the events of the outbox table, never deleted

ordersVars == <<requests, redisKeys, orders, ordersOutbox>>

Stages   == {"new", "admitted", "202", "400", "409", "500"}
Statuses == {"none", "PENDING", "CONFIRMED", "CANCELED"}   \* "none": no such row

OrderRows == [status: Statuses, key: Keys \cup {None},
              product: Products \cup {None}, quantity: Int,
              paymentType: PaymentTypes \cup {None}, reason: Reasons]

NoOrder == [status |-> "none", key |-> None, product |-> None, quantity |-> 0,
            paymentType |-> None, reason |-> NoReason]

OrderEvents ==
    [topic: {"orders.created"}, order: OrderIds, product: Products,
     quantity: Quantities, paymentType: PaymentTypes]
        \cup [topic: {"orders.confirmed"}, order: OrderIds]

OrdersTypeOK ==
    /\ requests \in [OrderIds -> [stage: Stages, key: Keys \cup {None},
                                metOwnKey: BOOLEAN]]
    /\ redisKeys \subseteq Keys
    /\ orders \in [OrderIds -> OrderRows]
    /\ ordersOutbox \subseteq OrderEvents

OrdersInit ==
    /\ requests = [r \in OrderIds |->
                        [stage |-> "new", key |-> None, metOwnKey |-> FALSE]]
    /\ redisKeys = {}
    /\ orders = [o \in OrderIds |-> NoOrder]
    /\ ordersOutbox = {}

Exists(o) == orders[o].status # "none"

---------------------------------------------------------------------------
(* The HTTP side.                                                          *)

\* Request r got as far as `stage', under key k.
Reach(r, k, stage) ==
    requests' = [requests EXCEPT ![r].stage = stage, ![r].key = k]

\* No Idempotency-Key header: 400 before anything is touched.
MissingKey(r) ==
    /\ requests[r].stage = "new"
    /\ Reach(r, None, "400")
    /\ UNCHANGED <<redisKeys, orders, ordersOutbox>>

\* The client keeps go-redis's default of three retries.  When the reply of a
\* SETNX that stored the key is lost, the next one meets it: the middleware
\* takes it for a duplicate, though no other request need have sent the key.
ResentSetNX(r, k) ==
    /\ k \notin redisKeys
    /\ redisKeys' = redisKeys \cup {k}
    /\ requests' = [requests EXCEPT ![r] =
                       [stage |-> "409", key |-> k, metOwnKey |-> TRUE]]

\* SETNX on the key.  An error of Redis, all retries included, lets the request
\* through ("fail open"); it may be the reply that got lost, with the key stored.
IdempotencyMiddleware(r, k) ==
    /\ requests[r].stage = "new"
    /\ \/ /\ k \notin redisKeys
          /\ redisKeys' = redisKeys \cup {k}
          /\ Reach(r, k, "admitted")
       \/ /\ k \in redisKeys
          /\ Reach(r, k, "409")
          /\ UNCHANGED redisKeys
       \/ ResentSetNX(r, k)
       \/ /\ redisKeys' \in {redisKeys, redisKeys \cup {k}}
          /\ Reach(r, k, "admitted")
    /\ UNCHANGED <<orders, ordersOutbox>>

\* The 24 hours of a key are over.
ExpireKey(k) ==
    /\ k \in redisKeys
    /\ redisKeys' = redisKeys \ {k}
    /\ UNCHANGED <<requests, orders, ordersOutbox>>

\* ShouldBindJSON: `binding:"required,gte=1"' on the quantity.
ValidBody(quantity) == quantity >= 1

\* The body does not bind: 400.  The Redis key stays.
RejectBody(r, quantity) ==
    /\ requests[r].stage = "admitted"
    /\ ~ValidBody(quantity)
    /\ Reach(r, requests[r].key, "400")
    /\ UNCHANGED <<redisKeys, orders, ordersOutbox>>

\* UNIQUE (idempotency_key) on the orders table.
KeyTaken(k) == \E o \in OrderIds : Exists(o) /\ orders[o].key = k

\* The INSERTs of the order row and of its orders.created event.
InsertOrder(r, product, quantity, paymentType) ==
    /\ orders' = [orders EXCEPT ![r] =
                    [status |-> "PENDING", key |-> requests[r].key,
                     product |-> product, quantity |-> quantity,
                     paymentType |-> paymentType, reason |-> NoReason]]
    /\ ordersOutbox' = ordersOutbox
                         \cup {OrderCreated(r, product, quantity, paymentType)}

\* CreateOrder without the UNIQUE constraint on idempotency_key.
CreateOrder_NoUniqueKey(r, product, quantity, paymentType) ==
    /\ requests[r].stage = "admitted"
    /\ ValidBody(quantity)
    /\ InsertOrder(r, product, quantity, paymentType)
    /\ \E status \in {"202", "500"} : Reach(r, requests[r].key, status)
    /\ UNCHANGED redisKeys

\* CreateOrder answering 202 before the transaction has committed.
CreateOrder_EarlyAnswer(r, product, quantity, paymentType) ==
    /\ requests[r].stage = "admitted"
    /\ ValidBody(quantity)
    /\ ~KeyTaken(requests[r].key)
    /\ Reach(r, requests[r].key, "202")
    /\ \/ InsertOrder(r, product, quantity, paymentType)
       \/ UNCHANGED <<orders, ordersOutbox>>
    /\ UNCHANGED redisKeys

\* CreateOrder repeating its transaction when the answer to COMMIT is lost: the
\* second one meets the key of the first, and the client is told 409.
CreateOrder_RetriesCommit(r, product, quantity, paymentType) ==
    /\ requests[r].stage = "admitted"
    /\ ValidBody(quantity)
    /\ ~KeyTaken(requests[r].key)
    /\ InsertOrder(r, product, quantity, paymentType)
    /\ \E status \in {"202", "409"} : Reach(r, requests[r].key, status)
    /\ UNCHANGED redisKeys

\* CreateOrder: order row and orders.created event in one transaction.  When
\* the answer to COMMIT is lost, the client sees 500 and the order is there.
CreateOrder(r, product, quantity, paymentType) ==
    /\ requests[r].stage = "admitted"
    /\ ValidBody(quantity)
    /\ ~KeyTaken(requests[r].key)
    /\ InsertOrder(r, product, quantity, paymentType)
    /\ \E status \in {"202", "500"} : Reach(r, requests[r].key, status)
    /\ UNCHANGED redisKeys

\* MySQL error 1062 in Save: 409, nothing written.
DuplicateOrder(r, quantity) ==
    /\ requests[r].stage = "admitted"
    /\ ValidBody(quantity)
    /\ KeyTaken(requests[r].key)
    /\ Reach(r, requests[r].key, "409")
    /\ UNCHANGED <<redisKeys, orders, ordersOutbox>>

\* Any other failure of the transaction: 500, rolled back.
CreateOrderFails(r) ==
    /\ requests[r].stage = "admitted"
    /\ Reach(r, requests[r].key, "500")
    /\ UNCHANGED <<redisKeys, orders, ordersOutbox>>

---------------------------------------------------------------------------
(* The methods the Kafka consumers call.  Their UPDATE is guarded by       *)
(* status = PENDING; when no row matches they return nil.                  *)

\* The repository's ConfirmOrder.
UpdateStatusToConfirmed(o) ==
    IF orders[o].status = "PENDING"
    THEN orders' = [orders EXCEPT ![o].status = "CONFIRMED"]
    ELSE UNCHANGED orders

\* ConfirmOrder that forgets the orders.confirmed event.
ConfirmOrder_NoEvent(o) ==
    /\ UpdateStatusToConfirmed(o)
    /\ UNCHANGED <<requests, redisKeys, ordersOutbox>>

\* ConfirmOrder that forgets the `if !updated' return.
ConfirmOrder_AlwaysEmits(o) ==
    /\ UpdateStatusToConfirmed(o)
    /\ ordersOutbox' = ordersOutbox \cup {OrderConfirmed(o)}
    /\ UNCHANGED <<requests, redisKeys>>

\* No row updated: no event.
ConfirmOrder(o) ==
    /\ UpdateStatusToConfirmed(o)
    /\ ordersOutbox' = IF orders[o].status = "PENDING"
                       THEN ordersOutbox \cup {OrderConfirmed(o)}
                       ELSE ordersOutbox
    /\ UNCHANGED <<requests, redisKeys>>

\* The UPDATE with the spelling the CHECK on the status column refuses.
UpdateStatusToCanceled_Misspelt(o, reason) ==
    IF orders[o].status = "PENDING"
    THEN orders' = [orders EXCEPT ![o].status = "CANCELLED", ![o].reason = reason]
    ELSE UNCHANGED orders

UpdateStatusToCanceled(o, reason) ==
    IF orders[o].status = "PENDING"
    THEN orders' = [orders EXCEPT ![o].status = "CANCELED", ![o].reason = reason]
    ELSE UNCHANGED orders

\* Writes no event: nobody waits for a cancellation.
CancelOrder(o, reason) ==
    /\ UpdateStatusToCanceled(o, reason)
    /\ UNCHANGED <<requests, redisKeys, ordersOutbox>>

---------------------------------------------------------------------------
\* Everything a client, the clock and the databases may do to the endpoint.
ApiNext ==
    \/ \E r \in OrderIds : MissingKey(r) \/ CreateOrderFails(r)
    \/ \E r \in OrderIds, k \in Keys : IdempotencyMiddleware(r, k)
    \/ \E k \in Keys : ExpireKey(k)
    \/ \E r \in OrderIds, q \in Quantities : RejectBody(r, q) \/ DuplicateOrder(r, q)
    \/ \E r \in OrderIds, p \in Products, q \in Quantities, t \in PaymentTypes :
          CreateOrder(r, p, q, t)

\* The service alone, in an environment that may send any message about any
\* order, in any order and any number of times.
OrdersNext ==
    \/ ApiNext
    \/ \E o \in OrderIds : ConfirmOrder(o)
    \/ \E o \in OrderIds, reason \in Reasons \ {NoReason} : CancelOrder(o, reason)

OrdersSpec == OrdersInit /\ [][OrdersNext]_ordersVars

---------------------------------------------------------------------------
\* "Garante unicidade no nivel do banco, mesmo que Redis falhe": whatever Redis
\* loses, refuses or forgets, at most one order exists per idempotency key.
OneOrderPerKey ==
    \A o1, o2 \in OrderIds :
        Exists(o1) /\ Exists(o2) /\ orders[o1].key = orders[o2].key => o1 = o2

\* A client that was answered 202 has an order under the key it sent.
AcceptedIsStored ==
    \A r \in OrderIds : requests[r].stage = "202" =>
        Exists(r) /\ orders[r].key = requests[r].key

\* A client that is refused with 409 has bought nothing by that request, and
\* another one sent the key before it, unless its own SETNX was sent again after
\* a lost reply: neither a lost answer to COMMIT nor a key that Redis forgot or
\* failed to keep turns a stored order into a conflict.
ConflictHasACause ==
    \A r \in OrderIds : requests[r].stage = "409" =>
        /\ ~Exists(r)
        /\ \/ requests[r].metOwnKey
           \/ \E s \in OrderIds \ {r} :
                 requests[s].stage # "new" /\ requests[s].key = requests[r].key

\* CONFIRMED and CANCELED are final, whatever messages come late, twice or in
\* the wrong order, and the reason of a cancellation is the first one given.
FinalStatusIsKept ==
    [][\A o \in OrderIds : orders[o].status \in {"CONFIRMED", "CANCELED"} =>
            orders'[o] = orders[o]]_ordersVars

\* The outbox tells what the table says: orders.created for the rows that
\* exist, with their content, and orders.confirmed for the CONFIRMED ones.
OutboxMatchesOrders ==
    /\ \A o \in OrderIds : Exists(o) =>
          OrderCreated(o, orders[o].product, orders[o].quantity,
                       orders[o].paymentType) \in ordersOutbox
    /\ \A e \in ordersOutbox :
          \/ e = OrderCreated(e.order, orders[e.order].product,
                              orders[e.order].quantity, orders[e.order].paymentType)
          \/ e = OrderConfirmed(e.order) /\ orders[e.order].status = "CONFIRMED"
    /\ \A o \in OrderIds : orders[o].status = "CONFIRMED" =>
          OrderConfirmed(o) \in ordersOutbox
===========================================================================

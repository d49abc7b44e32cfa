--------------------------- MODULE OrdersProofs ---------------------------
(***************************************************************************)
(* orders-service for every set of requests, keys and products, checked by *)
(* TLAPS: in an environment that sends it any message at any time and with *)
(* a Redis that fails, loses replies and forgets keys at will.             *)
(***************************************************************************)
EXTENDS Orders, TLAPS

RequestRows == [stage: Stages, key: Keys \cup {None}, metOwnKey: BOOLEAN]

(* What Reach does to the requests: one of them, its stage and its key.    *)
LEMMA ReachRows ==
    ASSUME OrdersTypeOK, NEW r \in OrderIds, NEW k \in Keys \cup {None},
           NEW stage \in Stages, Reach(r, k, stage)
    PROVE  /\ requests' \in [OrderIds -> RequestRows]
           /\ requests'[r].stage = stage /\ requests'[r].key = k
           /\ \A s \in OrderIds \ {r} : requests'[s] = requests[s]
<1>1. requests[r] \in RequestRows
  BY DEF OrdersTypeOK, RequestRows
<1>2. [requests[r] EXCEPT !.stage = stage] \in RequestRows
  BY <1>1 DEF RequestRows
<1>3. [[requests[r] EXCEPT !.stage = stage] EXCEPT !.key = k] \in RequestRows
  BY <1>2 DEF RequestRows
<1>4. requests' = [requests EXCEPT ![r] = [[requests[r] EXCEPT !.stage = stage]
                                               EXCEPT !.key = k]]
  BY DEF OrdersTypeOK, RequestRows, Reach
<1>5. /\ requests'[r].stage = stage /\ requests'[r].key = k
      /\ \A s \in OrderIds \ {r} : requests'[s] = requests[s]
  BY <1>1, <1>4 DEF OrdersTypeOK, RequestRows
<1> QED
  BY <1>3, <1>4, <1>5 DEF OrdersTypeOK, RequestRows

(* What the re-sent SETNX does to them: an answer on the spot.             *)
LEMMA ResentRows ==
    ASSUME OrdersTypeOK, NEW r \in OrderIds, NEW k \in Keys, ResentSetNX(r, k)
    PROVE  /\ requests' \in [OrderIds -> RequestRows]
           /\ requests'[r] = [stage |-> "409", key |-> k, metOwnKey |-> TRUE]
           /\ \A s \in OrderIds \ {r} : requests'[s] = requests[s]
  BY DEF OrdersTypeOK, RequestRows, ResentSetNX, Stages

(* The endpoint keeps the types of orders-service.                         *)
LEMMA ApiType ==
    ASSUME OrdersTypeOK, ApiNext PROVE OrdersTypeOK'
<1>1. ASSUME NEW r \in OrderIds, NEW k \in Keys \cup {None}, NEW stage \in Stages,
             Reach(r, k, stage), redisKeys' \subseteq Keys, UNCHANGED <<orders, ordersOutbox>>
      PROVE  OrdersTypeOK'
  BY <1>1, ReachRows DEF OrdersTypeOK, RequestRows
<1>2. ASSUME NEW r \in OrderIds, MissingKey(r) PROVE OrdersTypeOK'
  BY <1>1, <1>2 DEF MissingKey, OrdersTypeOK, Stages
<1>3. ASSUME NEW r \in OrderIds,
             \/ CreateOrderFails(r)
             \/ \E q \in Quantities : RejectBody(r, q) \/ DuplicateOrder(r, q)
      PROVE  OrdersTypeOK'
  BY <1>1, <1>3 DEF CreateOrderFails, RejectBody, DuplicateOrder, OrdersTypeOK, Stages
<1>4. ASSUME NEW r \in OrderIds, NEW k \in Keys, IdempotencyMiddleware(r, k)
      PROVE  OrdersTypeOK'
  <2>1. CASE ResentSetNX(r, k)
    BY <1>4, <2>1, ResentRows DEF IdempotencyMiddleware, ResentSetNX, OrdersTypeOK,
       RequestRows
  <2>2. CASE ~ResentSetNX(r, k)
    BY <1>1, <1>4, <2>2 DEF IdempotencyMiddleware, OrdersTypeOK, Stages
  <2> QED
    BY <2>1, <2>2
<1>5. ASSUME NEW k \in Keys, ExpireKey(k) PROVE OrdersTypeOK'
  BY <1>5 DEF ExpireKey, OrdersTypeOK
<1>6. ASSUME NEW r \in OrderIds, NEW p \in Products, NEW q \in Quantities,
             NEW t \in PaymentTypes, CreateOrder(r, p, q, t)
      PROVE  OrdersTypeOK'
  <2>1. q \in Int
    BY SagaInputs
  <2>2. OrderCreated(r, p, q, t) \in OrderEvents
    BY <2>1 DEF OrderCreated, OrderEvents
  <2>3. requests[r].key \in Keys \cup {None}
    BY DEF OrdersTypeOK
  <2>4. [status |-> "PENDING", key |-> requests[r].key, product |-> p, quantity |-> q,
         paymentType |-> t, reason |-> NoReason] \in OrderRows
    BY <2>1, <2>3 DEF OrderRows, Statuses, Reasons
  <2>5. requests' \in [OrderIds -> RequestRows]
    BY <1>6, <2>3, ReachRows DEF CreateOrder, Stages
  <2> QED
    BY <1>6, <2>2, <2>4, <2>5 DEF CreateOrder, InsertOrder, OrdersTypeOK, RequestRows
<1> QED
  BY <1>2, <1>3, <1>4, <1>5, <1>6 DEF ApiNext

(* ConfirmOrder and CancelOrder keep the types of orders-service.          *)
LEMMA OrderMethodsType ==
    ASSUME OrdersTypeOK, NEW o \in OrderIds,
           ConfirmOrder(o) \/ \E reason \in Reasons : CancelOrder(o, reason)
    PROVE  OrdersTypeOK'
<1> USE DEF OrdersTypeOK, OrderRows, Statuses
<1>1. OrderConfirmed(o) \in OrderEvents
  BY DEF OrderConfirmed, OrderEvents
<1>2. CASE ConfirmOrder(o)
  <2>1. orders' \in [OrderIds -> OrderRows]
    BY <1>2 DEF ConfirmOrder, UpdateStatusToConfirmed
  <2>2. ordersOutbox' \subseteq OrderEvents
    BY <1>1, <1>2 DEF ConfirmOrder
  <2>3. UNCHANGED <<requests, redisKeys>>
    BY <1>2 DEF ConfirmOrder
  <2> QED
    BY <2>1, <2>2, <2>3
<1>3. CASE \E reason \in Reasons : CancelOrder(o, reason)
  <2>1. PICK reason \in Reasons : CancelOrder(o, reason)
    BY <1>3
  <2>2. orders' \in [OrderIds -> OrderRows]
    BY <2>1 DEF CancelOrder, UpdateStatusToCanceled
  <2>3. UNCHANGED <<requests, redisKeys, ordersOutbox>>
    BY <2>1 DEF CancelOrder
  <2> QED
    BY <2>2, <2>3
<1> QED
  BY <1>2, <1>3

(* Every step keeps the types of orders-service.                           *)
LEMMA OrdersNextType ==
    ASSUME OrdersTypeOK, [OrdersNext]_ordersVars PROVE OrdersTypeOK'
<1>1. CASE ApiNext
  BY <1>1, ApiType
<1>2. CASE \E o \in OrderIds : ConfirmOrder(o)
  BY <1>2, OrderMethodsType
<1>3. CASE \E o \in OrderIds, reason \in Reasons \ {NoReason} : CancelOrder(o, reason)
  BY <1>3, OrderMethodsType
<1>4. CASE UNCHANGED ordersVars
  BY <1>4 DEF ordersVars, OrdersTypeOK
<1> QED
  BY <1>1, <1>2, <1>3, <1>4 DEF OrdersNext

(* Every row and every event of orders-service keeps its type.             *)
THEOREM OrdersTypeCorrect == OrdersSpec => []OrdersTypeOK
<1>1. OrdersInit => OrdersTypeOK
  BY DEF OrdersInit, OrdersTypeOK, NoOrder, OrderRows, Stages, Statuses, Reasons
<1> QED
  BY <1>1, OrdersNextType, PTL DEF OrdersSpec

---------------------------------------------------------------------------
(* The inductive invariant.                                                *)

\* An order belongs to a request that was answered, and carries its key.
OrdersFollowRequests ==
    \A o \in OrderIds : Exists(o) =>
        requests[o].stage \in {"202", "500"} /\ orders[o].key = requests[o].key

\* Redis knows a key only from a request that has passed the middleware.
RedisKeysWereSent ==
    \A k \in redisKeys : \E s \in OrderIds :
        requests[s].stage # "new" /\ requests[s].key = k

\* An event is about an order that exists.
EventsHaveOrders ==
    \A e \in ordersOutbox : Exists(e.order)

OrdersInv ==
    /\ OrdersFollowRequests
    /\ EventsHaveOrders
    /\ RedisKeysWereSent
    /\ OneOrderPerKey
    /\ AcceptedIsStored
    /\ ConflictHasACause
    /\ OutboxMatchesOrders

(* What no step of the endpoint does: forget the key of a request, or move *)
(* one that has its answer.                                                *)
LEMMA RequestsAdvance ==
    ASSUME OrdersTypeOK, ApiNext, NEW r \in OrderIds
    PROVE  /\ requests[r].stage # "new" =>
                requests'[r].stage # "new" /\ requests'[r].key = requests[r].key
           /\ requests[r].stage \in {"202", "400", "409", "500"} =>
                requests'[r] = requests[r]
<1> DEFINE Advances ==
       /\ requests[r].stage # "new" =>
             requests'[r].stage # "new" /\ requests'[r].key = requests[r].key
       /\ requests[r].stage \in {"202", "400", "409", "500"} =>
             requests'[r] = requests[r]
<1>1. ASSUME NEW s \in OrderIds, NEW k \in Keys \cup {None}, NEW stage \in Stages,
             Reach(s, k, stage),
             \/ requests[s].stage = "new"
             \/ requests[s].stage = "admitted" /\ stage # "new" /\ k = requests[s].key
      PROVE  Advances
  BY <1>1, ReachRows
<1>2. ASSUME NEW s \in OrderIds, MissingKey(s) PROVE Advances
  BY <1>1, <1>2 DEF MissingKey, Stages
<1>3. ASSUME NEW s \in OrderIds,
             \/ CreateOrderFails(s)
             \/ \E q \in Quantities : RejectBody(s, q) \/ DuplicateOrder(s, q)
             \/ \E p \in Products, q \in Quantities, t \in PaymentTypes :
                   CreateOrder(s, p, q, t)
      PROVE  Advances
  BY <1>1, <1>3 DEF CreateOrderFails, RejectBody, DuplicateOrder, CreateOrder,
     OrdersTypeOK, Stages
<1>4. ASSUME NEW s \in OrderIds, NEW k \in Keys, IdempotencyMiddleware(s, k)
      PROVE  Advances
  <2>1. CASE ResentSetNX(s, k)
    BY <1>4, <2>1, ResentRows DEF IdempotencyMiddleware
  <2>2. CASE ~ResentSetNX(s, k)
    BY <1>1, <1>4, <2>2 DEF IdempotencyMiddleware, Stages
  <2> QED
    BY <2>1, <2>2
<1>5. ASSUME NEW k \in Keys, ExpireKey(k) PROVE Advances
  BY <1>5 DEF ExpireKey
<1> QED
  BY <1>2, <1>3, <1>4, <1>5 DEF ApiNext

(* CreateOrder: the request had no order, and its key none either.         *)
LEMMA CreateOrderInv ==
    ASSUME OrdersTypeOK, OrdersInv, NEW r \in OrderIds, NEW p \in Products,
           NEW q \in Quantities, NEW t \in PaymentTypes, CreateOrder(r, p, q, t)
    PROVE  OrdersInv'
<1>1. ~Exists(r)
  BY DEF CreateOrder, InsertOrder, OrdersInv, OrdersFollowRequests
<1>2. /\ \A o \in OrderIds \ {r} : orders'[o] = orders[o] /\ requests'[o] = requests[o]
      /\ orders'[r] = [status |-> "PENDING", key |-> requests[r].key, product |-> p,
                       quantity |-> q, paymentType |-> t, reason |-> NoReason]
      /\ requests'[r].stage \in {"202", "500"}
      /\ requests'[r].key = requests[r].key
      /\ requests[r].stage = "admitted"
      /\ ordersOutbox' = ordersOutbox \cup {OrderCreated(r, p, q, t)}
      /\ redisKeys' = redisKeys
  BY DEF CreateOrder, InsertOrder, Reach, OrdersTypeOK
<1>3. OrdersFollowRequests'
  BY <1>2 DEF OrdersInv, OrdersFollowRequests, Exists
<1>4. RedisKeysWereSent'
  BY <1>2 DEF OrdersInv, RedisKeysWereSent
<1>5. OneOrderPerKey'
  BY <1>2 DEF OrdersInv, OneOrderPerKey, Exists, CreateOrder, InsertOrder, KeyTaken
<1>6. AcceptedIsStored'
  BY <1>2 DEF OrdersInv, AcceptedIsStored, Exists
<1>7. ConflictHasACause'
  BY <1>2, <1>3 DEF OrdersInv, OrdersFollowRequests, ConflictHasACause
<1>8. OutboxMatchesOrders' /\ EventsHaveOrders'
  <2>1. \A e \in ordersOutbox : e.order \in OrderIds
    BY DEF OrdersTypeOK, OrderEvents
  <2>2. \A e \in ordersOutbox : e.order # r
    BY <1>1 DEF OrdersInv, EventsHaveOrders
  <2> QED
    BY <1>2, <2>1, <2>2 DEF OrdersInv, OutboxMatchesOrders, EventsHaveOrders, Exists,
       OrderCreated
<1> QED
  BY <1>3, <1>4, <1>5, <1>6, <1>7, <1>8 DEF OrdersInv

(* The rest of the endpoint leaves the table and the outbox alone.         *)
LEMMA ApiInv ==
    ASSUME OrdersTypeOK, OrdersInv, ApiNext PROVE OrdersInv'
<1>1. ASSUME NEW r \in OrderIds, NEW p \in Products, NEW q \in Quantities,
             NEW t \in PaymentTypes, CreateOrder(r, p, q, t)
      PROVE  OrdersInv'
  BY <1>1, CreateOrderInv
<1>2. ASSUME UNCHANGED <<orders, ordersOutbox>>,
             \A k \in redisKeys' \ redisKeys : \E s \in OrderIds :
                requests'[s].stage # "new" /\ requests'[s].key = k,
             \A r \in OrderIds : requests'[r].stage = "202" => requests[r].stage = "202",
             \A r \in OrderIds : requests'[r].stage = "409" =>
                \/ requests[r].stage = "409"
                \/ requests'[r].metOwnKey
                \/ \E s \in OrderIds \ {r} :
                      requests[s].stage # "new" /\ requests[s].key = requests'[r].key
      PROVE  OrdersInv'
  <2>1. OrdersFollowRequests' /\ AcceptedIsStored'
    BY <1>2, RequestsAdvance DEF OrdersInv, OrdersFollowRequests, AcceptedIsStored, Exists
  <2>2. RedisKeysWereSent'
    BY <1>2, RequestsAdvance DEF OrdersInv, RedisKeysWereSent
  <2>3. ConflictHasACause'
    BY <1>2, <2>1, RequestsAdvance DEF OrdersInv, OrdersFollowRequests, ConflictHasACause
  <2> QED
    BY <1>2, <2>1, <2>2, <2>3 DEF OrdersInv, OneOrderPerKey, OutboxMatchesOrders,
       EventsHaveOrders, Exists
<1>3. ASSUME NEW r \in OrderIds, MissingKey(r) \/ CreateOrderFails(r) PROVE OrdersInv'
  BY <1>2, <1>3 DEF MissingKey, CreateOrderFails, Reach, OrdersTypeOK
<1>4. ASSUME NEW r \in OrderIds, NEW k \in Keys, IdempotencyMiddleware(r, k)
      PROVE  OrdersInv'
  <2>1. k \in redisKeys => \E s \in OrderIds \ {r} :
           requests[s].stage # "new" /\ requests[s].key = k
    BY <1>4 DEF OrdersInv, RedisKeysWereSent, IdempotencyMiddleware
  <2> QED
    BY <1>2, <1>4, <2>1 DEF IdempotencyMiddleware, ResentSetNX, Reach, OrdersTypeOK
<1>5. ASSUME NEW k \in Keys, ExpireKey(k) PROVE OrdersInv'
  BY <1>2, <1>5 DEF ExpireKey
<1>6. ASSUME NEW r \in OrderIds, NEW q \in Quantities, RejectBody(r, q) PROVE OrdersInv'
  BY <1>2, <1>6 DEF RejectBody, Reach, OrdersTypeOK
<1>7. ASSUME NEW r \in OrderIds, NEW q \in Quantities, DuplicateOrder(r, q)
      PROVE  OrdersInv'
  <2>1. \E s \in OrderIds \ {r} :
           requests[s].stage # "new" /\ requests[s].key = requests[r].key
    BY <1>7 DEF DuplicateOrder, KeyTaken, OrdersInv, OrdersFollowRequests
  <2> QED
    BY <1>2, <1>7, <2>1 DEF DuplicateOrder, Reach, OrdersTypeOK
<1> QED
  BY <1>1, <1>3, <1>4, <1>5, <1>6, <1>7 DEF ApiNext

(* ConfirmOrder changes a PENDING order and announces it, or does nothing. *)
LEMMA ConfirmOrderInv ==
    ASSUME OrdersTypeOK, OrdersInv, NEW o \in OrderIds, ConfirmOrder(o)
    PROVE  OrdersInv'
<1>1. CASE orders[o].status # "PENDING"
  BY <1>1 DEF ConfirmOrder, UpdateStatusToConfirmed, OrdersInv, OrdersFollowRequests,
     RedisKeysWereSent,
     OneOrderPerKey, AcceptedIsStored, ConflictHasACause, OutboxMatchesOrders,
     EventsHaveOrders, Exists
<1>2. CASE orders[o].status = "PENDING"
  <2>1. /\ \A x \in OrderIds \ {o} : orders'[x] = orders[x]
        /\ orders'[o] = [orders[o] EXCEPT !.status = "CONFIRMED"]
        /\ ordersOutbox' = ordersOutbox \cup {OrderConfirmed(o)}
        /\ UNCHANGED <<requests, redisKeys>>
    BY <1>2 DEF ConfirmOrder, UpdateStatusToConfirmed, OrdersTypeOK
  <2>2. /\ orders'[o].status = "CONFIRMED"
        /\ orders'[o].key = orders[o].key
        /\ orders'[o].product = orders[o].product
        /\ orders'[o].quantity = orders[o].quantity
        /\ orders'[o].paymentType = orders[o].paymentType
    BY <2>1 DEF OrdersTypeOK, OrderRows
  <2>3. \A x \in OrderIds : (Exists(x)' <=> Exists(x)) /\ orders'[x].key = orders[x].key
    BY <1>2, <2>1, <2>2 DEF Exists
  <2>4. OrdersFollowRequests' /\ AcceptedIsStored' /\ OneOrderPerKey'
    BY <2>1, <2>3 DEF OrdersInv, OrdersFollowRequests, AcceptedIsStored, OneOrderPerKey
  <2>5. RedisKeysWereSent' /\ ConflictHasACause'
    BY <2>1, <2>3 DEF OrdersInv, RedisKeysWereSent, ConflictHasACause
  <2>6. (\A e \in ordersOutbox : e.order \in OrderIds) /\ OrderConfirmed(o).order = o
    BY DEF OrdersTypeOK, OrderEvents, OrderConfirmed
  <2>7. EventsHaveOrders'
    <3>1. ASSUME NEW e \in ordersOutbox PROVE Exists(e.order)'
      BY <2>3, <2>6 DEF OrdersInv, EventsHaveOrders
    <3>2. Exists(o)'
      BY <2>2 DEF Exists
    <3> QED
      BY <2>1, <2>6, <3>1, <3>2 DEF EventsHaveOrders
  <2>8. OutboxMatchesOrders'
    <3>1. ASSUME NEW x \in OrderIds
          PROVE  /\ orders'[x].product = orders[x].product
                 /\ orders'[x].quantity = orders[x].quantity
                 /\ orders'[x].paymentType = orders[x].paymentType
      BY <2>1, <2>2
    <3>2. ASSUME NEW x \in OrderIds, Exists(x)'
          PROVE  OrderCreated(x, orders'[x].product, orders'[x].quantity,
                              orders'[x].paymentType) \in ordersOutbox'
      BY <2>1, <2>3, <3>1, <3>2 DEF OrdersInv, OutboxMatchesOrders
    <3>3. ASSUME NEW e \in ordersOutbox'
          PROVE  \/ e = OrderCreated(e.order, orders'[e.order].product,
                                     orders'[e.order].quantity, orders'[e.order].paymentType)
                 \/ e = OrderConfirmed(e.order) /\ orders'[e.order].status = "CONFIRMED"
      <4>1. CASE e = OrderConfirmed(o)
        BY <2>2, <2>6, <4>1
      <4>2. CASE e \in ordersOutbox
        BY <2>1, <2>2, <2>6, <3>1, <4>2 DEF OrdersInv, OutboxMatchesOrders
      <4> QED
        BY <2>1, <3>3, <4>1, <4>2
    <3>4. ASSUME NEW x \in OrderIds, orders'[x].status = "CONFIRMED"
          PROVE  OrderConfirmed(x) \in ordersOutbox'
      BY <2>1, <3>4 DEF OrdersInv, OutboxMatchesOrders
    <3> QED
      BY <3>2, <3>3, <3>4 DEF OutboxMatchesOrders
  <2> QED
    BY <2>4, <2>5, <2>7, <2>8 DEF OrdersInv
<1> QED
  BY <1>1, <1>2

(* CancelOrder changes a PENDING order, silently, or does nothing.         *)
LEMMA CancelOrderInv ==
    ASSUME OrdersTypeOK, OrdersInv, NEW o \in OrderIds, NEW reason \in Reasons,
           CancelOrder(o, reason)
    PROVE  OrdersInv'
<1>1. CASE orders[o].status # "PENDING"
  BY <1>1 DEF CancelOrder, UpdateStatusToCanceled, OrdersInv, OrdersFollowRequests,
     RedisKeysWereSent,
     OneOrderPerKey, AcceptedIsStored, ConflictHasACause, OutboxMatchesOrders,
     EventsHaveOrders, Exists
<1>2. CASE orders[o].status = "PENDING"
  <2>1. /\ \A x \in OrderIds \ {o} : orders'[x] = orders[x]
        /\ orders'[o] = [orders[o] EXCEPT !.status = "CANCELED", !.reason = reason]
        /\ UNCHANGED <<requests, redisKeys, ordersOutbox>>
    BY <1>2 DEF CancelOrder, UpdateStatusToCanceled, OrdersTypeOK
  <2>2. /\ orders'[o].status = "CANCELED"
        /\ orders'[o].key = orders[o].key
        /\ orders'[o].product = orders[o].product
        /\ orders'[o].quantity = orders[o].quantity
        /\ orders'[o].paymentType = orders[o].paymentType
    BY <2>1 DEF OrdersTypeOK, OrderRows
  <2>3. \A x \in OrderIds : (Exists(x)' <=> Exists(x)) /\ orders'[x].key = orders[x].key
    BY <1>2, <2>1, <2>2 DEF Exists
  <2>4. OrdersFollowRequests' /\ AcceptedIsStored' /\ OneOrderPerKey'
    BY <2>1, <2>3 DEF OrdersInv, OrdersFollowRequests, AcceptedIsStored, OneOrderPerKey
  <2>5. RedisKeysWereSent' /\ ConflictHasACause'
    BY <2>1, <2>3 DEF OrdersInv, RedisKeysWereSent, ConflictHasACause
  <2>6. \A e \in ordersOutbox : e.order \in OrderIds
    BY DEF OrdersTypeOK, OrderEvents
  <2>7. EventsHaveOrders'
    BY <2>1, <2>3, <2>6 DEF OrdersInv, EventsHaveOrders
  <2>8. OutboxMatchesOrders'
    <3>1. ASSUME NEW x \in OrderIds
          PROVE  /\ orders'[x].product = orders[x].product
                 /\ orders'[x].quantity = orders[x].quantity
                 /\ orders'[x].paymentType = orders[x].paymentType
                 /\ orders'[x].status = "CONFIRMED" <=> orders[x].status = "CONFIRMED"
      BY <1>2, <2>1, <2>2
    <3>2. ASSUME NEW x \in OrderIds, Exists(x)'
          PROVE  OrderCreated(x, orders'[x].product, orders'[x].quantity,
                              orders'[x].paymentType) \in ordersOutbox'
      BY <2>1, <2>3, <3>1, <3>2 DEF OrdersInv, OutboxMatchesOrders
    <3>3. ASSUME NEW e \in ordersOutbox'
          PROVE  \/ e = OrderCreated(e.order, orders'[e.order].product,
                                     orders'[e.order].quantity, orders'[e.order].paymentType)
                 \/ e = OrderConfirmed(e.order) /\ orders'[e.order].status = "CONFIRMED"
      BY <2>1, <2>6, <3>1, <3>3 DEF OrdersInv, OutboxMatchesOrders
    <3>4. ASSUME NEW x \in OrderIds, orders'[x].status = "CONFIRMED"
          PROVE  OrderConfirmed(x) \in ordersOutbox'
      BY <2>1, <3>1, <3>4 DEF OrdersInv, OutboxMatchesOrders
    <3> QED
      BY <3>2, <3>3, <3>4 DEF OutboxMatchesOrders
  <2> QED
    BY <2>4, <2>5, <2>7, <2>8 DEF OrdersInv
<1> QED
  BY <1>1, <1>2

(* Every step of the service preserves the invariant.                      *)
LEMMA OrdersNextInv ==
    ASSUME OrdersTypeOK, OrdersInv, [OrdersNext]_ordersVars PROVE OrdersInv'
<1>1. CASE ApiNext
  BY <1>1, ApiInv
<1>2. CASE \E o \in OrderIds : ConfirmOrder(o)
  BY <1>2, ConfirmOrderInv
<1>3. CASE \E o \in OrderIds, reason \in Reasons \ {NoReason} : CancelOrder(o, reason)
  BY <1>3, CancelOrderInv
<1>4. CASE UNCHANGED ordersVars
  BY <1>4 DEF ordersVars, OrdersInv, OrdersFollowRequests, RedisKeysWereSent,
     OneOrderPerKey, AcceptedIsStored, ConflictHasACause, OutboxMatchesOrders,
     EventsHaveOrders, Exists
<1> QED
  BY <1>1, <1>2, <1>3, <1>4 DEF OrdersNext

(* The invariant holds for ever.                                           *)
LEMMA OrdersInvHolds == OrdersSpec => []OrdersInv
<1>1. OrdersInit => OrdersTypeOK /\ OrdersInv
  BY DEF OrdersInit, OrdersTypeOK, NoOrder, OrderRows, Stages, Statuses, Reasons,
     OrdersInv, OrdersFollowRequests, RedisKeysWereSent, OneOrderPerKey,
     AcceptedIsStored, ConflictHasACause, OutboxMatchesOrders, EventsHaveOrders,
     Exists
<1> QED
  BY <1>1, OrdersNextType, OrdersNextInv, PTL DEF OrdersSpec

---------------------------------------------------------------------------
(* What follows from it.                                                   *)

(* At most one order per Idempotency-Key, whatever Redis does.             *)
THEOREM Idempotence == OrdersSpec => []OneOrderPerKey
<1>1. OrdersInv => OneOrderPerKey
  BY DEF OrdersInv
<1> QED
  BY <1>1, OrdersInvHolds, PTL

(* 202 Accepted is the truth: the order is stored under the client's key.  *)
THEOREM HonestAnswers == OrdersSpec => []AcceptedIsStored
<1>1. OrdersInv => AcceptedIsStored
  BY DEF OrdersInv
<1> QED
  BY <1>1, OrdersInvHolds, PTL

(* 409 Conflict is the truth too: the client has bought nothing by this    *)
(* request, and another one sent the key before, unless this one's SETNX   *)
(* was sent again and met the key it had stored itself.                    *)
THEOREM HonestConflicts == OrdersSpec => []ConflictHasACause
<1>1. OrdersInv => ConflictHasACause
  BY DEF OrdersInv
<1> QED
  BY <1>1, OrdersInvHolds, PTL

(* The outbox and the orders table tell the same story: the transactional  *)
(* outbox of orders-service.                                               *)
THEOREM OutboxAgrees == OrdersSpec => []OutboxMatchesOrders
<1>1. OrdersInv => OutboxMatchesOrders
  BY DEF OrdersInv
<1> QED
  BY <1>1, OrdersInvHolds, PTL

(* No message and no request changes an order that has settled.            *)
THEOREM SettledOrders == OrdersSpec => FinalStatusIsKept
<1>1. ASSUME OrdersTypeOK, OrdersInv, [OrdersNext]_ordersVars,
             NEW o \in OrderIds, orders[o].status \in {"CONFIRMED", "CANCELED"}
      PROVE  orders'[o] = orders[o]
  <2>1. requests[o].stage # "admitted"
    BY <1>1 DEF OrdersInv, OrdersFollowRequests, Exists
  <2>2. CASE ApiNext
    BY <1>1, <2>1, <2>2 DEF ApiNext, MissingKey, CreateOrderFails, IdempotencyMiddleware,
       ExpireKey, RejectBody, DuplicateOrder, CreateOrder, InsertOrder, OrdersTypeOK
  <2>3. ASSUME NEW x \in OrderIds, ConfirmOrder(x) PROVE orders'[o] = orders[o]
    BY <1>1, <2>3 DEF ConfirmOrder, UpdateStatusToConfirmed, OrdersTypeOK
  <2>4. ASSUME NEW x \in OrderIds, NEW reason \in Reasons, CancelOrder(x, reason)
        PROVE  orders'[o] = orders[o]
    BY <1>1, <2>4 DEF CancelOrder, UpdateStatusToCanceled, OrdersTypeOK
  <2>5. CASE UNCHANGED ordersVars
    BY <2>5 DEF ordersVars
  <2> QED
    BY <1>1, <2>2, <2>3, <2>4, <2>5 DEF OrdersNext
<1>2. OrdersTypeOK /\ OrdersInv /\ [OrdersNext]_ordersVars =>
        [\A o \in OrderIds : orders[o].status \in {"CONFIRMED", "CANCELED"} =>
            orders'[o] = orders[o]]_ordersVars
  BY <1>1
<1> QED
  BY <1>2, OrdersTypeCorrect, OrdersInvHolds, PTL DEF OrdersSpec, FinalStatusIsKept
===========================================================================

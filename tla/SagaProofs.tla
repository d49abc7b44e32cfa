---------------------------- MODULE SagaProofs ----------------------------
(***************************************************************************)
(* The safety of the saga for every set of orders, keys, products, prices, *)
(* quantities and losses, checked by TLAPS: type correctness first, then   *)
(* the inductive invariant of SagaInvariant and what follows from it, then *)
(* the services alone and their units, the events that can still move an   *)
(* order, and the outboxes as Outbox tells them; then the implementation   *)
(* of SagaOutcome (each handler moves one order's status, goods or money   *)
(* as SagaOutcome allows, or moves nothing), and what it says of messages  *)
(* that come again.                                                        *)
(***************************************************************************)
EXTENDS SagaInvariant, OrdersProofs, FiniteSetTheorems

(* A Kotlin Int is an integer, whatever overflowed.                        *)
LEMMA WrapType ==
    ASSUME NEW n \in Int PROVE Wrap(n) \in Int
  BY InventoryInputs DEF Wrap

---------------------------------------------------------------------------
(* The fields a consumer reads, by topic.                                  *)
LEMMA EventFields ==
    ASSUME NEW m \in Events
    PROVE  /\ m.topic \in Topics
           /\ m.order \in OrderIds
           /\ m.topic = "orders.created" =>
                 /\ m.product \in Products /\ m.paymentType \in PaymentTypes
                 /\ m.quantity \in Quantities /\ m.quantity \in Int
           /\ m.topic = "inventory.reserved" =>
                 m.amount \in Int /\ m.paymentType \in PaymentTypes
           /\ m.topic = "inventory.insufficient-stock" => m.reason \in StockFailures
           /\ m.topic = "inventory.released" => m.reason \in Denials
           /\ m.topic = "payments.denied" => m.reason \in Denials
  BY SagaInputs DEF Events, OrderEvents, InventoryEvents, PaymentEvents, Topics

---------------------------------------------------------------------------
(* Administrators keep the types of inventory-service.                     *)
LEMMA WebType ==
    ASSUME InventoryTypeOK, WebNext PROVE InventoryTypeOK'
  BY InventoryInputs DEF InventoryTypeOK, WebNext, CreateProduct, CreateStock,
     UpdateStockQuantity, Absent, KotlinInts

(* ReserveStock keeps the types, for the content of any order.             *)
LEMMA ReserveStockType ==
    ASSUME InventoryTypeOK, NEW o \in OrderIds, NEW p \in Products, NEW q \in Int,
           NEW t \in PaymentTypes, ReserveStock(o, p, q, t)
    PROVE  InventoryTypeOK'
<1> USE DEF InventoryTypeOK
<1>1. CASE UNCHANGED inventoryVars
  BY <1>1 DEF inventoryVars
<1>2. ASSUME NEW reason \in StockFailures, Refuse(o, reason) PROVE InventoryTypeOK'
  BY <1>2 DEF Refuse, InsufficientStock, InventoryEvents
<1>3. CASE stock[p] # Absent /\ stock[p] >= q /\ q > 0 /\ Reserve(o, p, q, t)
  <2>1. prices[p] * q \in Int
    BY DEF Absent
  <2>2. Wrap(prices[p] * q) \in Int
    BY <2>1, WrapType
  <2>3. InventoryReserved(o, Wrap(prices[p] * q), t) \in InventoryEvents
    BY <2>2 DEF InventoryReserved, InventoryEvents
  <2>4. stock' \in [Products -> Nat \cup {Absent}]
    BY <1>3 DEF Reserve, Amount, Absent
  <2>5. reservations' \in [OrderIds -> ReservationRows]
    BY <1>3 DEF Reserve, Amount, ReservationRows, ReservationStatuses
  <2> QED
    BY <1>3, <2>3, <2>4, <2>5 DEF Reserve, Amount
<1> QED
  BY <1>1, <1>2, <1>3 DEF ReserveStock, AnswerOrder, StockFailures

(* ReleaseStock keeps the types: an overflow that CHECK refuses is no step. *)
LEMMA ReleaseStockType ==
    ASSUME InventoryTypeOK, NEW o \in OrderIds, NEW reason \in Denials,
           ReleaseStock(o, reason)
    PROVE  InventoryTypeOK'
<1> USE DEF InventoryTypeOK
<1> DEFINE r == reservations[o]
<1>1. CASE UNCHANGED inventoryVars
  BY <1>1 DEF inventoryVars
<1>2. CASE /\ Wrap(stock[r.product] + r.quantity) >= 0
           /\ stock' = [stock EXCEPT ![r.product] = Wrap(@ + r.quantity)]
           /\ reservations' = [reservations EXCEPT ![o].status = "RELEASED"]
           /\ inventoryOutbox' = inventoryOutbox \cup {InventoryReleased(o, reason)}
           /\ UNCHANGED <<prices, supplied>>
  <2>1. InventoryReleased(o, reason) \in InventoryEvents
    BY DEF InventoryReleased, InventoryEvents
  <2>2. r.quantity \in Int
    BY DEF ReservationRows
  <2>3. stock' \in [Products -> Nat \cup {Absent}]
    <3>1. CASE r.product \in Products
      <4>1. stock[r.product] + r.quantity \in Int
        BY <2>2, <3>1 DEF Absent
      <4>2. Wrap(stock[r.product] + r.quantity) \in Nat
        BY <1>2, <4>1, WrapType
      <4> QED
        BY <1>2, <4>2
    <3>2. CASE r.product \notin Products
      BY <1>2, <3>2
    <3> QED
      BY <3>1, <3>2
  <2>4. reservations' \in [OrderIds -> ReservationRows]
    BY <1>2 DEF ReservationRows, ReservationStatuses
  <2> QED
    BY <1>2, <2>1, <2>3, <2>4
<1> QED
  BY <1>1, <1>2 DEF ReleaseStock, RestoreStock

(* ConfirmReservation keeps the types.                                     *)
LEMMA ConfirmReservationType ==
    ASSUME InventoryTypeOK, NEW o \in OrderIds, ConfirmReservation(o)
    PROVE  InventoryTypeOK'
  BY DEF InventoryTypeOK, ConfirmReservation, ReservationRows, ReservationStatuses

(* ProcessPayment keeps the types of payments-service.                     *)
LEMMA ProcessPaymentType ==
    ASSUME PaymentsTypeOK, NEW o \in OrderIds, NEW amount \in Int, NEW t \in PaymentTypes,
           ProcessPayment(o, amount, t)
    PROVE  PaymentsTypeOK'
<1> USE DEF PaymentsTypeOK
<1>1. CASE UNCHANGED paymentsVars
  BY <1>1 DEF paymentsVars
<1>2. CASE Decide(o, amount, t)
  <2> DEFINE reason == evaluate(amount, t)
  <2>1. reason \in Denials \cup {NoReason}
    BY DEF evaluate, Denials
  <2>2. payments' \in [OrderIds -> PaymentRows]
    BY <1>2, <2>1 DEF Decide, PaymentRows
  <2>3. paymentsOutbox' \subseteq PaymentEvents
    BY <1>2, <2>1 DEF Decide, PaymentDenied, PaymentAuthorized, PaymentEvents
  <2> QED
    BY <2>2, <2>3
<1> QED
  BY <1>1, <1>2 DEF ProcessPayment

---------------------------------------------------------------------------
(* The initial state is well typed.                                        *)
LEMMA InitType == Init => SagaTypeOK
<1> SUFFICES ASSUME Init PROVE SagaTypeOK
  OBVIOUS
<1>1. OrdersTypeOK
  <2>1. NoOrder \in OrderRows
    BY DEF NoOrder, OrderRows, Statuses, Reasons
  <2> QED
    BY <2>1 DEF Init, OrdersInit, OrdersTypeOK, Stages
<1>2. InventoryTypeOK
  BY DEF Init, InventoryInit, InventoryTypeOK, NoReservation, ReservationRows,
     ReservationStatuses, Absent
<1>3. PaymentsTypeOK
  BY DEF Init, PaymentsInit, PaymentsTypeOK, NoPayment, PaymentRows
<1> QED
  BY <1>1, <1>2, <1>3 DEF Init, SagaTypeOK

(* A handler keeps all types when the message it is given has its own.     *)
LEMMA DeliverType ==
    ASSUME SagaTypeOK, NEW m \in published, Deliver(m) PROVE SagaTypeOK'
<1>1. m \in Events
  BY DEF SagaTypeOK
<1>2. m.order \in OrderIds
  BY <1>1, EventFields
<1>3. CASE ordersConsumers(m)
  <2>1. m.topic \in {"inventory.released", "inventory.insufficient-stock"} => m.reason \in Reasons
    BY <1>1, EventFields DEF Reasons
  <2>2. OrdersTypeOK'
    BY <1>2, <1>3, <2>1, OrderMethodsType DEF SagaTypeOK, ordersConsumers, OnPaymentAuthorized,
       OnInventoryReleased, OnInsufficientStock
  <2> QED
    BY <1>3, <2>2 DEF SagaTypeOK, ordersConsumers, OnPaymentAuthorized,
       OnInventoryReleased, OnInsufficientStock, Deliver, kafkaVars, InventoryTypeOK,
       PaymentsTypeOK, inventoryVars, paymentsVars
<1>4. CASE inventoryConsumers(m)
  <2>1. ASSUME m.topic = "orders.created",
               ReserveStock(m.order, m.product, m.quantity, m.paymentType)
        PROVE  InventoryTypeOK'
    BY <1>1, <1>2, <2>1, EventFields, ReserveStockType DEF SagaTypeOK
  <2>2. ASSUME m.topic = "payments.denied", ReleaseStock(m.order, m.reason)
        PROVE  InventoryTypeOK'
    BY <1>1, <1>2, <2>2, EventFields, ReleaseStockType DEF SagaTypeOK
  <2>3. ASSUME ConfirmReservation(m.order) PROVE InventoryTypeOK'
    BY <1>2, <2>3, ConfirmReservationType DEF SagaTypeOK
  <2>4. InventoryTypeOK'
    BY <1>4, <2>1, <2>2, <2>3 DEF inventoryConsumers, OnOrderCreated, OnPaymentDenied,
       OnOrderConfirmed
  <2> QED
    BY <1>4, <2>4 DEF SagaTypeOK, inventoryConsumers, OnOrderCreated, OnPaymentDenied,
       OnOrderConfirmed, Deliver, kafkaVars, OrdersTypeOK,
       PaymentsTypeOK, ordersVars, paymentsVars
<1>5. CASE paymentsConsumers(m)
  <2>1. PaymentsTypeOK'
    BY <1>1, <1>2, <1>5, EventFields, ProcessPaymentType DEF SagaTypeOK, paymentsConsumers
  <2> QED
    BY <1>5, <2>1 DEF SagaTypeOK, paymentsConsumers, Deliver, kafkaVars, OrdersTypeOK,
       InventoryTypeOK, ordersVars, inventoryVars
<1> QED
  BY <1>3, <1>4, <1>5 DEF Deliver

(* Every step of the system keeps every service's types.                   *)
LEMMA NextType == SagaTypeOK /\ [Next]_vars => SagaTypeOK'
<1> SUFFICES ASSUME SagaTypeOK, [Next]_vars PROVE SagaTypeOK'
  OBVIOUS
<1>1. CASE ApiNext /\ UNCHANGED <<inventoryVars, paymentsVars, kafkaVars>>
  BY <1>1, ApiType DEF SagaTypeOK, InventoryTypeOK, PaymentsTypeOK, inventoryVars,
     paymentsVars, kafkaVars
<1>2. CASE WebNext /\ UNCHANGED <<ordersVars, paymentsVars, kafkaVars>>
  BY <1>2, WebType DEF SagaTypeOK, OrdersTypeOK, PaymentsTypeOK, ordersVars,
     paymentsVars, kafkaVars
<1>3. ASSUME NEW e \in Outboxes, Publish(e) \/ GiveUp(e) PROVE SagaTypeOK'
  <2>1. e \in Events
    BY DEF SagaTypeOK, OrdersTypeOK, InventoryTypeOK, PaymentsTypeOK, Outboxes, Events
  <2> QED
    BY <1>3, <2>1 DEF Publish, GiveUp, SagaTypeOK, OrdersTypeOK, InventoryTypeOK,
       PaymentsTypeOK, ordersVars, inventoryVars, paymentsVars
<1>4. ASSUME NEW m \in published, Skip(m) PROVE SagaTypeOK'
  BY <1>4 DEF Skip, SagaTypeOK, OrdersTypeOK, InventoryTypeOK, PaymentsTypeOK,
     ordersVars, inventoryVars, paymentsVars
<1>5. ASSUME NEW m \in published, Deliver(m) PROVE SagaTypeOK'
  BY <1>5, DeliverType
<1>6. CASE UNCHANGED vars
  BY <1>6 DEF vars, SagaTypeOK, OrdersTypeOK, InventoryTypeOK, PaymentsTypeOK,
     ordersVars, inventoryVars, paymentsVars, kafkaVars
<1> QED
  BY <1>1, <1>2, <1>3, <1>4, <1>5, <1>6 DEF Next, Environment

(* The three databases and the topics hold what their schemas allow, in    *)
(* every state of the saga.                                                *)
THEOREM TypeCorrect == Spec => []SagaTypeOK
<1> QED
  BY InitType, NextType, PTL DEF Spec

---------------------------------------------------------------------------
(* The inductive invariant, one lemma per step that disturbs it.           *)

(* A published message is in the outbox of the service that owns its topic. *)
LEMMA MessageOrigin ==
    ASSUME SagaTypeOK, published \subseteq Outboxes, NEW m \in published
    PROVE  /\ m.topic \in {"orders.created", "orders.confirmed"} => m \in ordersOutbox
           /\ m.topic \in {"inventory.reserved", "inventory.insufficient-stock",
                           "inventory.released"} => m \in inventoryOutbox
           /\ m.topic \in {"payments.authorized", "payments.denied"} => m \in paymentsOutbox
  BY DEF Outboxes, SagaTypeOK, OrdersTypeOK, InventoryTypeOK, PaymentsTypeOK,
     OrderEvents, InventoryEvents, PaymentEvents

(* Relays and skipping consumers touch no row.                             *)
LEMMA KafkaProvenance ==
    ASSUME Provenance, UNCHANGED <<ordersVars, inventoryVars, paymentsVars>>,
           published' \subseteq Outboxes
    PROVE  Provenance'
  BY DEF Provenance, ordersVars, inventoryVars, paymentsVars, Outboxes, CreatedByRequest,
     OrderEventsAreTrue, InventoryEventsAreTrue, PaymentEventsAreTrue,
     ReservationsComeFromOrders, PaymentsComeFromReservations, FinalStatesAgree,
     CanceledIsCompensated, Exists, HasReservation, AlreadyProcessed, ExistsByOrderID

(* A new product had no price, so no reservation was computed from it.     *)
LEMMA WebProvenance ==
    ASSUME SagaTypeOK, Provenance, WebNext,
           UNCHANGED <<ordersVars, paymentsVars, kafkaVars>>
    PROVE  Provenance'
<1>1. /\ UNCHANGED <<requests, orders, ordersOutbox, reservations, inventoryOutbox,
                     payments, paymentsOutbox, published>>
      /\ \A p \in Products : prices[p] # Absent => prices'[p] = prices[p]
  BY DEF WebNext, CreateProduct, CreateStock, UpdateStockQuantity, ordersVars,
     paymentsVars, kafkaVars, SagaTypeOK, InventoryTypeOK
<1>2. /\ \A o \in OrderIds : HasReservation(o) =>
           /\ prices'[orders[o].product] = prices[orders[o].product]
           /\ prices[orders[o].product] # Absent
      /\ \A e \in inventoryOutbox : e.order \in OrderIds
  BY <1>1 DEF Provenance, ReservationsComeFromOrders, SagaTypeOK, InventoryTypeOK,
     InventoryEvents
<1>3. InventoryEventsAreTrue'
  BY <1>1, <1>2 DEF Provenance, InventoryEventsAreTrue, HasReservation
<1>4. ReservationsComeFromOrders' /\ PaymentsComeFromReservations'
  BY <1>1, <1>2 DEF Provenance, ReservationsComeFromOrders, PaymentsComeFromReservations,
     HasReservation, Exists, ExistsByOrderID, AlreadyProcessed
<1> QED
  BY <1>1, <1>3, <1>4 DEF Provenance, Outboxes, CreatedByRequest, OrderEventsAreTrue,
     PaymentEventsAreTrue, FinalStatesAgree, CanceledIsCompensated, Exists,
     HasReservation, ExistsByOrderID

(* A request creates its order once: nobody knows the order before that.   *)
LEMMA ApiProvenance ==
    ASSUME SagaTypeOK, Provenance, ApiNext,
           UNCHANGED <<inventoryVars, paymentsVars, kafkaVars>>
    PROVE  Provenance'
<1> DEFINE Quiet == /\ UNCHANGED <<orders, ordersOutbox>>
                    /\ \A o \in OrderIds : Exists(o) => requests'[o] = requests[o]
           Creates(r) ==
             \E p \in Products, q \in Quantities, t \in PaymentTypes :
                CreateOrder(r, p, q, t)
<1>0. UNCHANGED <<prices, stock, reservations, inventoryOutbox, payments, paymentsOutbox,
                  published>>
  BY DEF inventoryVars, paymentsVars, kafkaVars
<1>1. Quiet \/ \E r \in OrderIds : Creates(r)
  BY DEF ApiNext, MissingKey, CreateOrderFails, IdempotencyMiddleware, ResentSetNX, ExpireKey,
     RejectBody, DuplicateOrder, Reach, SagaTypeOK, OrdersTypeOK, Provenance,
     CreatedByRequest
<1>2. CASE Quiet
  BY <1>0, <1>2 DEF Provenance, Outboxes, CreatedByRequest,
     OrderEventsAreTrue, InventoryEventsAreTrue, PaymentEventsAreTrue,
     ReservationsComeFromOrders, PaymentsComeFromReservations, FinalStatesAgree,
     CanceledIsCompensated, Exists, HasReservation, AlreadyProcessed, ExistsByOrderID
<1>3. ASSUME NEW r \in OrderIds, NEW p \in Products, NEW q \in Quantities,
             NEW t \in PaymentTypes, CreateOrder(r, p, q, t)
      PROVE  Provenance'
  <2>1. ~Exists(r) /\ ~HasReservation(r) /\ ~ExistsByOrderID(r)
    BY <1>3 DEF CreateOrder, InsertOrder, Provenance, CreatedByRequest, ReservationsComeFromOrders,
       PaymentsComeFromReservations
  <2>2. /\ \A o \in OrderIds \ {r} : orders'[o] = orders[o] /\ requests'[o] = requests[o]
        /\ orders'[r].status = "PENDING"
        /\ orders'[r].product = p /\ orders'[r].quantity = q /\ orders'[r].paymentType = t
        /\ requests'[r].stage \in {"202", "500"}
        /\ ordersOutbox' = ordersOutbox \cup {OrderCreated(r, p, q, t)}
    BY <1>3 DEF CreateOrder, InsertOrder, Reach, SagaTypeOK, OrdersTypeOK
  <2>3. CreatedByRequest'
    BY <2>2 DEF Provenance, CreatedByRequest, Exists
  <2>4. OrderEventsAreTrue'
    BY <2>1, <2>2 DEF Provenance, OrderEventsAreTrue, Exists, OrderCreated, SagaTypeOK,
       OrdersTypeOK, OrderEvents
  <2>5. InventoryEventsAreTrue'
    BY <1>0, <2>1, <2>2 DEF Provenance, InventoryEventsAreTrue, HasReservation, SagaTypeOK,
       InventoryTypeOK, InventoryEvents
  <2>6. ReservationsComeFromOrders' /\ PaymentsComeFromReservations'
    BY <1>0, <2>1, <2>2 DEF Provenance, ReservationsComeFromOrders,
       PaymentsComeFromReservations, HasReservation, Exists, ExistsByOrderID,
       AlreadyProcessed
  <2>7. FinalStatesAgree' /\ CanceledIsCompensated'
    BY <1>0, <2>1, <2>2 DEF Provenance, FinalStatesAgree, CanceledIsCompensated,
       HasReservation, Exists, ExistsByOrderID
  <2> QED
    BY <1>0, <2>2, <2>3, <2>4, <2>5, <2>6, <2>7 DEF Provenance, Outboxes,
       PaymentEventsAreTrue
<1> QED
  BY <1>1, <1>2, <1>3

(* Every outbox event is about an order.                                   *)
LEMMA OutboxOrders ==
    ASSUME SagaTypeOK
    PROVE  \A e \in Outboxes : e.order \in OrderIds
  BY DEF Outboxes, SagaTypeOK, OrdersTypeOK, InventoryTypeOK, PaymentsTypeOK,
     OrderEvents, InventoryEvents, PaymentEvents

(* What a change of an order's status alone leaves true.                   *)
LEMMA SameContent ==
    ASSUME SagaTypeOK, Provenance,
           UNCHANGED <<requests, prices, reservations, inventoryOutbox, payments>>,
           \A x \in OrderIds :
              /\ Exists(x)' <=> Exists(x)
              /\ orders'[x].product = orders[x].product
              /\ orders'[x].quantity = orders[x].quantity
              /\ orders'[x].paymentType = orders[x].paymentType
    PROVE  /\ CreatedByRequest'
           /\ InventoryEventsAreTrue'
           /\ ReservationsComeFromOrders'
           /\ PaymentsComeFromReservations'
<1>1. CreatedByRequest'
  BY DEF Provenance, CreatedByRequest
<1>2. \A e \in inventoryOutbox : e.order \in OrderIds
  BY OutboxOrders DEF Outboxes
<1>3. InventoryEventsAreTrue'
  BY <1>2 DEF Provenance, InventoryEventsAreTrue, HasReservation
<1>4. ReservationsComeFromOrders'
  BY DEF Provenance, ReservationsComeFromOrders, HasReservation, AlreadyProcessed
<1>5. PaymentsComeFromReservations'
  BY DEF Provenance, PaymentsComeFromReservations, HasReservation, ExistsByOrderID
<1> QED
  BY <1>1, <1>3, <1>4, <1>5

(* ConfirmOrder for a payments.authorized message, which is still true.    *)
LEMMA ConfirmOrderProvenance ==
    ASSUME SagaTypeOK, Provenance, NEW o \in OrderIds, payments[o].status = "AUTHORIZED",
           ConfirmOrder(o), UNCHANGED <<inventoryVars, paymentsVars, kafkaVars>>
    PROVE  Provenance'
<1>0. UNCHANGED <<requests, prices, stock, reservations, inventoryOutbox, payments,
                  paymentsOutbox, published>>
  BY DEF ConfirmOrder, UpdateStatusToConfirmed, inventoryVars, paymentsVars, kafkaVars
<1>1. CASE orders[o].status # "PENDING"
  BY <1>0, <1>1, KafkaProvenance DEF ConfirmOrder, UpdateStatusToConfirmed, Provenance, ordersVars,
     inventoryVars, paymentsVars, kafkaVars, Outboxes
<1>2. CASE orders[o].status = "PENDING"
  <2>1. /\ \A x \in OrderIds \ {o} : orders'[x] = orders[x]
        /\ orders'[o] = [orders[o] EXCEPT !.status = "CONFIRMED"]
        /\ ordersOutbox' = ordersOutbox \cup {OrderConfirmed(o)}
    BY <1>2 DEF ConfirmOrder, UpdateStatusToConfirmed, SagaTypeOK, OrdersTypeOK
  <2>2. /\ orders'[o].status = "CONFIRMED"
        /\ orders'[o].product = orders[o].product
        /\ orders'[o].quantity = orders[o].quantity
        /\ orders'[o].paymentType = orders[o].paymentType
    BY <2>1 DEF SagaTypeOK, OrdersTypeOK, OrderRows
  <2>3. \A x \in OrderIds :
           /\ Exists(x)' <=> Exists(x)
           /\ orders'[x].product = orders[x].product
           /\ orders'[x].quantity = orders[x].quantity
           /\ orders'[x].paymentType = orders[x].paymentType
    BY <1>2, <2>1, <2>2 DEF Exists
  <2>4. OrderEventsAreTrue'
    <3>1. \A e \in ordersOutbox : e.order \in OrderIds
      BY OutboxOrders DEF Outboxes
    <3>2. \A e \in ordersOutbox :
             /\ e.topic = "orders.created" =>
                  /\ Exists(e.order)'
                  /\ e.product = orders'[e.order].product
                  /\ e.quantity = orders'[e.order].quantity
                  /\ e.paymentType = orders'[e.order].paymentType
             /\ e.topic = "orders.confirmed" => orders'[e.order].status = "CONFIRMED"
      BY <1>2, <2>1, <2>2, <2>3, <3>1 DEF Provenance, OrderEventsAreTrue
    <3>3. /\ OrderConfirmed(o).topic = "orders.confirmed"
          /\ OrderConfirmed(o).order = o
      BY DEF OrderConfirmed
    <3> QED
      BY <2>1, <2>2, <3>2, <3>3 DEF OrderEventsAreTrue
  <2>6. /\ CreatedByRequest'
        /\ InventoryEventsAreTrue'
        /\ ReservationsComeFromOrders'
        /\ PaymentsComeFromReservations'
    BY <1>0, <2>3, SameContent
  <2>7. FinalStatesAgree' /\ CanceledIsCompensated'
    BY <1>0, <1>2, <2>1, <2>2 DEF Provenance, FinalStatesAgree, CanceledIsCompensated,
       HasReservation, ExistsByOrderID
  <2> QED
    BY <1>0, <2>1, <2>4, <2>6, <2>7 DEF Provenance, Outboxes, PaymentEventsAreTrue
<1> QED
  BY <1>1, <1>2

(* CancelOrder for a message that tells why the order cannot be fulfilled. *)
LEMMA CancelOrderProvenance ==
    ASSUME SagaTypeOK, Provenance, NEW o \in OrderIds, NEW reason \in Reasons,
           \/ InsufficientStock(o, reason) \in inventoryOutbox
           \/ InventoryReleased(o, reason) \in inventoryOutbox,
           CancelOrder(o, reason), UNCHANGED <<inventoryVars, paymentsVars, kafkaVars>>
    PROVE  Provenance'
<1>0. UNCHANGED <<requests, ordersOutbox, prices, stock, reservations, inventoryOutbox,
                  payments, paymentsOutbox, published>>
  BY DEF CancelOrder, UpdateStatusToCanceled, inventoryVars, paymentsVars, kafkaVars
<1>1. CASE orders[o].status # "PENDING"
  BY <1>0, <1>1, KafkaProvenance DEF CancelOrder, UpdateStatusToCanceled, Provenance, ordersVars,
     inventoryVars, paymentsVars, kafkaVars, Outboxes
<1>2. CASE orders[o].status = "PENDING"
  <2>1. /\ \A x \in OrderIds \ {o} : orders'[x] = orders[x]
        /\ orders'[o] = [orders[o] EXCEPT !.status = "CANCELED", !.reason = reason]
    BY <1>2 DEF CancelOrder, UpdateStatusToCanceled, SagaTypeOK, OrdersTypeOK
  <2>2. /\ orders'[o].status = "CANCELED"
        /\ orders'[o].reason = reason
        /\ orders'[o].product = orders[o].product
        /\ orders'[o].quantity = orders[o].quantity
        /\ orders'[o].paymentType = orders[o].paymentType
    BY <2>1 DEF SagaTypeOK, OrdersTypeOK, OrderRows
  <2>3. \A x \in OrderIds :
           /\ Exists(x)' <=> Exists(x)
           /\ orders'[x].product = orders[x].product
           /\ orders'[x].quantity = orders[x].quantity
           /\ orders'[x].paymentType = orders[x].paymentType
    BY <1>2, <2>1, <2>2 DEF Exists
  <2>4. OrderEventsAreTrue'
    <3>1. \A e \in ordersOutbox : e.order \in OrderIds
      BY OutboxOrders DEF Outboxes
    <3>2. \A e \in ordersOutbox :
             e.topic = "orders.confirmed" => orders'[e.order].status = "CONFIRMED"
      BY <1>2, <2>1, <2>2, <3>1 DEF Provenance, OrderEventsAreTrue
    <3> QED
      BY <1>0, <2>3, <3>1, <3>2 DEF Provenance, OrderEventsAreTrue
  <2>6. /\ CreatedByRequest'
        /\ InventoryEventsAreTrue'
        /\ ReservationsComeFromOrders'
        /\ PaymentsComeFromReservations'
    BY <1>0, <2>3, SameContent
  <2>7. FinalStatesAgree'
    BY <1>0, <1>2, <2>1, <2>2 DEF Provenance, FinalStatesAgree
  <2>8. \/ /\ InsufficientStock(o, reason) \in inventoryOutbox
           /\ ~HasReservation(o)
           /\ ~ExistsByOrderID(o)
        \/ /\ reservations[o].status = "RELEASED"
           /\ payments[o].status = "DENIED"
           /\ payments[o].reason = reason
    BY DEF Provenance, InventoryEventsAreTrue, PaymentsComeFromReservations,
       InsufficientStock, InventoryReleased
  <2>9. CanceledIsCompensated'
    BY <1>0, <2>1, <2>2, <2>8 DEF Provenance, CanceledIsCompensated,
       HasReservation, ExistsByOrderID
  <2> QED
    BY <1>0, <2>4, <2>6, <2>7, <2>9 DEF Provenance, Outboxes, PaymentEventsAreTrue
<1> QED
  BY <1>1, <1>2

---------------------------------------------------------------------------
(* ReserveStock for an orders.created message: it answers an order that    *)
(* exists, with that order's content, and only once.                       *)
LEMMA ReserveStockProvenance ==
    ASSUME SagaTypeOK, Provenance, NEW o \in OrderIds, NEW p \in Products,
           NEW q \in Int, NEW t \in PaymentTypes,
           Exists(o), orders[o].product = p, orders[o].quantity = q,
           orders[o].paymentType = t, ReserveStock(o, p, q, t),
           UNCHANGED <<ordersVars, paymentsVars, kafkaVars>>
    PROVE  Provenance'
<1>0. UNCHANGED <<requests, orders, ordersOutbox, payments, paymentsOutbox, published>>
  BY DEF ordersVars, paymentsVars, kafkaVars
<1>1. CASE UNCHANGED inventoryVars
  BY <1>0, <1>1, KafkaProvenance DEF Provenance, ordersVars, paymentsVars, Outboxes,
     inventoryVars
<1>2. ASSUME ~AlreadyProcessed(o, {"inventory.reserved", "inventory.insufficient-stock"}),
             AnswerOrder(o, p, q, t)
      PROVE  Provenance'
  <2>1. /\ ~HasReservation(o) /\ ~ExistsByOrderID(o)
        /\ orders[o].status # "CANCELED"
    BY <1>2 DEF Provenance, ReservationsComeFromOrders, PaymentsComeFromReservations,
       CanceledIsCompensated, AlreadyProcessed, InsufficientStock, HasReservation
  <2>2. ASSUME NEW reason \in StockFailures, Refuse(o, reason) PROVE Provenance'
    <3>1. /\ UNCHANGED <<prices, stock, reservations>>
          /\ inventoryOutbox' = inventoryOutbox \cup {InsufficientStock(o, reason)}
      BY <2>2 DEF Refuse
    <3>2. InventoryEventsAreTrue'
      BY <1>0, <2>1, <3>1 DEF Provenance, InventoryEventsAreTrue, HasReservation,
         InsufficientStock
    <3>3. ReservationsComeFromOrders' /\ PaymentsComeFromReservations'
      BY <1>0, <3>1 DEF Provenance, ReservationsComeFromOrders,
         PaymentsComeFromReservations, HasReservation, Exists, ExistsByOrderID,
         AlreadyProcessed
    <3>4. FinalStatesAgree' /\ CanceledIsCompensated'
      BY <1>0, <3>1 DEF Provenance, FinalStatesAgree, CanceledIsCompensated,
         HasReservation, ExistsByOrderID
    <3> QED
      BY <1>0, <3>1, <3>2, <3>3, <3>4 DEF Provenance, Outboxes, CreatedByRequest,
         OrderEventsAreTrue, PaymentEventsAreTrue, Exists
  <2>3. ASSUME prices[p] # Absent, Reserve(o, p, q, t) PROVE Provenance'
    <3> DEFINE amount == Wrap(prices[p] * q)
    <3>1. /\ UNCHANGED prices
          /\ \A x \in OrderIds \ {o} : reservations'[x] = reservations[x]
          /\ reservations'[o] = [status |-> "RESERVED", product |-> p, quantity |-> q]
          /\ inventoryOutbox' = inventoryOutbox \cup {InventoryReserved(o, amount, t)}
      BY <2>3 DEF Reserve, Amount, SagaTypeOK, InventoryTypeOK
    <3>2. \A e \in inventoryOutbox :
             e.order = o => e.topic \notin {"inventory.reserved",
                               "inventory.insufficient-stock", "inventory.released"}
      BY <1>2, <2>1 DEF AlreadyProcessed, Provenance, InventoryEventsAreTrue,
         HasReservation
    <3>3. /\ HasReservation(o)'
          /\ \A x \in OrderIds \ {o} : HasReservation(x)' <=> HasReservation(x)
      BY <3>1 DEF HasReservation
    <3>4. InventoryEventsAreTrue'
      <4>1. ASSUME NEW e \in inventoryOutbox, e.order # o
            PROVE  /\ reservations'[e.order] = reservations[e.order]
                   /\ HasReservation(e.order)' <=> HasReservation(e.order)
        BY <3>1, <3>3, <4>1 DEF SagaTypeOK, InventoryTypeOK, InventoryEvents
      <4> QED
        BY <1>0, <3>1, <3>2, <3>3, <4>1 DEF Provenance, InventoryEventsAreTrue,
           InventoryReserved
    <3>5. AlreadyProcessed(o, {"inventory.reserved"})'
      <4>1. InventoryReserved(o, amount, t) \in inventoryOutbox'
        BY <3>1
      <4> QED
        BY <4>1 DEF AlreadyProcessed, InventoryReserved
    <3>6. ReservationsComeFromOrders'
      BY <1>0, <2>3, <3>1, <3>3, <3>5 DEF Provenance, ReservationsComeFromOrders, Exists,
         AlreadyProcessed
    <3>7. PaymentsComeFromReservations'
      BY <1>0, <2>1, <3>1, <3>3 DEF Provenance, PaymentsComeFromReservations,
         ExistsByOrderID
    <3>8. FinalStatesAgree' /\ CanceledIsCompensated'
      BY <1>0, <2>1, <3>1, <3>3 DEF Provenance, FinalStatesAgree, CanceledIsCompensated,
         ExistsByOrderID
    <3> QED
      BY <1>0, <3>1, <3>4, <3>6, <3>7, <3>8 DEF Provenance, Outboxes, CreatedByRequest,
         OrderEventsAreTrue, PaymentEventsAreTrue, Exists
  <2> QED
    BY <1>2, <2>2, <2>3 DEF AnswerOrder, StockFailures
<1> QED
  BY <1>1, <1>2 DEF ReserveStock

(* ReleaseStock for a payments.denied message, which is still true.        *)
LEMMA ReleaseStockProvenance ==
    ASSUME SagaTypeOK, Provenance, NEW o \in OrderIds, NEW reason \in Denials,
           payments[o].status = "DENIED", payments[o].reason = reason,
           ReleaseStock(o, reason), UNCHANGED <<ordersVars, paymentsVars, kafkaVars>>
    PROVE  Provenance'
<1>0. UNCHANGED <<requests, orders, ordersOutbox, payments, paymentsOutbox, published>>
  BY DEF ordersVars, paymentsVars, kafkaVars
<1>1. CASE UNCHANGED inventoryVars
  BY <1>0, <1>1, KafkaProvenance DEF Provenance, ordersVars, paymentsVars, Outboxes,
     inventoryVars
<1>2. ASSUME ~AlreadyProcessed(o, {"inventory.released"}), HasReservation(o),
             reservations' = [reservations EXCEPT ![o].status = "RELEASED"],
             inventoryOutbox' = inventoryOutbox \cup {InventoryReleased(o, reason)},
             UNCHANGED <<prices, supplied>>
      PROVE  Provenance'
  <2>1. /\ \A x \in OrderIds \ {o} : reservations'[x] = reservations[x]
        /\ reservations'[o] = [reservations[o] EXCEPT !.status = "RELEASED"]
    BY <1>2 DEF SagaTypeOK, InventoryTypeOK
  <2>2. /\ reservations'[o].status = "RELEASED"
        /\ reservations'[o].product = reservations[o].product
        /\ reservations'[o].quantity = reservations[o].quantity
    BY <2>1 DEF SagaTypeOK, InventoryTypeOK, ReservationRows
  <2>3. \A x \in OrderIds : HasReservation(x)' <=> HasReservation(x)
    BY <1>2, <2>1, <2>2 DEF HasReservation
  <2>4. InventoryEventsAreTrue'
    <3>1. \A e \in inventoryOutbox : e.order \in OrderIds
      BY DEF SagaTypeOK, InventoryTypeOK, InventoryEvents
    <3> QED
      BY <1>0, <1>2, <2>1, <2>2, <2>3, <3>1 DEF Provenance, InventoryEventsAreTrue,
         InventoryReleased
  <2>5. ReservationsComeFromOrders' /\ PaymentsComeFromReservations'
    BY <1>0, <1>2, <2>1, <2>2, <2>3 DEF Provenance, ReservationsComeFromOrders,
       PaymentsComeFromReservations, Exists, ExistsByOrderID, AlreadyProcessed
  <2>6. FinalStatesAgree' /\ CanceledIsCompensated'
    BY <1>0, <1>2, <2>1, <2>2, <2>3 DEF Provenance, FinalStatesAgree,
       CanceledIsCompensated, ExistsByOrderID
  <2> QED
    BY <1>0, <1>2, <2>4, <2>5, <2>6 DEF Provenance, Outboxes, CreatedByRequest,
       OrderEventsAreTrue, PaymentEventsAreTrue, Exists
<1> QED
  BY <1>1, <1>2 DEF ReleaseStock, RestoreStock

(* ConfirmReservation for an orders.confirmed message, which is still true:   *)
(* the payment is authorized, so the reservation was not released.            *)
LEMMA ConfirmReservationProvenance ==
    ASSUME SagaTypeOK, Provenance, NEW o \in OrderIds, orders[o].status = "CONFIRMED",
           ConfirmReservation(o), UNCHANGED <<ordersVars, paymentsVars, kafkaVars>>
    PROVE  Provenance'
<1>0. UNCHANGED <<requests, orders, ordersOutbox, prices, stock, inventoryOutbox, payments,
                  paymentsOutbox, published>>
  BY DEF ConfirmReservation, ordersVars, paymentsVars, kafkaVars
<1>1. payments[o].status = "AUTHORIZED" /\ reservations[o].status # "RELEASED"
  BY DEF Provenance, FinalStatesAgree
<1>2. HasReservation(o)
  BY <1>1 DEF Provenance, PaymentsComeFromReservations, ExistsByOrderID
<1>3. /\ \A x \in OrderIds \ {o} : reservations'[x] = reservations[x]
      /\ reservations'[o] = [reservations[o] EXCEPT !.status = "CONFIRMED"]
  BY <1>2 DEF ConfirmReservation, SagaTypeOK, InventoryTypeOK
<1>4. /\ reservations'[o].status = "CONFIRMED"
      /\ reservations'[o].product = reservations[o].product
      /\ reservations'[o].quantity = reservations[o].quantity
  BY <1>3 DEF SagaTypeOK, InventoryTypeOK, ReservationRows
<1>5. \A x \in OrderIds : HasReservation(x)' <=> HasReservation(x)
  BY <1>2, <1>3, <1>4 DEF HasReservation
<1>6. InventoryEventsAreTrue'
  <2>1. \A e \in inventoryOutbox : e.order \in OrderIds
    BY DEF SagaTypeOK, InventoryTypeOK, InventoryEvents
  <2> QED
    BY <1>0, <1>1, <1>3, <1>5, <2>1 DEF Provenance, InventoryEventsAreTrue
<1>7. ReservationsComeFromOrders' /\ PaymentsComeFromReservations'
  <2>1. \A x \in OrderIds :
           /\ reservations'[x].product = reservations[x].product
           /\ reservations'[x].quantity = reservations[x].quantity
    BY <1>3, <1>4
  <2> QED
    BY <1>0, <1>5, <2>1 DEF Provenance, ReservationsComeFromOrders,
       PaymentsComeFromReservations, Exists, ExistsByOrderID, AlreadyProcessed
<1>8. FinalStatesAgree' /\ CanceledIsCompensated'
  BY <1>0, <1>3, <1>4, <1>5 DEF Provenance, FinalStatesAgree, CanceledIsCompensated,
     ExistsByOrderID
<1> QED
  BY <1>0, <1>6, <1>7, <1>8 DEF Provenance, Outboxes, CreatedByRequest,
     OrderEventsAreTrue, PaymentEventsAreTrue, Exists

(* ProcessPayment for an inventory.reserved message: it decides an order   *)
(* that was reserved, at the amount of the reservation, and only once.     *)
LEMMA ProcessPaymentProvenance ==
    ASSUME SagaTypeOK, Provenance, NEW o \in OrderIds, NEW amount \in Int,
           NEW t \in PaymentTypes, HasReservation(o),
           amount = Wrap(prices[orders[o].product] * orders[o].quantity),
           t = orders[o].paymentType, ProcessPayment(o, amount, t),
           UNCHANGED <<ordersVars, inventoryVars, kafkaVars>>
    PROVE  Provenance'
<1>0. UNCHANGED <<requests, orders, ordersOutbox, prices, stock, reservations,
                  inventoryOutbox, published>>
  BY DEF ordersVars, inventoryVars, kafkaVars
<1>1. CASE UNCHANGED paymentsVars
  BY <1>0, <1>1, KafkaProvenance DEF Provenance, ordersVars, inventoryVars, Outboxes,
     paymentsVars
<1>2. ASSUME ~ExistsByOrderID(o), Decide(o, amount, t) PROVE Provenance'
  <2> DEFINE reason == evaluate(amount, t)
             event == IF reason # NoReason THEN PaymentDenied(o, reason)
                      ELSE PaymentAuthorized(o)
  <2>1. /\ \A x \in OrderIds \ {o} : payments'[x] = payments[x]
        /\ payments'[o] =
              [status |-> IF reason # NoReason THEN "DENIED" ELSE "AUTHORIZED",
               amount |-> amount, paymentType |-> t, reason |-> reason]
        /\ paymentsOutbox' = paymentsOutbox \cup {event}
    BY <1>2 DEF Decide, SagaTypeOK, PaymentsTypeOK
  <2>2. /\ event.order = o
        /\ event.topic = "payments.authorized" => payments'[o].status = "AUTHORIZED"
        /\ event.topic = "payments.denied" =>
              payments'[o].status = "DENIED" /\ payments'[o].reason = event.reason
    <3>1. CASE reason # NoReason
      BY <2>1, <3>1 DEF PaymentDenied
    <3>2. CASE reason = NoReason
      BY <2>1, <3>2 DEF PaymentAuthorized
    <3> QED
      BY <3>1, <3>2
  <2>3. /\ orders[o].status \notin {"CONFIRMED", "CANCELED"}
        /\ reservations[o].status # "RELEASED"
    BY <1>2 DEF Provenance, FinalStatesAgree, CanceledIsCompensated, ExistsByOrderID
  <2>4. /\ \A e \in paymentsOutbox : e.order \in OrderIds
        /\ \A e \in inventoryOutbox : e.order \in OrderIds
    BY OutboxOrders DEF Outboxes
  <2>5. PaymentEventsAreTrue'
    <3>1. \A e \in paymentsOutbox :
             e.order = o => e.topic \notin {"payments.authorized", "payments.denied"}
      BY <1>2 DEF Provenance, PaymentEventsAreTrue, ExistsByOrderID
    <3> QED
      BY <2>1, <2>2, <2>4, <3>1 DEF Provenance, PaymentEventsAreTrue
  <2>6. InventoryEventsAreTrue'
    BY <1>0, <2>1, <2>3, <2>4 DEF Provenance, InventoryEventsAreTrue, HasReservation
  <2>7. ReservationsComeFromOrders'
    BY <1>0 DEF Provenance, ReservationsComeFromOrders, HasReservation, Exists,
       AlreadyProcessed
  <2>8. PaymentsComeFromReservations'
    BY <1>0, <2>1 DEF Provenance, PaymentsComeFromReservations, HasReservation,
       ExistsByOrderID
  <2>9. FinalStatesAgree' /\ CanceledIsCompensated'
    BY <1>0, <2>1, <2>3 DEF Provenance, FinalStatesAgree, CanceledIsCompensated,
       HasReservation, ExistsByOrderID
  <2> QED
    BY <1>0, <2>1, <2>5, <2>6, <2>7, <2>8, <2>9 DEF Provenance, Outboxes,
       CreatedByRequest, OrderEventsAreTrue, Exists
<1> QED
  BY <1>1, <1>2 DEF ProcessPayment

---------------------------------------------------------------------------
(* A handler keeps the invariant, because its message still tells the truth. *)
LEMMA DeliverProvenance ==
    ASSUME SagaTypeOK, Provenance, NEW m \in published, Deliver(m) PROVE Provenance'
<1> DEFINE o == m.order
<1>1. m \in Events /\ o \in OrderIds
  BY EventFields DEF SagaTypeOK
<1>2. published \subseteq Outboxes
  BY DEF Provenance
<1>3. UNCHANGED kafkaVars
  BY DEF Deliver
<1>4. CASE ordersConsumers(m)
  <2>1. UNCHANGED <<inventoryVars, paymentsVars>>
    BY <1>4 DEF ordersConsumers, OnPaymentAuthorized,
       OnInventoryReleased, OnInsufficientStock
  <2>2. ASSUME m.topic = "payments.authorized", ConfirmOrder(o) PROVE Provenance'
    <3>1. payments[o].status = "AUTHORIZED"
      BY <1>2, <2>2, MessageOrigin DEF Provenance, PaymentEventsAreTrue
    <3> QED
      BY <1>1, <1>3, <2>1, <2>2, <3>1, ConfirmOrderProvenance
  <2>3. ASSUME m.topic = "inventory.released", CancelOrder(o, m.reason)
        PROVE  Provenance'
    <3>1. m \in inventoryOutbox /\ m.reason \in Reasons
      BY <1>1, <1>2, <2>3, MessageOrigin, EventFields DEF Reasons
    <3>2. m = InventoryReleased(o, m.reason)
      BY <1>1, <2>3 DEF Events, OrderEvents, InventoryEvents, PaymentEvents,
         InventoryReleased
    <3> QED
      BY <1>1, <1>3, <2>1, <2>3, <3>1, <3>2, CancelOrderProvenance
  <2>4. ASSUME m.topic = "inventory.insufficient-stock", CancelOrder(o, m.reason)
        PROVE  Provenance'
    <3>1. m \in inventoryOutbox /\ m.reason \in Reasons
      BY <1>1, <1>2, <2>4, MessageOrigin, EventFields DEF Reasons
    <3>2. m = InsufficientStock(o, m.reason)
      BY <1>1, <2>4 DEF Events, OrderEvents, InventoryEvents, PaymentEvents,
         InsufficientStock
    <3> QED
      BY <1>1, <1>3, <2>1, <2>4, <3>1, <3>2, CancelOrderProvenance
  <2> QED
    BY <1>4, <2>2, <2>3, <2>4 DEF ordersConsumers, OnPaymentAuthorized,
       OnInventoryReleased, OnInsufficientStock
<1>5. CASE inventoryConsumers(m)
  <2>1. UNCHANGED <<ordersVars, paymentsVars>>
    BY <1>5 DEF inventoryConsumers, OnOrderCreated, OnPaymentDenied,
       OnOrderConfirmed
  <2>2. ASSUME m.topic = "orders.created",
               ReserveStock(o, m.product, m.quantity, m.paymentType)
        PROVE  Provenance'
    <3>1. m \in ordersOutbox
      BY <1>2, <2>2, MessageOrigin
    <3>2. /\ Exists(o) /\ orders[o].product = m.product
          /\ orders[o].quantity = m.quantity /\ orders[o].paymentType = m.paymentType
      BY <2>2, <3>1 DEF Provenance, OrderEventsAreTrue
    <3>3. m.product \in Products /\ m.quantity \in Int /\ m.paymentType \in PaymentTypes
      BY <1>1, <2>2, EventFields
    <3> QED
      BY <1>1, <1>3, <2>1, <2>2, <3>2, <3>3, ReserveStockProvenance
  <2>3. ASSUME m.topic = "payments.denied", ReleaseStock(o, m.reason)
        PROVE  Provenance'
    <3>1. m \in paymentsOutbox /\ m.reason \in Denials
      BY <1>1, <1>2, <2>3, MessageOrigin, EventFields
    <3>2. payments[o].status = "DENIED" /\ payments[o].reason = m.reason
      BY <2>3, <3>1 DEF Provenance, PaymentEventsAreTrue
    <3> QED
      BY <1>1, <1>3, <2>1, <2>3, <3>1, <3>2, ReleaseStockProvenance
  <2>4. ASSUME m.topic = "orders.confirmed", ConfirmReservation(o) PROVE Provenance'
    <3>1. orders[o].status = "CONFIRMED"
      BY <1>2, <2>4, MessageOrigin DEF Provenance, OrderEventsAreTrue
    <3> QED
      BY <1>1, <1>3, <2>1, <2>4, <3>1, ConfirmReservationProvenance
  <2> QED
    BY <1>5, <2>2, <2>3, <2>4 DEF inventoryConsumers, OnOrderCreated, OnPaymentDenied,
       OnOrderConfirmed
<1>6. CASE paymentsConsumers(m)
  <2>1. m \in inventoryOutbox /\ m.amount \in Int /\ m.paymentType \in PaymentTypes
    BY <1>1, <1>2, <1>6, MessageOrigin, EventFields DEF paymentsConsumers
  <2>2. /\ HasReservation(o)
        /\ m.paymentType = orders[o].paymentType
        /\ m.amount = Wrap(prices[orders[o].product] * orders[o].quantity)
    BY <1>6, <2>1 DEF paymentsConsumers, Provenance, InventoryEventsAreTrue
  <2> QED
    BY <1>1, <1>3, <1>6, <2>1, <2>2, ProcessPaymentProvenance DEF paymentsConsumers
<1> QED
  BY <1>4, <1>5, <1>6 DEF Deliver

(* Every step of the system keeps the invariant.                           *)
LEMMA NextProvenance == SagaTypeOK /\ Provenance /\ [Next]_vars => Provenance'
<1> SUFFICES ASSUME SagaTypeOK, Provenance, [Next]_vars PROVE Provenance'
  OBVIOUS
<1>1. CASE ApiNext /\ UNCHANGED <<inventoryVars, paymentsVars, kafkaVars>>
  BY <1>1, ApiProvenance
<1>2. CASE WebNext /\ UNCHANGED <<ordersVars, paymentsVars, kafkaVars>>
  BY <1>2, WebProvenance
<1>3. ASSUME NEW e \in Outboxes, Publish(e) \/ GiveUp(e) PROVE Provenance'
  BY <1>3, KafkaProvenance DEF Publish, GiveUp, Provenance
<1>4. ASSUME NEW m \in published, Skip(m) PROVE Provenance'
  BY <1>4, KafkaProvenance DEF Skip, Provenance
<1>5. ASSUME NEW m \in published, Deliver(m) PROVE Provenance'
  BY <1>5, DeliverProvenance
<1>6. CASE UNCHANGED vars
  BY <1>6, KafkaProvenance DEF vars, kafkaVars, Provenance
<1> QED
  BY <1>1, <1>2, <1>3, <1>4, <1>5, <1>6 DEF Next, Environment

(* Nothing exists at first, so every event is true.                        *)
LEMMA InitProvenance == Init => Provenance
  BY DEF Init, OrdersInit, InventoryInit, PaymentsInit, Provenance, CreatedByRequest,
     OrderEventsAreTrue, InventoryEventsAreTrue, PaymentEventsAreTrue,
     ReservationsComeFromOrders, PaymentsComeFromReservations, FinalStatesAgree,
     CanceledIsCompensated, Exists, HasReservation, ExistsByOrderID, NoOrder,
     NoReservation, NoPayment

(* Every published message was announced, every event stays true and every *)
(* row has its cause: the inductive invariant of the saga.                 *)
THEOREM ProvenanceHolds == Spec => []Provenance
<1> QED
  BY InitType, NextType, InitProvenance, NextProvenance, PTL DEF Spec

---------------------------------------------------------------------------
(* What follows from the invariant.                                        *)

(* An order is CONFIRMED only with an authorized payment and its units set *)
(* aside.                                                                  *)
THEOREM Confirmation == Spec => []ConfirmedIsPaid
<1>1. SagaTypeOK /\ Provenance => ConfirmedIsPaid
  BY DEF Provenance, FinalStatesAgree, PaymentsComeFromReservations, ConfirmedIsPaid,
     ExistsByOrderID, HasReservation, SagaTypeOK, InventoryTypeOK, ReservationRows,
     ReservationStatuses
<1> QED
  BY <1>1, TypeCorrect, ProvenanceHolds, PTL

(* A CANCELED order was refused before anything was reserved, or its       *)
(* payment was denied and its units are back in stock.                     *)
THEOREM Compensation == Spec => []CanceledIsCompensated
<1>1. Provenance => CanceledIsCompensated
  BY DEF Provenance
<1> QED
  BY <1>1, ProvenanceHolds, PTL

(* No reservation is confirmed against its order or released against its   *)
(* payment, though the services do not check.                              *)
THEOREM ReservationAndPayment == Spec => []ReservationFollowsPayment
<1>1. Provenance => ReservationFollowsPayment
  BY DEF Provenance, FinalStatesAgree, PaymentsComeFromReservations,
     ReservationFollowsPayment
<1> QED
  BY <1>1, ProvenanceHolds, PTL

(* What the customer ordered is what is reserved and charged for.          *)
THEOREM Charging == Spec => []ChargedForWhatWasOrdered
<1>1. Provenance => ChargedForWhatWasOrdered
  BY DEF Provenance, ReservationsComeFromOrders, PaymentsComeFromReservations,
     ChargedForWhatWasOrdered
<1> QED
  BY <1>1, ProvenanceHolds, PTL

(* A settled reservation is left alone by every step.                      *)
LEMMA SettledStays ==
    ASSUME SagaTypeOK, Provenance, [Next]_vars, NEW o \in OrderIds,
           reservations[o].status \in {"CONFIRMED", "RELEASED"}
    PROVE  reservations'[o] = reservations[o]
<1>1. HasReservation(o)
  BY DEF HasReservation
<1>2. AlreadyProcessed(o, {"inventory.reserved", "inventory.insufficient-stock"})
  BY <1>1 DEF Provenance, ReservationsComeFromOrders, AlreadyProcessed
<1>3. ASSUME NEW m \in published, Deliver(m) PROVE reservations'[o] = reservations[o]
  <2>1. m \in Events /\ published \subseteq Outboxes
    BY DEF SagaTypeOK, Provenance
  <2>2. m.order \in OrderIds
    BY <2>1, EventFields
  <2>3. CASE ordersConsumers(m) \/ paymentsConsumers(m)
    BY <2>3 DEF ordersConsumers, OnPaymentAuthorized,
       OnInventoryReleased, OnInsufficientStock, paymentsConsumers, inventoryVars
  <2>4. ASSUME ReserveStock(m.order, m.product, m.quantity, m.paymentType)
        PROVE  reservations'[o] = reservations[o]
    <3>1. CASE m.order = o
      BY <1>2, <2>4, <3>1 DEF ReserveStock, inventoryVars
    <3>2. CASE m.order # o
      BY <2>2, <2>4, <3>2 DEF ReserveStock, AnswerOrder, Refuse, Reserve, Amount, inventoryVars,
         SagaTypeOK, InventoryTypeOK
    <3> QED
      BY <3>1, <3>2
  <2>5. ASSUME m.topic = "payments.denied", ReleaseStock(m.order, m.reason)
        PROVE  reservations'[o] = reservations[o]
    <3>1. CASE m.order = o
      <4>1. payments[o].status = "DENIED"
        BY <2>1, <2>5, <3>1, MessageOrigin DEF Provenance, PaymentEventsAreTrue
      <4>2. reservations[o].status = "RELEASED"
        BY <4>1 DEF Provenance, FinalStatesAgree
      <4>3. [reservations[o] EXCEPT !.status = "RELEASED"] = reservations[o]
        BY <4>2 DEF SagaTypeOK, InventoryTypeOK, ReservationRows
      <4> QED
        BY <2>5, <3>1, <4>3 DEF ReleaseStock, RestoreStock, inventoryVars, SagaTypeOK, InventoryTypeOK
    <3>2. CASE m.order # o
      BY <2>5, <3>2 DEF ReleaseStock, RestoreStock, inventoryVars, SagaTypeOK, InventoryTypeOK
    <3> QED
      BY <3>1, <3>2
  <2>6. ASSUME m.topic = "orders.confirmed", ConfirmReservation(m.order)
        PROVE  reservations'[o] = reservations[o]
    <3>1. CASE m.order = o
      <4>1. orders[o].status = "CONFIRMED"
        BY <2>1, <2>6, <3>1, MessageOrigin DEF Provenance, OrderEventsAreTrue
      <4>2. reservations[o].status = "CONFIRMED"
        BY <4>1 DEF Provenance, FinalStatesAgree
      <4>3. [reservations[o] EXCEPT !.status = "CONFIRMED"] = reservations[o]
        BY <4>2 DEF SagaTypeOK, InventoryTypeOK, ReservationRows
      <4> QED
        BY <2>6, <3>1, <4>3 DEF ConfirmReservation, SagaTypeOK, InventoryTypeOK
    <3>2. CASE m.order # o
      BY <2>6, <3>2 DEF ConfirmReservation, SagaTypeOK, InventoryTypeOK
    <3> QED
      BY <3>1, <3>2
  <2> QED
    BY <1>3, <2>3, <2>4, <2>5, <2>6 DEF Deliver, inventoryConsumers, OnOrderCreated,
       OnPaymentDenied, OnOrderConfirmed
<1>4. CASE WebNext
  BY <1>4 DEF WebNext, CreateProduct, CreateStock, UpdateStockQuantity
<1>5. CASE UNCHANGED inventoryVars
  BY <1>5 DEF inventoryVars
<1> QED
  BY <1>3, <1>4, <1>5 DEF Next, Environment, Publish, GiveUp, Skip, vars

(* CONFIRMED and RELEASED are final, though no statement guards them.      *)
THEOREM Finality == Spec => ReservationIsFinal
<1>1. SagaTypeOK /\ Provenance /\ [Next]_vars =>
        [\A o \in OrderIds : reservations[o].status \in {"CONFIRMED", "RELEASED"} =>
            reservations'[o] = reservations[o]]_vars
  BY SettledStays
<1> QED
  BY <1>1, TypeCorrect, ProvenanceHolds, PTL DEF Spec, ReservationIsFinal

---------------------------------------------------------------------------
(* orders-service in the saga: the messages its consumers are handed are   *)
(* among those the environment of OrdersSpec sends.                        *)
THEOREM OrdersInTheSaga == Spec => OrdersSpec
<1>1. Init => OrdersInit
  BY DEF Init
<1>2. SagaTypeOK /\ [Next]_vars => [OrdersNext]_ordersVars
  <2> SUFFICES ASSUME SagaTypeOK, [Next]_vars PROVE [OrdersNext]_ordersVars
    OBVIOUS
  <2>1. ASSUME NEW m \in published, Deliver(m) PROVE [OrdersNext]_ordersVars
    <3>1. m \in Events
      BY DEF SagaTypeOK
    <3>2. m.order \in OrderIds
      BY <3>1, EventFields
    <3>3. m.topic \in {"inventory.released", "inventory.insufficient-stock"} =>
             m.reason \in Reasons \ {NoReason}
      BY <3>1, EventFields DEF Reasons, StockFailures, Denials, NoReason
    <3>4. CASE ordersConsumers(m)
      BY <3>2, <3>3, <3>4 DEF ordersConsumers, OnPaymentAuthorized,
       OnInventoryReleased, OnInsufficientStock, OrdersNext
    <3>5. CASE UNCHANGED ordersVars
      BY <3>5
    <3> QED
      BY <2>1, <3>4, <3>5 DEF Deliver, inventoryConsumers, OnOrderCreated,
       OnPaymentDenied, OnOrderConfirmed, paymentsConsumers
  <2>2. CASE Environment
    BY <2>2 DEF Environment, OrdersNext, ordersVars
  <2>3. ASSUME NEW e, Publish(e) \/ GiveUp(e) \/ Skip(e) PROVE UNCHANGED ordersVars
    BY <2>3 DEF Publish, GiveUp, Skip
  <2>4. CASE UNCHANGED vars
    BY <2>4 DEF vars
  <2> QED
    BY <2>1, <2>2, <2>3, <2>4 DEF Next
<1> QED
  BY <1>1, <1>2, TypeCorrect, PTL DEF Spec, OrdersSpec

(* So what holds of orders-service under any messages holds in the saga:   *)
(* one order per key, honest 202 and 409 answers, an outbox that agrees    *)
(* with the table, final statuses that stay.                               *)
THEOREM OrdersPromises ==
    Spec => /\ [](OneOrderPerKey /\ AcceptedIsStored)
            /\ [](ConflictHasACause /\ OutboxMatchesOrders)
            /\ FinalStatusIsKept
<1> QED
  BY OrdersInTheSaga, Idempotence, HonestAnswers, HonestConflicts, OutboxAgrees, SettledOrders, PTL

---------------------------------------------------------------------------
(* inventory-service alone, whatever messages it is handed.                *)

(* Its tables and outbox keep their types.                                 *)
THEOREM InventoryTypeCorrect == InventorySpec => []InventoryTypeOK
<1>1. InventoryInit => InventoryTypeOK
  BY DEF InventoryInit, InventoryTypeOK, Absent, NoReservation, ReservationRows,
         ReservationStatuses
<1>2. InventoryTypeOK /\ [InventoryNext]_inventoryVars => InventoryTypeOK'
  <2> SUFFICES ASSUME InventoryTypeOK, [InventoryNext]_inventoryVars PROVE InventoryTypeOK'
    OBVIOUS
  <2>1. CASE UNCHANGED inventoryVars
    BY <2>1 DEF inventoryVars, InventoryTypeOK
  <2>2. \A q \in Quantities : q \in Int
    BY SagaInputs
  <2> QED
    BY <2>1, <2>2, WebType, ReserveStockType, ReleaseStockType, ConfirmReservationType
    DEF InventoryNext
<1> QED
  BY <1>1, <1>2, PTL DEF InventorySpec

Answers(o)  == EventsAbout(o, {"inventory.reserved", "inventory.insufficient-stock"})
Releases(o) == EventsAbout(o, {"inventory.released"})

(* What the idempotency checks keep: no order has two answers or two       *)
(* releases, and it has a reservation exactly if it has the event.         *)
AnsweredOnce(o) ==
    /\ \A e, f \in Answers(o) : e = f
    /\ \A e, f \in Releases(o) : e = f
    /\ HasReservation(o) <=> AlreadyProcessed(o, {"inventory.reserved"})
    /\ Releases(o) # {} => HasReservation(o)

(* No call of ReserveStock answers an order again.                         *)
LEMMA ReserveStockOnce ==
    ASSUME InventoryTypeOK, NEW o \in OrderIds, AnsweredOnce(o), NEW d \in OrderIds,
           NEW p \in Products, NEW q \in Quantities, NEW t \in PaymentTypes,
           ReserveStock(d, p, q, t)
    PROVE  AnsweredOnce(o)'
<1> USE DEF AnsweredOnce, Answers, Releases, EventsAbout, AlreadyProcessed, HasReservation
<1>1. CASE UNCHANGED inventoryVars
  BY <1>1 DEF inventoryVars
<1>2. CASE /\ ~AlreadyProcessed(d, {"inventory.reserved", "inventory.insufficient-stock"})
           /\ AnswerOrder(d, p, q, t)
  <2>1. CASE d # o
    <3>1. reservations'[o] = reservations[o]
      BY <1>2, <2>1 DEF AnswerOrder, Refuse, Reserve, InventoryTypeOK
    <3>2. \E e : e.order = d /\ inventoryOutbox' = inventoryOutbox \cup {e}
      BY <1>2 DEF AnswerOrder, Refuse, Reserve, InsufficientStock, InventoryReserved
    <3> QED
      BY <2>1, <3>1, <3>2
  <2>2. CASE d = o
    <3>1. Answers(o) = {} /\ ~HasReservation(o)
      BY <1>2, <2>2
    <3>2. ASSUME NEW reason \in StockFailures, Refuse(o, reason) PROVE AnsweredOnce(o)'
      <4>1. /\ inventoryOutbox' = inventoryOutbox \cup {InsufficientStock(o, reason)}
            /\ UNCHANGED reservations
        BY <3>2 DEF Refuse
      <4> QED
        BY <3>1, <4>1 DEF InsufficientStock
    <3>3. CASE Reserve(o, p, q, t)
      <4>1. reservations'[o].status = "RESERVED"
        BY <3>3 DEF Reserve, InventoryTypeOK
      <4>2. PICK e : /\ e.topic = "inventory.reserved" /\ e.order = o
                     /\ inventoryOutbox' = inventoryOutbox \cup {e}
        BY <3>3 DEF Reserve, InventoryReserved
      <4>3. Answers(o)' = {e} /\ Releases(o)' = Releases(o)
        BY <3>1, <4>2
      <4>4. HasReservation(o)' /\ AlreadyProcessed(o, {"inventory.reserved"})'
        BY <4>1, <4>2
      <4> HIDE DEF Answers, Releases, HasReservation, AlreadyProcessed
      <4> QED
        BY <4>3, <4>4
    <3> QED
      BY <1>2, <2>2, <3>2, <3>3 DEF AnswerOrder, StockFailures
  <2> QED
    BY <2>1, <2>2
<1> QED
  BY <1>1, <1>2 DEF ReserveStock

(* No call of ReleaseStock announces a second release, or one of nothing.  *)
LEMMA ReleaseStockOnce ==
    ASSUME InventoryTypeOK, NEW o \in OrderIds, AnsweredOnce(o), NEW d \in OrderIds,
           NEW reason \in Denials, ReleaseStock(d, reason)
    PROVE  AnsweredOnce(o)'
<1> USE DEF AnsweredOnce, Answers, Releases, EventsAbout, AlreadyProcessed, HasReservation
<1>1. CASE UNCHANGED inventoryVars
  BY <1>1 DEF inventoryVars
<1>2. CASE /\ ~AlreadyProcessed(d, {"inventory.released"}) /\ HasReservation(d)
           /\ RestoreStock(d)
           /\ inventoryOutbox' = inventoryOutbox \cup {InventoryReleased(d, reason)}
  <2>1. reservations' = [reservations EXCEPT ![d].status = "RELEASED"]
    BY <1>2 DEF RestoreStock
  <2>2. HasReservation(o)' <=> HasReservation(o)
    BY <1>2, <2>1 DEF InventoryTypeOK, ReservationRows
  <2>3. Answers(o)' = Answers(o)
    BY <1>2 DEF InventoryReleased
  <2>4. CASE d # o
    BY <1>2, <2>2, <2>4 DEF InventoryReleased
  <2>5. CASE d = o
    BY <1>2, <2>2, <2>3, <2>5 DEF InventoryReleased
  <2> QED
    BY <2>4, <2>5
<1> QED
  BY <1>1, <1>2 DEF ReleaseStock

AnsweredInv == \A o \in OrderIds : AnsweredOnce(o)

(* No step of inventory-service answers or releases an order again.        *)
LEMMA NextAnswered ==
    InventoryTypeOK /\ AnsweredInv /\ [InventoryNext]_inventoryVars => AnsweredInv'
<1> SUFFICES ASSUME InventoryTypeOK, AnsweredInv, [InventoryNext]_inventoryVars,
                    NEW o \in OrderIds
             PROVE  AnsweredOnce(o)'
  BY DEF AnsweredInv
<1>0. AnsweredOnce(o)
  BY DEF AnsweredInv
<1>1. CASE UNCHANGED <<reservations, inventoryOutbox>>
  BY <1>0, <1>1 DEF AnsweredOnce, Answers, Releases, EventsAbout, AlreadyProcessed, HasReservation
<1>2. CASE WebNext
  BY <1>1, <1>2 DEF WebNext, CreateProduct, CreateStock, UpdateStockQuantity
<1>3. ASSUME NEW d \in OrderIds, ConfirmReservation(d) PROVE AnsweredOnce(o)'
  <2>1. UNCHANGED inventoryOutbox
    BY <1>3 DEF ConfirmReservation
  <2>2. HasReservation(o)' <=> HasReservation(o)
    BY <1>3 DEF ConfirmReservation, HasReservation, InventoryTypeOK, ReservationRows
  <2> QED
    BY <1>0, <2>1, <2>2 DEF AnsweredOnce, Answers, Releases, EventsAbout, AlreadyProcessed
<1> QED
  BY <1>0, <1>1, <1>2, <1>3, ReserveStockOnce, ReleaseStockOnce DEF InventoryNext, inventoryVars

(* At first there is no event and no reservation.                          *)
LEMMA InitAnswered == InventoryInit => AnsweredInv
<1> SUFFICES ASSUME InventoryInit, NEW o \in OrderIds PROVE AnsweredOnce(o)
  BY DEF AnsweredInv
<1>1. inventoryOutbox = {} /\ reservations[o].status = "none"
  BY DEF InventoryInit, NoReservation
<1> QED
  BY <1>1 DEF AnsweredOnce, Answers, Releases, EventsAbout, AlreadyProcessed, HasReservation

(* So AnsweredInv is an invariant of inventory-service.                    *)
LEMMA AnsweredHolds == InventorySpec => []AnsweredInv
<1> QED
  BY InitAnswered, NextAnswered, InventoryTypeCorrect, PTL DEF InventorySpec

(* However often and in whatever order messages come, an order is answered *)
(* once, and its release is announced once and only after a reservation.   *)
THEOREM OneAnswer == InventorySpec => []OneAnswerPerOrder
<1>1. AnsweredInv => OneAnswerPerOrder
  <2> SUFFICES ASSUME AnsweredInv, NEW o \in OrderIds
               PROVE  /\ Cardinality(Answers(o)) <= 1
                      /\ HasReservation(o) <=> AlreadyProcessed(o, {"inventory.reserved"})
                      /\ Cardinality(Releases(o))
                            <= Cardinality(EventsAbout(o, {"inventory.reserved"}))
    BY DEF OneAnswerPerOrder, Answers, Releases
  <2>0. AnsweredOnce(o)
    BY DEF AnsweredInv
  <2>1. ASSUME NEW S, \A e, f \in S : e = f
        PROVE  /\ Cardinality(S) \in {0, 1}
               /\ S # {} => Cardinality(S) = 1
    <3>1. CASE S = {}
      BY <3>1, FS_EmptySet
    <3>2. CASE S # {}
      <4>1. PICK e \in S : TRUE
        BY <3>2
      <4>2. S = {e}
        BY <2>1, <4>1
      <4> QED
        BY <4>2, FS_Singleton
    <3> QED
      BY <3>1, <3>2
  <2>2. \A e, f \in EventsAbout(o, {"inventory.reserved"}) : e = f
    BY <2>0 DEF AnsweredOnce, Answers, EventsAbout
  <2>3. Releases(o) # {} => EventsAbout(o, {"inventory.reserved"}) # {}
    BY <2>0 DEF AnsweredOnce, EventsAbout, AlreadyProcessed
  <2>4. Cardinality(Answers(o)) <= 1
    BY <2>0, <2>1 DEF AnsweredOnce
  <2>5. Cardinality(Releases(o)) \in {0, 1} /\ (Releases(o) # {} => Cardinality(Releases(o)) = 1)
    BY <2>0, <2>1 DEF AnsweredOnce
  <2>6. /\ Cardinality(EventsAbout(o, {"inventory.reserved"})) \in {0, 1}
        /\ EventsAbout(o, {"inventory.reserved"}) # {}
             => Cardinality(EventsAbout(o, {"inventory.reserved"})) = 1
    BY <2>1, <2>2
  <2>7. Releases(o) = {} => Cardinality(Releases(o)) = 0
    BY FS_EmptySet
  <2> QED
    BY <2>0, <2>3, <2>4, <2>5, <2>6, <2>7 DEF AnsweredOnce
<1> QED
  BY <1>1, AnsweredHolds, PTL

---------------------------------------------------------------------------
(* The units that reservations hold, counted as a set: a sum would need    *)
(* induction over the orders, a set only what one order adds or takes.     *)

(* A block of n units, each told from the others by its number.            *)
LEMMA BlockOfUnits ==
    ASSUME NEW o, NEW n \in Nat
    PROVE  IsFiniteSet({o} \X (1..n)) /\ Cardinality({o} \X (1..n)) = n
<1>1. IsFiniteSet({o}) /\ Cardinality({o}) = 1
  BY FS_Singleton
<1>2. IsFiniteSet(1..n) /\ Cardinality(1..n) = n
  BY FS_Interval
<1>3. /\ IsFiniteSet({o} \X (1..n))
      /\ Cardinality({o} \X (1..n)) = Cardinality({o}) * Cardinality(1..n)
  BY <1>1, <1>2, FS_Product, Zenon
<1> QED
  BY <1>1, <1>2, <1>3

(* A block put to other units adds its size.                               *)
LEMMA BlockAdded ==
    ASSUME NEW S, IsFiniteSet(S), NEW o, NEW n \in Nat, S \cap ({o} \X (1..n)) = {}
    PROVE  /\ IsFiniteSet(S \cup ({o} \X (1..n)))
           /\ Cardinality(S \cup ({o} \X (1..n))) = Cardinality(S) + n
<1> DEFINE B == {o} \X (1..n)
<1>1. IsFiniteSet(B) /\ Cardinality(B) = n
  BY BlockOfUnits
<1>2. S \cap B = {}
  OBVIOUS
<1> HIDE DEF B
<1>3. Cardinality(S) \in Nat /\ Cardinality(S \cap B) = 0
  BY <1>2, FS_CardinalityType, FS_EmptySet
<1>4. IsFiniteSet(S \cup B) /\ Cardinality(S \cup B) = Cardinality(S) + n
  BY <1>1, <1>3, FS_Union
<1> QED
  BY <1>4 DEF B

(* A block taken from among other units takes away its size.               *)
LEMMA BlockRemoved ==
    ASSUME NEW S, IsFiniteSet(S), NEW o, NEW n \in Nat, ({o} \X (1..n)) \subseteq S
    PROVE  /\ IsFiniteSet(S \ ({o} \X (1..n)))
           /\ Cardinality(S \ ({o} \X (1..n))) = Cardinality(S) - n
<1> DEFINE R == S \ ({o} \X (1..n))
<1>1. IsFiniteSet(R) /\ R \cap ({o} \X (1..n)) = {} /\ S = R \cup ({o} \X (1..n))
  BY FS_Subset
<1> HIDE DEF R
<1>2. Cardinality(S) = Cardinality(R) + n /\ Cardinality(R) \in Nat
  BY <1>1, BlockAdded, FS_CardinalityType
<1> QED
  BY <1>1, <1>2 DEF R

\* The units of p in reservations whose release was not announced.
Held(p) == UnitsOf({o \in OrderIds : ~AlreadyProcessed(o, {"inventory.released"})}, p)

\* Order o holds units of p.
Holds(o, p) ==
    /\ ~AlreadyProcessed(o, {"inventory.released"})
    /\ HasReservation(o)
    /\ reservations[o].product = p

(* What is needed to count: the stock fits an Int, a reservation is of at  *)
(* least one unit that was in stock, and a status RELEASED was announced.  *)
ReservationsAreBacked ==
    /\ \A p \in Products : stock[p] < HalfRange
    /\ \A o \in OrderIds : HasReservation(o) =>
         /\ reservations[o].product \in Products
         /\ reservations[o].quantity \in 1 .. HalfRange - 1
         /\ stock[reservations[o].product] # Absent
    /\ \A o \in OrderIds : reservations[o].status = "RELEASED" =>
          AlreadyProcessed(o, {"inventory.released"})

UnitsAreCounted ==
    \A p \in Products : stock[p] # Absent =>
        IsFiniteSet(Held(p)) /\ stock[p] + Cardinality(Held(p)) = supplied[p]

UnitsInv == ReservationsAreBacked /\ UnitsAreCounted

(* A unit that is held, is held by an order.                               *)
LEMMA HeldByAnOrder ==
    ASSUME NEW p, NEW u
    PROVE  /\ u \in Held(p) <=>
                \E o \in OrderIds : Holds(o, p) /\ u \in {o} \X (1 .. reservations[o].quantity)
           /\ u \in Held(p)' <=>
                \E o \in OrderIds :
                   Holds(o, p)' /\ u \in {o} \X (1 .. reservations'[o].quantity)
  BY DEF Held, UnitsOf, Holds

(* Units nobody's reservation or release changes stay held.                *)
LEMMA SameUnits ==
    ASSUME NEW p,
           \A o \in OrderIds :
              /\ Holds(o, p)' <=> Holds(o, p)
              /\ Holds(o, p) => reservations'[o].quantity = reservations[o].quantity
    PROVE  Held(p)' = Held(p)
  BY HeldByAnOrder

(* Nothing is counted differently when nothing changes.                    *)
LEMMA QuietUnits ==
    ASSUME UnitsInv, UNCHANGED <<stock, supplied, reservations, inventoryOutbox>>
    PROVE  UnitsInv'
<1>1. \A p : Held(p)' = Held(p)
  BY DEF Held, UnitsOf, HasReservation, AlreadyProcessed
<1>2. ReservationsAreBacked'
  BY DEF UnitsInv, ReservationsAreBacked, HasReservation, AlreadyProcessed
<1> QED
  BY <1>1, <1>2 DEF UnitsInv, UnitsAreCounted

(* A release event of one order is of no other.                            *)
LEMMA EventsOfOthers ==
    ASSUME NEW e, inventoryOutbox' = inventoryOutbox \cup {e},
           NEW o, NEW topics, e.order # o \/ e.topic \notin topics
    PROVE  AlreadyProcessed(o, topics)' <=> AlreadyProcessed(o, topics)
  BY DEF AlreadyProcessed

(* A small sum does not overflow, a larger one becomes negative.           *)
LEMMA WrapOfSum ==
    ASSUME NEW n \in 0 .. 2 * HalfRange - 1
    PROVE  /\ n < HalfRange => Wrap(n) = n
           /\ n >= HalfRange => Wrap(n) < 0
  BY InventoryInputs DEF Wrap

(* A reservation takes its units from the stock: nothing of the order was  *)
(* held before, as it had no answer.                                       *)
LEMMA ReserveStockUnits ==
    ASSUME InventoryTypeOK, UnitsInv, NEW o \in OrderIds, AnsweredOnce(o),
           NEW p \in Products, NEW q \in Quantities, NEW t \in PaymentTypes,
           ReserveStock(o, p, q, t)
    PROVE  UnitsInv'
<1> DEFINE Released(x) == AlreadyProcessed(x, {"inventory.released"})
<1>1. CASE UNCHANGED inventoryVars
  BY <1>1, QuietUnits DEF inventoryVars
<1>2. ASSUME NEW reason, Refuse(o, reason) PROVE UnitsInv'
  <2>1. \A x \in OrderIds : Released(x)' <=> Released(x)
    BY <1>2 DEF Refuse, InsufficientStock, AlreadyProcessed
  <2>2. UNCHANGED <<stock, reservations, supplied>>
    BY <1>2 DEF Refuse
  <2>3. \A y \in Products : Held(y)' = Held(y)
    BY <2>1, <2>2, SameUnits DEF Holds, HasReservation
  <2> QED
    BY <2>1, <2>2, <2>3 DEF UnitsInv, ReservationsAreBacked, UnitsAreCounted, HasReservation
<1>3. CASE /\ ~AlreadyProcessed(o, {"inventory.reserved", "inventory.insufficient-stock"})
           /\ stock[p] # Absent /\ stock[p] >= q /\ q > 0 /\ Reserve(o, p, q, t)
  <2>1. ~HasReservation(o) /\ ~Released(o)
    BY <1>3 DEF AnsweredOnce, AlreadyProcessed, Releases, EventsAbout
  <2>2. /\ \A x \in OrderIds \ {o} : reservations'[x] = reservations[x]
        /\ reservations'[o] = [status |-> "RESERVED", product |-> p, quantity |-> q]
        /\ stock' = [stock EXCEPT ![p] = @ - q] /\ UNCHANGED supplied
    BY <1>3 DEF Reserve, InventoryTypeOK
  <2>3. \A x \in OrderIds : Released(x)' <=> Released(x)
    BY <1>3 DEF Reserve, InventoryReserved, AlreadyProcessed
  <2>4. q \in 1 .. HalfRange - 1 /\ stock[p] \in 0 .. HalfRange - 1
    BY <1>3, SagaInputs, InventoryInputs DEF InventoryTypeOK, UnitsInv, ReservationsAreBacked, Absent
  <2>5. /\ \A y \in Products \ {p} : stock'[y] = stock[y]
        /\ stock'[p] = stock[p] - q /\ stock'[p] \in 0 .. HalfRange - 1
    BY <1>3, <2>2, <2>4, InventoryInputs DEF InventoryTypeOK
  <2>6. ReservationsAreBacked'
    <3>1. \A y \in Products : stock'[y] < HalfRange /\ (stock[y] # Absent => stock'[y] # Absent)
      BY <2>4, <2>5, InventoryInputs DEF UnitsInv, ReservationsAreBacked, Absent
    <3>2. ASSUME NEW x \in OrderIds, HasReservation(x)'
          PROVE  /\ reservations'[x].product \in Products
                 /\ reservations'[x].quantity \in 1 .. HalfRange - 1
                 /\ stock'[reservations'[x].product] # Absent
      BY <1>3, <2>2, <2>4, <3>1, <3>2 DEF UnitsInv, ReservationsAreBacked, HasReservation
    <3>3. ASSUME NEW x \in OrderIds, reservations'[x].status = "RELEASED"
          PROVE  AlreadyProcessed(x, {"inventory.released"})'
      BY <2>2, <2>3, <3>3 DEF UnitsInv, ReservationsAreBacked
    <3> QED
      BY <3>1, <3>2, <3>3 DEF ReservationsAreBacked
  <2>7. ASSUME NEW y \in Products, y # p PROVE Held(y)' = Held(y)
    BY <2>1, <2>2, <2>3, <2>7, SameUnits DEF Holds, HasReservation
  <2>8. /\ Held(p)' = Held(p) \cup ({o} \X (1..q))
        /\ Held(p) \cap ({o} \X (1..q)) = {}
    <3>1. Holds(o, p)' /\ ~Holds(o, p) /\ reservations'[o].quantity = q
      BY <2>1, <2>2, <2>3 DEF Holds, HasReservation
    <3>2. ASSUME NEW x \in OrderIds \ {o}
          PROVE  /\ Holds(x, p)' <=> Holds(x, p)
                 /\ reservations'[x].quantity = reservations[x].quantity
      BY <2>2, <2>3 DEF Holds, HasReservation
    <3> QED
      BY <3>1, <3>2, HeldByAnOrder
  <2>9. IsFiniteSet(Held(p)) /\ stock[p] + Cardinality(Held(p)) = supplied[p]
    BY <1>3 DEF UnitsInv, UnitsAreCounted
  <2>10. IsFiniteSet(Held(p)') /\ Cardinality(Held(p)') = Cardinality(Held(p)) + q
    <3>1. q \in Nat
      BY <2>4
    <3>2. /\ IsFiniteSet(Held(p) \cup ({o} \X (1..q)))
          /\ Cardinality(Held(p) \cup ({o} \X (1..q))) = Cardinality(Held(p)) + q
      BY <2>8, <2>9, <3>1, BlockAdded
    <3> QED
      BY <2>8, <3>2
  <2>11. Cardinality(Held(p)) \in Nat
    BY <2>9, FS_CardinalityType
  <2>12. stock'[p] + Cardinality(Held(p)') = supplied'[p]
    BY <2>2, <2>4, <2>5, <2>9, <2>10, <2>11
  <2>13. UnitsAreCounted'
    BY <2>2, <2>5, <2>7, <2>10, <2>12 DEF UnitsInv, UnitsAreCounted
  <2> QED
    BY <2>6, <2>13 DEF UnitsInv
<1> QED
  BY <1>1, <1>2, <1>3 DEF ReserveStock, AnswerOrder

(* A release gives back what the order held; it was held, as no release    *)
(* was announced.                                                          *)
LEMMA ReleaseStockUnits ==
    ASSUME InventoryTypeOK, UnitsInv, NEW o \in OrderIds, NEW reason \in Denials,
           ReleaseStock(o, reason)
    PROVE  UnitsInv'
<1> DEFINE Released(x) == AlreadyProcessed(x, {"inventory.released"})
           p == reservations[o].product
           q == reservations[o].quantity
<1>1. CASE UNCHANGED inventoryVars
  BY <1>1, QuietUnits DEF inventoryVars
<1>2. CASE /\ ~Released(o) /\ HasReservation(o) /\ RestoreStock(o)
           /\ inventoryOutbox' = inventoryOutbox \cup {InventoryReleased(o, reason)}
  <2>1. /\ p \in Products /\ q \in 1 .. HalfRange - 1 /\ stock[p] \in 0 .. HalfRange - 1
        /\ stock[p] # Absent
    BY <1>2, InventoryInputs DEF UnitsInv, ReservationsAreBacked, InventoryTypeOK, Absent
  <2>2. stock[p] + q < HalfRange /\ Wrap(stock[p] + q) = stock[p] + q
    <3>1. Wrap(stock[p] + q) >= 0
      BY <1>2 DEF RestoreStock
    <3>2. stock[p] + q \in 0 .. 2 * HalfRange - 1
      BY <2>1, InventoryInputs
    <3>3. Wrap(stock[p] + q) \in Int
      BY <3>2, InventoryInputs, WrapType
    <3> QED
      BY <3>1, <3>2, <3>3, WrapOfSum, InventoryInputs
  <2>3. /\ \A y \in Products \ {p} : stock'[y] = stock[y]
        /\ stock'[p] = stock[p] + q
        /\ UNCHANGED supplied
    BY <1>2, <2>1, <2>2 DEF RestoreStock, InventoryTypeOK
  <2>4. /\ \A x \in OrderIds \ {o} : reservations'[x] = reservations[x]
        /\ reservations'[o].status = "RELEASED"
        /\ reservations'[o].product = p /\ reservations'[o].quantity = q
    BY <1>2 DEF RestoreStock, InventoryTypeOK, ReservationRows
  <2>5. /\ \A x \in OrderIds \ {o} : Released(x)' <=> Released(x)
        /\ Released(o)'
    <3>1. PICK e : /\ e.order = o /\ e.topic = "inventory.released"
                   /\ inventoryOutbox' = inventoryOutbox \cup {e}
      BY <1>2 DEF InventoryReleased
    <3> QED
      BY <3>1, EventsOfOthers DEF AlreadyProcessed
  <2>6. ReservationsAreBacked'
    <3>1. \A y \in Products : stock'[y] < HalfRange /\ (stock[y] # Absent => stock'[y] # Absent)
      BY <2>1, <2>2, <2>3, InventoryInputs DEF UnitsInv, ReservationsAreBacked, Absent
    <3>2. ASSUME NEW x \in OrderIds, HasReservation(x)'
          PROVE  /\ reservations'[x].product \in Products
                 /\ reservations'[x].quantity \in 1 .. HalfRange - 1
                 /\ stock'[reservations'[x].product] # Absent
      BY <2>1, <2>4, <3>1, <3>2 DEF UnitsInv, ReservationsAreBacked, HasReservation
    <3>3. ASSUME NEW x \in OrderIds, reservations'[x].status = "RELEASED"
          PROVE  AlreadyProcessed(x, {"inventory.released"})'
      BY <2>4, <2>5, <3>3 DEF UnitsInv, ReservationsAreBacked
    <3> QED
      BY <3>1, <3>2, <3>3 DEF ReservationsAreBacked
  <2>7. ASSUME NEW y \in Products, y # p PROVE Held(y)' = Held(y)
    BY <2>4, <2>5, <2>7, SameUnits DEF Holds, HasReservation
  <2>8. PICK n \in Nat : n = q
    BY <2>1
  <2>9. PICK product \in Products : product = p
    BY <2>1
  <2>10. /\ ({o} \X (1..n)) \subseteq Held(product)
         /\ Held(product)' = Held(product) \ ({o} \X (1..n))
    <3>1. Holds(o, product) /\ ~Holds(o, product)' /\ reservations[o].quantity = n
      BY <1>2, <2>5, <2>8, <2>9 DEF Holds
    <3>2. ASSUME NEW x \in OrderIds \ {o}
          PROVE  /\ Holds(x, product)' <=> Holds(x, product)
                 /\ reservations'[x].quantity = reservations[x].quantity
      BY <2>4, <2>5 DEF Holds, HasReservation
    <3> QED
      BY <3>1, <3>2, HeldByAnOrder
  <2>11. IsFiniteSet(Held(product)) /\ stock[product] + Cardinality(Held(product)) = supplied[product]
    BY <2>1, <2>9 DEF UnitsInv, UnitsAreCounted
  <2>12. /\ IsFiniteSet(Held(product)')
         /\ Cardinality(Held(product)') = Cardinality(Held(product)) - n
    <3>1. /\ IsFiniteSet(Held(product) \ ({o} \X (1..n)))
          /\ Cardinality(Held(product) \ ({o} \X (1..n))) = Cardinality(Held(product)) - n
      BY <2>8, <2>10, <2>11, BlockRemoved
    <3> QED
      BY <2>10, <3>1
  <2>13. Cardinality(Held(product)) \in Nat
    BY <2>11, FS_CardinalityType
  <2>14. stock'[product] + Cardinality(Held(product)') = supplied'[product]
    BY <2>1, <2>3, <2>8, <2>9, <2>11, <2>12, <2>13
  <2>15. UnitsAreCounted'
    BY <2>3, <2>7, <2>9, <2>12, <2>14 DEF UnitsInv, UnitsAreCounted
  <2> QED
    BY <2>6, <2>15 DEF UnitsInv
<1> QED
  BY <1>1, <1>2 DEF ReleaseStock

(* A confirmation changes no units.                                        *)
LEMMA ConfirmReservationUnits ==
    ASSUME InventoryTypeOK, UnitsInv, NEW o \in OrderIds, ConfirmReservation(o)
    PROVE  UnitsInv'
<1>1. UNCHANGED <<stock, supplied, inventoryOutbox>>
  BY DEF ConfirmReservation
<1>2. ASSUME NEW x \in OrderIds
      PROVE  /\ HasReservation(x)' <=> HasReservation(x)
             /\ reservations'[x].product = reservations[x].product
             /\ reservations'[x].quantity = reservations[x].quantity
             /\ reservations'[x].status = "RELEASED" => reservations[x].status = "RELEASED"
  BY DEF ConfirmReservation, HasReservation, InventoryTypeOK, ReservationRows
<1>3. \A x \in OrderIds : AlreadyProcessed(x, {"inventory.released"})'
                             <=> AlreadyProcessed(x, {"inventory.released"})
  BY <1>1 DEF AlreadyProcessed
<1>4. \A p : Held(p)' = Held(p)
  BY <1>2, <1>3, SameUnits DEF Holds
<1>5. ReservationsAreBacked'
  BY <1>1, <1>2, <1>3 DEF UnitsInv, ReservationsAreBacked
<1> QED
  BY <1>1, <1>4, <1>5 DEF UnitsInv, UnitsAreCounted

(* Administrators change the stock and what they supplied by as much; a    *)
(* product without a stock row has no reservations.                        *)
LEMMA WebUnits ==
    ASSUME InventoryTypeOK, UnitsInv, WebNext PROVE UnitsInv'
<1>1. UNCHANGED <<reservations, inventoryOutbox>>
  BY DEF WebNext, CreateProduct, CreateStock, UpdateStockQuantity
<1>2. \A p : Held(p)' = Held(p)
  BY <1>1 DEF Held, UnitsOf, HasReservation, AlreadyProcessed
<1>3. ASSUME NEW p \in Products, stock[p] = Absent
      PROVE  IsFiniteSet(Held(p)) /\ Cardinality(Held(p)) = 0
  <2>1. Held(p) = {}
    BY <1>3, HeldByAnOrder DEF UnitsInv, ReservationsAreBacked, Holds
  <2> QED
    BY <2>1, FS_EmptySet
<1>4. ASSUME NEW p \in Products, NEW q \in StockLevels,
             CreateStock(p, q) \/ UpdateStockQuantity(p, q)
      PROVE  UnitsInv'
  <2>1. q \in 0 .. HalfRange - 1
    BY <1>4, InventoryInputs DEF CreateStock, UpdateStockQuantity, KotlinInts
  <2>2. /\ stock' = [stock EXCEPT ![p] = q]
        /\ \A y \in Products \ {p} : supplied'[y] = supplied[y]
        /\ stock[p] = Absent => supplied'[p] = q
        /\ stock[p] # Absent => supplied'[p] = supplied[p] + q - stock[p]
    BY <1>4 DEF CreateStock, UpdateStockQuantity, InventoryTypeOK
  <2>3. /\ stock'[p] = q /\ \A y \in Products \ {p} : stock'[y] = stock[y]
        /\ \A y \in Products : stock'[y] < HalfRange /\ (stock[y] # Absent => stock'[y] # Absent)
    BY <2>1, <2>2, InventoryInputs DEF InventoryTypeOK, UnitsInv, ReservationsAreBacked, Absent
  <2>4. ReservationsAreBacked'
    BY <1>1, <2>3 DEF UnitsInv, ReservationsAreBacked, HasReservation, AlreadyProcessed
  <2>5. IsFiniteSet(Held(p)) /\ stock'[p] + Cardinality(Held(p)) = supplied'[p]
    <3>1. CASE stock[p] = Absent
      BY <1>3, <2>1, <2>2, <2>3, <3>1
    <3>2. CASE stock[p] # Absent
      <4>1. /\ IsFiniteSet(Held(p)) /\ Cardinality(Held(p)) \in Nat
            /\ stock[p] + Cardinality(Held(p)) = supplied[p]
        BY <3>2, FS_CardinalityType DEF UnitsInv, UnitsAreCounted
      <4> QED
        BY <2>1, <2>2, <2>3, <3>2, <4>1 DEF InventoryTypeOK, Absent
    <3> QED
      BY <3>1, <3>2
  <2>6. UnitsAreCounted'
    BY <1>2, <2>2, <2>3, <2>5 DEF UnitsInv, UnitsAreCounted
  <2> QED
    BY <2>4, <2>6 DEF UnitsInv
<1>5. CASE UNCHANGED <<stock, supplied>>
  BY <1>1, <1>2, <1>5 DEF UnitsInv, ReservationsAreBacked, UnitsAreCounted, HasReservation,
     AlreadyProcessed
<1> QED
  BY <1>4, <1>5 DEF WebNext, CreateProduct

(* Every step of inventory-service keeps the units counted.                *)
LEMMA NextUnits ==
    InventoryTypeOK /\ AnsweredInv /\ UnitsInv /\ [InventoryNext]_inventoryVars => UnitsInv'
<1> SUFFICES ASSUME InventoryTypeOK, AnsweredInv, UnitsInv, [InventoryNext]_inventoryVars
             PROVE  UnitsInv'
  OBVIOUS
<1>1. CASE UNCHANGED inventoryVars
  BY <1>1, QuietUnits DEF inventoryVars
<1> QED
  BY <1>1, WebUnits, ReserveStockUnits, ReleaseStockUnits, ConfirmReservationUnits
  DEF InventoryNext, AnsweredInv

(* Before the first product there are no units.                            *)
LEMMA InitUnits == InventoryInit => UnitsInv
  BY InventoryInputs DEF InventoryInit, NoReservation, UnitsInv, ReservationsAreBacked,
     UnitsAreCounted, HasReservation, Absent

(* The count is an invariant of inventory-service alone.                   *)
LEMMA UnitsInvHolds == InventorySpec => []UnitsInv
<1> QED
  BY InitUnits, NextUnits, InventoryTypeCorrect, AnsweredHolds, PTL DEF InventorySpec

(* Whatever messages come, in whatever order and however often, no unit is *)
(* created or lost: it is in stock, or reserved and not announced as       *)
(* released.                                                               *)
THEOREM UnitsAccounted == InventorySpec => []UnitsAreAccountedFor
<1>1. UnitsInv => UnitsAreAccountedFor
  BY DEF UnitsInv, UnitsAreCounted, UnitsAreAccountedFor, Held
<1> QED
  BY <1>1, UnitsInvHolds, PTL

---------------------------------------------------------------------------
(* inventory-service in the saga: the messages its listeners are handed    *)
(* are among those the environment of InventorySpec sends.                 *)
THEOREM InventoryInTheSaga == Spec => InventorySpec
<1>1. Init => InventoryInit
  BY DEF Init
<1>2. SagaTypeOK /\ [Next]_vars => [InventoryNext]_inventoryVars
  <2> SUFFICES ASSUME SagaTypeOK, [Next]_vars PROVE [InventoryNext]_inventoryVars
    OBVIOUS
  <2>1. ASSUME NEW m \in published, Deliver(m) PROVE [InventoryNext]_inventoryVars
    <3>1. m \in Events
      BY DEF SagaTypeOK
    <3>2. m.order \in OrderIds
      BY <3>1, EventFields
    <3>3. CASE inventoryConsumers(m)
      BY <3>1, <3>2, <3>3, EventFields DEF inventoryConsumers, OnOrderCreated, OnPaymentDenied,
         OnOrderConfirmed, InventoryNext
    <3>4. CASE UNCHANGED inventoryVars
      BY <3>4
    <3> QED
      BY <2>1, <3>3, <3>4 DEF Deliver, ordersConsumers, paymentsConsumers
  <2>2. CASE Environment
    BY <2>2 DEF Environment, InventoryNext
  <2>3. ASSUME NEW e, Publish(e) \/ GiveUp(e) \/ Skip(e) PROVE UNCHANGED inventoryVars
    BY <2>3 DEF Publish, GiveUp, Skip
  <2>4. CASE UNCHANGED vars
    BY <2>4 DEF vars
  <2> QED
    BY <2>1, <2>2, <2>3, <2>4 DEF Next
<1> QED
  BY <1>1, <1>2, TypeCorrect, PTL DEF Spec, InventorySpec

(* So what holds of inventory-service under any messages holds in the saga. *)
THEOREM InventoryPromises == Spec => [](UnitsAreAccountedFor /\ OneAnswerPerOrder)
<1> QED
  BY InventoryInTheSaga, UnitsAccounted, OneAnswer, PTL

(* Across the services no unit is created or lost: a reservation gives its *)
(* units back exactly when its status says RELEASED, because the release   *)
(* is announced then and no late confirmation overwrites it.               *)
THEOREM StockConserved == Spec => []StockIsConserved
<1>1. SagaTypeOK /\ Provenance /\ UnitsInv => StockIsConserved
  <2> SUFFICES ASSUME SagaTypeOK, Provenance, UnitsInv PROVE StockIsConserved
    OBVIOUS
  <2>1. ASSUME NEW o \in OrderIds
        PROVE  reservations[o].status = "RELEASED"
                  <=> AlreadyProcessed(o, {"inventory.released"})
    BY DEF UnitsInv, ReservationsAreBacked, Provenance, InventoryEventsAreTrue, AlreadyProcessed
  <2>2. {o \in OrderIds : reservations[o].status # "RELEASED"}
           = {o \in OrderIds : ~AlreadyProcessed(o, {"inventory.released"})}
    BY <2>1
  <2> QED
    BY <2>2 DEF UnitsInv, UnitsAreCounted, Held, StockIsConserved
<1> QED
  BY <1>1, TypeCorrect, ProvenanceHolds, InventoryInTheSaga, UnitsInvHolds, PTL

---------------------------------------------------------------------------
(* What can move an order or a reservation is in an outbox.                *)

(* payments-service announces each decision, and decides by its rules.     *)
DecisionsAreAnnounced ==
    \A o \in OrderIds :
        /\ payments[o].status = "AUTHORIZED" =>
             /\ PaymentAuthorized(o) \in paymentsOutbox
             /\ evaluate(payments[o].amount, payments[o].paymentType) = NoReason
        /\ payments[o].status = "DENIED" => PaymentDenied(o, payments[o].reason) \in paymentsOutbox

(* Only ProcessPayment writes to payments-service's database.              *)
LEMMA PaymentsSteps ==
    ASSUME SagaTypeOK, [Next]_vars
    PROVE  \/ UNCHANGED paymentsVars
           \/ \E o \in OrderIds, amount \in Int, t \in PaymentTypes : ProcessPayment(o, amount, t)
<1>1. ASSUME NEW m \in published, Deliver(m), paymentsConsumers(m)
      PROVE  \E o \in OrderIds, amount \in Int, t \in PaymentTypes : ProcessPayment(o, amount, t)
  <2>1. m \in Events /\ m.topic = "inventory.reserved"
    BY <1>1 DEF SagaTypeOK, paymentsConsumers
  <2>2. m.order \in OrderIds /\ m.amount \in Int /\ m.paymentType \in PaymentTypes
    BY <2>1, EventFields
  <2> QED
    BY <1>1, <2>2 DEF paymentsConsumers
<1>2. ASSUME NEW m \in published, Deliver(m), ~paymentsConsumers(m)
      PROVE  UNCHANGED paymentsVars
  BY <1>2 DEF Deliver, ordersConsumers, inventoryConsumers
<1>3. CASE Environment
  BY <1>3 DEF Environment
<1>4. ASSUME NEW e, Publish(e) \/ GiveUp(e) \/ Skip(e) PROVE UNCHANGED paymentsVars
  BY <1>4 DEF Publish, GiveUp, Skip
<1>5. CASE UNCHANGED vars
  BY <1>5 DEF vars
<1> QED
  BY <1>1, <1>2, <1>3, <1>4, <1>5 DEF Next

(* A decision and its event are written together, and never again.         *)
LEMMA NextDecisions ==
    SagaTypeOK /\ DecisionsAreAnnounced /\ [Next]_vars => DecisionsAreAnnounced'
<1> SUFFICES ASSUME SagaTypeOK, DecisionsAreAnnounced, [Next]_vars
             PROVE  DecisionsAreAnnounced'
  OBVIOUS
<1>1. CASE UNCHANGED paymentsVars
  BY <1>1 DEF paymentsVars, DecisionsAreAnnounced
<1>2. ASSUME NEW o \in OrderIds, NEW amount \in Int, NEW t \in PaymentTypes,
             Decide(o, amount, t)
      PROVE  DecisionsAreAnnounced'
  <2> DEFINE reason == evaluate(amount, t)
  <2>1. \A x \in OrderIds \ {o} : payments'[x] = payments[x]
    BY <1>2 DEF Decide, SagaTypeOK, PaymentsTypeOK
  <2>2. paymentsOutbox \subseteq paymentsOutbox'
    BY <1>2 DEF Decide
  <2>3. /\ payments'[o].amount = amount /\ payments'[o].paymentType = t
        /\ payments'[o].reason = reason
        /\ payments'[o].status = IF reason # NoReason THEN "DENIED" ELSE "AUTHORIZED"
    BY <1>2 DEF Decide, SagaTypeOK, PaymentsTypeOK
  <2>4. IF reason # NoReason THEN PaymentDenied(o, reason) \in paymentsOutbox'
                             ELSE PaymentAuthorized(o) \in paymentsOutbox'
    BY <1>2 DEF Decide
  <2> QED
    BY <2>1, <2>2, <2>3, <2>4 DEF DecisionsAreAnnounced
<1> QED
  BY <1>1, <1>2, PaymentsSteps DEF ProcessPayment

(* From the start: no decision, nothing to announce.                       *)
LEMMA DecisionsHold == Spec => []DecisionsAreAnnounced
<1>1. Init => DecisionsAreAnnounced
  <2>1. Init => \A o \in OrderIds : payments[o].status = "none"
    <3>1. Init => \A o \in OrderIds : payments[o] = NoPayment
      BY DEF Init, PaymentsInit
    <3>2. NoPayment.status = "none"
      BY DEF NoPayment
    <3> QED
      BY <3>1, <3>2
  <2> QED
    BY <2>1 DEF DecisionsAreAnnounced
<1> QED
  BY <1>1, NextDecisions, TypeCorrect, PTL DEF Spec

(* Whichever row an order got to, the event that was written with it moves *)
(* the order on, or a later row of another service was written and         *)
(* announced; so an order that stays PENDING, or a reservation that stays  *)
(* RESERVED, always has an event in some outbox whose handler will change  *)
(* something.                                                              *)
THEOREM NothingForgotten == Spec => []NothingIsForgotten
<1>1. ASSUME SagaTypeOK, Provenance, DecisionsAreAnnounced, OutboxMatchesOrders
      PROVE  NothingIsForgotten
  <2> SUFFICES ASSUME NEW o \in OrderIds,
                      orders[o].status = "PENDING" \/ reservations[o].status = "RESERVED"
               PROVE  \E e \in Outboxes : e.order = o /\ HasWork(e)
    BY DEF NothingIsForgotten
  <2>1. CASE orders[o].status = "PENDING" /\ ~HasReservation(o)
    <3>1. PICK e : e = OrderCreated(o, orders[o].product, orders[o].quantity, orders[o].paymentType)
      OBVIOUS
    <3>2. e \in Outboxes /\ e.order = o /\ e.topic = "orders.created"
      BY <1>1, <2>1, <3>1 DEF OutboxMatchesOrders, Exists, OrderCreated, Outboxes
    <3>3. CASE ~AlreadyProcessed(o, {"inventory.reserved", "inventory.insufficient-stock"})
      BY <3>2, <3>3 DEF HasWork
    <3>4. CASE AlreadyProcessed(o, {"inventory.reserved", "inventory.insufficient-stock"})
      <4>1. PICK f \in inventoryOutbox :
               f.order = o /\ f.topic \in {"inventory.reserved", "inventory.insufficient-stock"}
        BY <3>4 DEF AlreadyProcessed
      <4>2. f.topic = "inventory.insufficient-stock"
        BY <1>1, <2>1, <4>1 DEF Provenance, InventoryEventsAreTrue
      <4>3. HasWork(f)
        BY <2>1, <4>1, <4>2 DEF HasWork
      <4> QED
        BY <4>1, <4>3 DEF Outboxes
    <3> QED
      BY <3>3, <3>4
  <2>2. CASE HasReservation(o) /\ ~ExistsByOrderID(o)
    <3>1. PICK e \in inventoryOutbox : e.order = o /\ e.topic = "inventory.reserved"
      BY <1>1, <2>2 DEF Provenance, ReservationsComeFromOrders, AlreadyProcessed
    <3>2. HasWork(e)
      BY <2>2, <3>1 DEF HasWork
    <3> QED
      BY <3>1, <3>2 DEF Outboxes
  <2>3. CASE payments[o].status = "AUTHORIZED" /\ orders[o].status = "PENDING"
    <3>1. PICK e : e = PaymentAuthorized(o)
      OBVIOUS
    <3>2. e \in Outboxes /\ e.order = o /\ e.topic = "payments.authorized"
      BY <1>1, <2>3, <3>1 DEF DecisionsAreAnnounced, PaymentAuthorized, Outboxes
    <3>3. HasWork(e)
      BY <2>3, <3>2 DEF HasWork
    <3> QED
      BY <3>2, <3>3
  <2>4. CASE reservations[o].status = "RESERVED" /\ orders[o].status # "PENDING"
    <3>1. Exists(o)
      BY <1>1, <2>4 DEF Provenance, ReservationsComeFromOrders, HasReservation
    <3>2. orders[o].status # "CANCELED"
      BY <1>1, <2>4 DEF Provenance, CanceledIsCompensated, HasReservation
    <3>3. orders[o].status = "CONFIRMED"
      BY <1>1, <2>4, <3>1, <3>2 DEF Exists, SagaTypeOK, OrdersTypeOK, OrderRows, Statuses
    <3>4. PICK e : e = OrderConfirmed(o)
      OBVIOUS
    <3>5. e \in Outboxes /\ e.order = o /\ e.topic = "orders.confirmed"
      BY <1>1, <3>3, <3>4 DEF OutboxMatchesOrders, OrderConfirmed, Outboxes
    <3>6. HasWork(e)
      BY <2>4, <3>5 DEF HasWork
    <3> QED
      BY <3>5, <3>6
  <2>5. CASE HasReservation(o) /\ payments[o].status = "DENIED" /\ orders[o].status = "PENDING"
    <3>1. PICK e : e = PaymentDenied(o, payments[o].reason)
      OBVIOUS
    <3>2. e \in Outboxes /\ e.order = o /\ e.topic = "payments.denied"
      BY <1>1, <2>5, <3>1 DEF DecisionsAreAnnounced, PaymentDenied, Outboxes
    <3>3. CASE ~AlreadyProcessed(o, {"inventory.released"})
      BY <2>5, <3>2, <3>3 DEF HasWork
    <3>4. CASE AlreadyProcessed(o, {"inventory.released"})
      <4>1. PICK f \in inventoryOutbox : f.order = o /\ f.topic = "inventory.released"
        BY <3>4 DEF AlreadyProcessed
      <4>2. HasWork(f)
        BY <2>5, <4>1 DEF HasWork
      <4> QED
        BY <4>1, <4>2 DEF Outboxes
    <3> QED
      BY <3>3, <3>4
  <2> QED
    BY <1>1, <2>1, <2>2, <2>3, <2>4, <2>5
    DEF HasReservation, ExistsByOrderID, SagaTypeOK, PaymentsTypeOK, PaymentRows
<1> QED
  BY <1>1, TypeCorrect, ProvenanceHolds, DecisionsHold, OrdersInTheSaga, OutboxAgrees, PTL

(* A credit card is charged more than the limit only for an amount that an *)
(* Int cannot hold: within its range, what payments-service judges is what *)
(* the customer owes, though price, quantity and decision belong to three  *)
(* services.                                                               *)
THEOREM CardLimitInRange == Spec => []CardLimitIsKeptInRange
<1>1. ASSUME SagaTypeOK, Provenance, DecisionsAreAnnounced, UnitsInv
      PROVE  CardLimitIsKeptInRange
  <2> SUFFICES ASSUME NEW o \in OrderIds, payments[o].status = "AUTHORIZED",
                      payments[o].paymentType = "CREDIT_CARD",
                      prices[orders[o].product] * orders[o].quantity < HalfRange
               PROVE  prices[orders[o].product] * orders[o].quantity <= CardLimit
    <3>1. ASSUME NEW o \in OrderIds, HasReservation(o)
          PROVE  prices[orders[o].product] * orders[o].quantity \in Int
      BY <1>1, <3>1 DEF SagaTypeOK, OrdersTypeOK, OrderRows, InventoryTypeOK, Absent, Provenance,
         ReservationsComeFromOrders
    <3>2. ASSUME NEW o \in OrderIds, payments[o].status = "AUTHORIZED"
          PROVE  HasReservation(o)
      BY <1>1, <3>2 DEF Provenance, PaymentsComeFromReservations, ExistsByOrderID
    <3> QED
      BY <3>1, <3>2, InventoryInputs DEF CardLimitIsKeptInRange
  <2>1. HasReservation(o) /\ payments[o].amount = Wrap(prices[orders[o].product] * orders[o].quantity)
    BY <1>1 DEF Provenance, PaymentsComeFromReservations, ExistsByOrderID
  <2>2. PICK price \in Int : price = prices[orders[o].product]
    BY <1>1, <2>1 DEF SagaTypeOK, InventoryTypeOK, Provenance, ReservationsComeFromOrders, Absent
  <2>3. price \in Nat
    BY <1>1, <2>1, <2>2 DEF SagaTypeOK, InventoryTypeOK, Provenance, ReservationsComeFromOrders
  <2>4. PICK q \in Nat : q = orders[o].quantity
    BY <1>1, <2>1, InventoryInputs
    DEF Provenance, ReservationsComeFromOrders, UnitsInv, ReservationsAreBacked
  <2>5. PICK owed \in Nat : owed = price * q
    BY <2>3
  <2>6. owed < HalfRange
    BY <2>2, <2>4, <2>5
  <2>7. owed \in 0 .. 2 * HalfRange - 1
    BY <2>5, <2>6, InventoryInputs
  <2>8. payments[o].amount = owed
    BY <2>1, <2>2, <2>4, <2>5, <2>6, <2>7, WrapOfSum
  <2>9. evaluate(owed, "CREDIT_CARD") = NoReason
    BY <1>1, <2>8 DEF DecisionsAreAnnounced
  <2>10. ~(owed > CardLimit)
    BY <2>9 DEF evaluate, NoReason
  <2> QED
    BY <2>2, <2>4, <2>5, <2>10 DEF CardLimit
<1> QED
  BY <1>1, TypeCorrect, ProvenanceHolds, DecisionsHold, InventoryInTheSaga, UnitsInvHolds, PTL

---------------------------------------------------------------------------
(* The saga's outboxes and relays, as Outbox tells them.                   *)

Relayed == INSTANCE Outbox WITH
    Events <- Events, saved <- Outboxes, published <- published,
    lost <- deadLetter \ published

(* A transaction announces one event at most.                              *)
LEMMA OneEventAtATime ==
    ASSUME SagaTypeOK, [Next]_vars
    PROVE  Outboxes' = Outboxes \/ \E e : Outboxes' = Outboxes \cup {e}
<1> DEFINE Saves == Outboxes' = Outboxes \/ \E e : Outboxes' = Outboxes \cup {e}
<1>1. ASSUME UNCHANGED <<inventoryVars, paymentsVars>>,
             ordersOutbox' = ordersOutbox \/ \E e : ordersOutbox' = ordersOutbox \cup {e}
      PROVE  Saves
  BY <1>1 DEF Outboxes, inventoryVars, paymentsVars
<1>2. ASSUME UNCHANGED <<ordersVars, paymentsVars>>,
             inventoryOutbox' = inventoryOutbox
               \/ \E e : inventoryOutbox' = inventoryOutbox \cup {e}
      PROVE  Saves
  BY <1>2 DEF Outboxes, ordersVars, paymentsVars
<1>3. ASSUME UNCHANGED <<ordersVars, inventoryVars>>,
             paymentsOutbox' = paymentsOutbox \/ \E e : paymentsOutbox' = paymentsOutbox \cup {e}
      PROVE  Saves
  BY <1>3 DEF Outboxes, ordersVars, inventoryVars
<1> HIDE DEF Saves
<1>4. CASE ApiNext /\ UNCHANGED <<inventoryVars, paymentsVars, kafkaVars>>
  <2>1. ordersOutbox' = ordersOutbox \/ \E e : ordersOutbox' = ordersOutbox \cup {e}
    BY <1>4 DEF ApiNext, MissingKey, CreateOrderFails, IdempotencyMiddleware, ResentSetNX, ExpireKey,
       RejectBody, DuplicateOrder, CreateOrder, InsertOrder
  <2>2. UNCHANGED <<inventoryVars, paymentsVars>>
    BY <1>4
  <2> QED
    BY <1>1, <2>1, <2>2 DEF Saves
<1>5. CASE WebNext /\ UNCHANGED <<ordersVars, paymentsVars, kafkaVars>>
  <2>1. inventoryOutbox' = inventoryOutbox
    BY <1>5 DEF WebNext, CreateProduct, CreateStock, UpdateStockQuantity
  <2>2. UNCHANGED <<ordersVars, paymentsVars>>
    BY <1>5
  <2> QED
    BY <1>2, <2>1, <2>2 DEF Saves
<1>6. ASSUME NEW m \in published, Deliver(m) PROVE Saves
  <2>1. CASE ordersConsumers(m)
    <3>1. ordersOutbox' = ordersOutbox \/ \E e : ordersOutbox' = ordersOutbox \cup {e}
      BY <2>1 DEF ordersConsumers, OnPaymentAuthorized, OnInventoryReleased, OnInsufficientStock,
         ConfirmOrder, CancelOrder
    <3> QED
      BY <1>1, <2>1, <3>1 DEF ordersConsumers
  <2>2. CASE inventoryConsumers(m)
    <3>1. inventoryOutbox' = inventoryOutbox
            \/ \E e : inventoryOutbox' = inventoryOutbox \cup {e}
      BY <2>2 DEF inventoryConsumers, OnOrderCreated, OnPaymentDenied, OnOrderConfirmed,
         ReserveStock, AnswerOrder, Refuse, Reserve, ReleaseStock, ConfirmReservation, inventoryVars
    <3> QED
      BY <1>2, <2>2, <3>1 DEF inventoryConsumers
  <2>3. CASE paymentsConsumers(m)
    <3>1. paymentsOutbox' = paymentsOutbox \/ \E e : paymentsOutbox' = paymentsOutbox \cup {e}
      BY <2>3 DEF paymentsConsumers, ProcessPayment, Decide, paymentsVars
    <3> QED
      BY <1>3, <2>3, <3>1 DEF paymentsConsumers
  <2> QED
    BY <1>6, <2>1, <2>2, <2>3 DEF Deliver
<1>7. ASSUME NEW e, Publish(e) \/ GiveUp(e) \/ Skip(e) PROVE Saves
  <2>1. ordersOutbox' = ordersOutbox /\ UNCHANGED <<inventoryVars, paymentsVars>>
    BY <1>7 DEF Publish, GiveUp, Skip, ordersVars
  <2> QED
    BY <1>1, <2>1 DEF Saves
<1>8. CASE UNCHANGED vars
  <2>1. ordersOutbox' = ordersOutbox /\ UNCHANGED <<inventoryVars, paymentsVars>>
    BY <1>8 DEF vars, ordersVars
  <2> QED
    BY <1>1, <2>1 DEF Saves
<1> QED
  BY <1>4, <1>5, <1>6, <1>7, <1>8 DEF Next, Environment, Saves

(* Every step saves an event, publishes one, gives one up, or does nothing *)
(* that an outbox shows.                                                   *)
LEMMA OutboxStep ==
    ASSUME SagaTypeOK, SagaTypeOK', deadLetter \subseteq Outboxes, [Next]_vars
    PROVE  [Relayed!OutboxNext]_(Relayed!outboxVars)
<1>1. CASE UNCHANGED kafkaVars
  <2>1. UNCHANGED <<published, deadLetter \ published>>
    BY <1>1 DEF kafkaVars
  <2>2. CASE Outboxes' = Outboxes
    BY <2>1, <2>2 DEF Relayed!outboxVars
  <2>3. ASSUME NEW e, Outboxes' = Outboxes \cup {e}, e \notin Outboxes
        PROVE  Relayed!OutboxNext
    <3>1. Outboxes' \subseteq Events
      BY DEF SagaTypeOK, OrdersTypeOK, InventoryTypeOK, PaymentsTypeOK, Outboxes, Events
    <3>2. e \in Events
      BY <2>3, <3>1
    <3>3. Relayed!Save(e)
      BY <2>1, <2>3 DEF Relayed!Save
    <3> QED
      BY <3>2, <3>3 DEF Relayed!OutboxNext
  <2> QED
    BY <2>2, <2>3, OneEventAtATime
<1>2. Outboxes \subseteq Events
  BY DEF SagaTypeOK, OrdersTypeOK, InventoryTypeOK, PaymentsTypeOK, Outboxes, Events
<1>3. ASSUME NEW e \in Outboxes, Publish(e) PROVE Relayed!OutboxNext
  <2>1. /\ published' = published \cup {e} /\ UNCHANGED Outboxes
        /\ (deadLetter \ published)' = (deadLetter \ published) \ {e}
    BY <1>3 DEF Publish, Outboxes, ordersVars, inventoryVars, paymentsVars
  <2>2. Relayed!Publish(e)
    BY <2>1 DEF Relayed!Publish
  <2> QED
    BY <1>2, <2>2 DEF Relayed!OutboxNext
<1>4. ASSUME NEW e \in Outboxes, GiveUp(e)
      PROVE  [Relayed!OutboxNext]_(Relayed!outboxVars)
  <2>1. UNCHANGED <<published, Outboxes>> /\ deadLetter' = deadLetter \cup {e}
    BY <1>4 DEF GiveUp, Outboxes, ordersVars, inventoryVars, paymentsVars
  <2>2. CASE e \in published
    BY <2>1, <2>2 DEF Relayed!outboxVars
  <2>3. CASE e \notin published
    <3>1. PICK es : es = (deadLetter \ published) \cup {e}
      OBVIOUS
    <3>2. es \in SUBSET Events /\ es \subseteq Outboxes \ published
      BY <1>2, <2>3, <3>1
    <3>3. (deadLetter \ published)' = es
      BY <2>1, <2>3, <3>1
    <3>4. Relayed!GiveUp(es)
      BY <2>1, <3>2, <3>3 DEF Relayed!GiveUp
    <3> QED
      BY <3>2, <3>4 DEF Relayed!OutboxNext
  <2> QED
    BY <2>2, <2>3
<1>5. ASSUME NEW m \in published, Skip(m) PROVE UNCHANGED Relayed!outboxVars
  BY <1>5 DEF Skip, Relayed!outboxVars, Outboxes, ordersVars, inventoryVars, paymentsVars
<1> QED
  BY <1>1, <1>3, <1>4, <1>5 DEF Next, Environment, Deliver, vars

(* What is given up was saved: no outbox forgets an event.                 *)
LEMMA GivenUpWasSaved == Spec => [](deadLetter \subseteq Outboxes)
<1>1. Init => deadLetter \subseteq Outboxes
  BY DEF Init
<1>2. ASSUME SagaTypeOK, deadLetter \subseteq Outboxes, [Next]_vars
      PROVE  (deadLetter \subseteq Outboxes)'
  <2>1. Outboxes \subseteq Outboxes'
    BY <1>2, OneEventAtATime
  <2>2. deadLetter' = deadLetter \/ \E e \in Outboxes : deadLetter' = deadLetter \cup {e}
    <3>1. ASSUME NEW e \in Outboxes, Publish(e) \/ GiveUp(e)
          PROVE  deadLetter' = deadLetter \/ deadLetter' = deadLetter \cup {e}
      BY <3>1 DEF Publish, GiveUp
    <3>2. ASSUME NEW m, Skip(m) PROVE deadLetter' = deadLetter
      BY <3>2 DEF Skip
    <3>3. CASE UNCHANGED kafkaVars
      BY <3>3 DEF kafkaVars
    <3> QED
      BY <1>2, <3>1, <3>2, <3>3 DEF Next, Environment, Deliver, vars
  <2> QED
    BY <1>2, <2>1, <2>2
<1> QED
  BY <1>1, <1>2, TypeCorrect, PTL DEF Spec

(* The three outboxes and their relays, as the saga composes them, do only *)
(* what Outbox promises, which is what RelayImplementsOutbox proves of     *)
(* OutboxRelay's statements and InventoryRelayImplementsOutbox of          *)
(* InventoryRelay's; and each transaction of a service saves one event.    *)
THEOREM SagaRelaysAreOutboxes ==
    Spec => Relayed!OutboxInit /\ [][Relayed!OutboxNext]_(Relayed!outboxVars)
<1>1. Init => Relayed!OutboxInit
  BY DEF Init, OrdersInit, InventoryInit, PaymentsInit, Relayed!OutboxInit, Outboxes
<1>2. SagaTypeOK /\ SagaTypeOK' /\ deadLetter \subseteq Outboxes /\ [Next]_vars
        => [Relayed!OutboxNext]_(Relayed!outboxVars)
  BY OutboxStep
<1> QED
  BY <1>1, <1>2, TypeCorrect, GivenUpWasSaved, PTL DEF Spec

---------------------------------------------------------------------------
(* The saga as SagaOutcome tells it.                                       *)

\* Nothing of order x that SagaOutcome can see moves.
Still(x) ==
    /\ orders'[x].status = orders[x].status
    /\ GoodsOf(x)' = GoodsOf(x)
    /\ payments'[x].status = payments[x].status

(* A step that moves no order's status, goods or money is a stutter.       *)
LEMMA StillIsStutter ==
    ASSUME \A x \in OrderIds : Still(x)
    PROVE  UNCHANGED Outcome!outcomeVars
  BY DEF Still, Outcome!outcomeVars

(* A step about one order updates the three functions at that order.       *)
LEMMA OneOrderMoves ==
    ASSUME NEW o \in OrderIds, \A x \in OrderIds \ {o} : Still(x)
    PROVE  /\ [x \in OrderIds |-> orders[x].status]'
                = [[x \in OrderIds |-> orders[x].status] EXCEPT ![o] = orders'[o].status]
           /\ [x \in OrderIds |-> GoodsOf(x)]'
                = [[x \in OrderIds |-> GoodsOf(x)] EXCEPT ![o] = GoodsOf(o)']
           /\ [x \in OrderIds |-> payments[x].status]'
                = [[x \in OrderIds |-> payments[x].status] EXCEPT ![o] = payments'[o].status]
  BY DEF Still

(* The goods depend on the reservation and the refusal alone.              *)
LEMMA SameGoods ==
    ASSUME NEW x \in OrderIds, reservations'[x].status = reservations[x].status,
           AlreadyProcessed(x, {"inventory.insufficient-stock"})'
             <=> AlreadyProcessed(x, {"inventory.insufficient-stock"})
    PROVE  GoodsOf(x)' = GoodsOf(x)
  BY DEF GoodsOf, HasReservation

---------------------------------------------------------------------------
(* orders-service.                                                         *)

(* orders-service moves no goods and no money.                             *)
LEMMA OrdersMoveStatusOnly ==
    ASSUME UNCHANGED <<inventoryVars, paymentsVars>>, NEW x \in OrderIds
    PROVE  GoodsOf(x)' = GoodsOf(x) /\ payments'[x].status = payments[x].status
  BY DEF inventoryVars, paymentsVars, GoodsOf, HasReservation, AlreadyProcessed

(* A request places an order that was not there, or none.                  *)
LEMMA ApiOutcome ==
    ASSUME SagaTypeOK, Provenance, ApiNext, UNCHANGED <<inventoryVars, paymentsVars>>
    PROVE  [Outcome!OutcomeNext]_Outcome!outcomeVars
<1>1. CASE UNCHANGED orders
  BY <1>1, OrdersMoveStatusOnly, StillIsStutter DEF Still
<1>2. ASSUME NEW r \in OrderIds, NEW p \in Products, NEW q \in Quantities,
             NEW t \in PaymentTypes, CreateOrder(r, p, q, t)
      PROVE  Outcome!OutcomeNext
  <2>1. orders[r].status = "none"
    BY <1>2 DEF CreateOrder, InsertOrder, Provenance, CreatedByRequest, Exists
  <2>2. /\ orders'[r].status = "PENDING"
        /\ \A x \in OrderIds \ {r} : orders'[x] = orders[x]
    BY <1>2 DEF CreateOrder, InsertOrder, SagaTypeOK, OrdersTypeOK
  <2>3. Outcome!Place(r)
    BY <2>1, <2>2, OrdersMoveStatusOnly, OneOrderMoves
       DEF Still, Outcome!Place, Outcome!Move
  <2> QED
    BY <2>3 DEF Outcome!OutcomeNext
<1> QED
  BY <1>1, <1>2 DEF ApiNext, MissingKey, CreateOrderFails, IdempotencyMiddleware,
     ResentSetNX, ExpireKey, RejectBody, DuplicateOrder, Reach

(* ConfirmOrder confirms an order that is paid for, or nothing.            *)
LEMMA ConfirmOrderOutcome ==
    ASSUME SagaTypeOK, NEW o \in OrderIds, payments[o].status = "AUTHORIZED",
           ConfirmOrder(o), UNCHANGED <<inventoryVars, paymentsVars>>
    PROVE  [Outcome!OutcomeNext]_Outcome!outcomeVars
<1>1. CASE orders[o].status # "PENDING"
  BY <1>1, OrdersMoveStatusOnly, StillIsStutter DEF ConfirmOrder, UpdateStatusToConfirmed, Still
<1>2. CASE orders[o].status = "PENDING"
  <2>1. /\ orders'[o].status = "CONFIRMED"
        /\ \A x \in OrderIds \ {o} : orders'[x] = orders[x]
    BY <1>2 DEF ConfirmOrder, UpdateStatusToConfirmed, SagaTypeOK, OrdersTypeOK, OrderRows
  <2>2. Outcome!Confirm(o)
    BY <1>2, <2>1, OrdersMoveStatusOnly, OneOrderMoves
       DEF Still, Outcome!Confirm, Outcome!Move
  <2> QED
    BY <2>2 DEF Outcome!OutcomeNext
<1> QED
  BY <1>1, <1>2

(* CancelOrder cancels an order whose goods were refused or given back.    *)
LEMMA CancelOrderOutcome ==
    ASSUME SagaTypeOK, NEW o \in OrderIds, NEW reason \in Reasons,
           GoodsOf(o) \in {"REFUSED", "RELEASED"},
           CancelOrder(o, reason), UNCHANGED <<inventoryVars, paymentsVars>>
    PROVE  [Outcome!OutcomeNext]_Outcome!outcomeVars
<1>1. CASE orders[o].status # "PENDING"
  BY <1>1, OrdersMoveStatusOnly, StillIsStutter DEF CancelOrder, UpdateStatusToCanceled, Still
<1>2. CASE orders[o].status = "PENDING"
  <2>1. /\ orders'[o].status = "CANCELED"
        /\ \A x \in OrderIds \ {o} : orders'[x] = orders[x]
    BY <1>2 DEF CancelOrder, UpdateStatusToCanceled, SagaTypeOK, OrdersTypeOK, OrderRows
  <2>2. Outcome!Cancel(o)
    BY <1>2, <2>1, OrdersMoveStatusOnly, OneOrderMoves
       DEF Still, Outcome!Cancel, Outcome!Move
  <2> QED
    BY <2>2 DEF Outcome!OutcomeNext
<1> QED
  BY <1>1, <1>2

---------------------------------------------------------------------------
(* inventory-service.                                                      *)

(* A handler of inventory-service that writes no reservation and announces *)
(* no refusal but those of order o leaves the other orders still.          *)
LEMMA OtherOrdersStill ==
    ASSUME NEW o \in OrderIds, NEW e, e.order = o,
           UNCHANGED <<ordersVars, paymentsVars>>,
           inventoryOutbox' = inventoryOutbox \cup {e},
           \A y \in OrderIds \ {o} : reservations'[y] = reservations[y],
           NEW x \in OrderIds \ {o}
    PROVE  Still(x)
<1>1. AlreadyProcessed(x, {"inventory.insufficient-stock"})'
        <=> AlreadyProcessed(x, {"inventory.insufficient-stock"})
  BY DEF AlreadyProcessed
<1>2. GoodsOf(x)' = GoodsOf(x)
  BY <1>1, SameGoods
<1> QED
  BY <1>2 DEF Still, ordersVars, paymentsVars

(* Nothing moves when inventory-service changes nothing.                   *)
LEMMA QuietStill ==
    ASSUME UNCHANGED <<orders, reservations, inventoryOutbox, payments>>
    PROVE  UNCHANGED Outcome!outcomeVars
<1>1. ASSUME NEW x \in OrderIds PROVE Still(x)
  BY DEF Still, GoodsOf, HasReservation, AlreadyProcessed
<1> QED
  BY <1>1, StillIsStutter

(* ReserveStock answers an order that exists and was not answered before.  *)
LEMMA ReserveStockOutcome ==
    ASSUME SagaTypeOK, Provenance, NEW o \in OrderIds, NEW p, NEW q, NEW t, Exists(o),
           ReserveStock(o, p, q, t), UNCHANGED <<ordersVars, paymentsVars>>
    PROVE  [Outcome!OutcomeNext]_Outcome!outcomeVars
<1>1. CASE AlreadyProcessed(o, {"inventory.reserved", "inventory.insufficient-stock"})
  BY <1>1, QuietStill DEF ReserveStock, inventoryVars, ordersVars, paymentsVars
<1>2. CASE ~AlreadyProcessed(o, {"inventory.reserved", "inventory.insufficient-stock"})
  <2>1. ~HasReservation(o) /\ GoodsOf(o) = "none" /\ orders[o].status # "none"
    BY <1>2 DEF Provenance, ReservationsComeFromOrders, AlreadyProcessed, GoodsOf, Exists
  <2>2. ASSUME NEW reason, Refuse(o, reason) PROVE Outcome!Answer(o, "REFUSED")
    <3>1. GoodsOf(o)' = "REFUSED"
      <4>1. /\ InsufficientStock(o, reason) \in inventoryOutbox'
            /\ InsufficientStock(o, reason).order = o
            /\ InsufficientStock(o, reason).topic = "inventory.insufficient-stock"
        BY <2>2 DEF Refuse, InsufficientStock
      <4>2. AlreadyProcessed(o, {"inventory.insufficient-stock"})'
        BY <4>1 DEF AlreadyProcessed
      <4> QED
        BY <2>1, <2>2, <4>2 DEF Refuse, GoodsOf, HasReservation
    <3>2. /\ InsufficientStock(o, reason).order = o
          /\ inventoryOutbox' = inventoryOutbox \cup {InsufficientStock(o, reason)}
          /\ UNCHANGED reservations
      BY <2>2 DEF Refuse, InsufficientStock
    <3>3. \A x \in OrderIds \ {o} : Still(x)
      BY <3>2, OtherOrdersStill
    <3> QED
      BY <2>1, <3>1, <3>3, OneOrderMoves DEF Outcome!Answer, Outcome!Move, ordersVars,
         paymentsVars
  <2>3. ASSUME Reserve(o, p, q, t) PROVE Outcome!Answer(o, "RESERVED")
    <3>1. /\ reservations'[o].status = "RESERVED"
          /\ \A x \in OrderIds \ {o} : reservations'[x] = reservations[x]
      BY <2>3 DEF Reserve, Amount, SagaTypeOK, InventoryTypeOK
    <3>2. GoodsOf(o)' = "RESERVED"
      BY <3>1 DEF GoodsOf, HasReservation
    <3>3. \A x \in OrderIds \ {o} : Still(x)
      BY <2>3, <3>1, OtherOrdersStill DEF Reserve, Amount, InventoryReserved
    <3> QED
      BY <2>1, <3>2, <3>3, OneOrderMoves DEF Outcome!Answer, Outcome!Move, ordersVars,
         paymentsVars
  <2> QED
    BY <1>2, <2>2, <2>3 DEF ReserveStock, AnswerOrder, Outcome!OutcomeNext
<1> QED
  BY <1>1, <1>2

(* A change of a reservation's status alone, and what it does to goods.    *)
LEMMA StatusOfReservation ==
    ASSUME SagaTypeOK, NEW o \in OrderIds, NEW to, to # "none", HasReservation(o),
           reservations' = [reservations EXCEPT ![o].status = to]
    PROVE  /\ GoodsOf(o) = reservations[o].status
           /\ GoodsOf(o)' = to
           /\ \A x \in OrderIds \ {o} : reservations'[x] = reservations[x]
<1>1. reservations'[o].status = to
  BY DEF SagaTypeOK, InventoryTypeOK, ReservationRows
<1> QED
  BY <1>1 DEF GoodsOf, HasReservation, SagaTypeOK, InventoryTypeOK

(* ReleaseStock gives back what was reserved: the units of a confirmed     *)
(* order have an authorized payment.                                       *)
LEMMA ReleaseStockOutcome ==
    ASSUME SagaTypeOK, Provenance, NEW o \in OrderIds, NEW reason,
           payments[o].status = "DENIED",
           ReleaseStock(o, reason), UNCHANGED <<ordersVars, paymentsVars>>
    PROVE  [Outcome!OutcomeNext]_Outcome!outcomeVars
<1>1. CASE UNCHANGED inventoryVars
  BY <1>1, QuietStill DEF inventoryVars, ordersVars, paymentsVars
<1>2. CASE /\ HasReservation(o)
           /\ reservations' = [reservations EXCEPT ![o].status = "RELEASED"]
           /\ inventoryOutbox' = inventoryOutbox \cup {InventoryReleased(o, reason)}
  <2>1. /\ GoodsOf(o) = reservations[o].status
        /\ GoodsOf(o)' = "RELEASED"
        /\ \A x \in OrderIds \ {o} : reservations'[x] = reservations[x]
    BY <1>2, StatusOfReservation
  <2>2. \A x \in OrderIds \ {o} : Still(x)
    BY <1>2, <2>1, OtherOrdersStill DEF InventoryReleased
  <2>3. reservations[o].status \in {"RESERVED", "RELEASED"}
    BY <1>2 DEF Provenance, FinalStatesAgree, HasReservation, SagaTypeOK, InventoryTypeOK,
       ReservationRows, ReservationStatuses
  <2>4. CASE reservations[o].status = "RELEASED"
    BY <2>1, <2>2, <2>4, StillIsStutter DEF Still, ordersVars, paymentsVars
  <2>5. CASE reservations[o].status = "RESERVED"
    <3>1. Outcome!Return(o)
      BY <2>1, <2>2, <2>5, OneOrderMoves DEF Outcome!Return, Outcome!Move, ordersVars,
         paymentsVars
    <3> QED
      BY <3>1 DEF Outcome!OutcomeNext
  <2> QED
    BY <2>3, <2>4, <2>5
<1> QED
  BY <1>1, <1>2 DEF ReleaseStock, RestoreStock

(* ConfirmReservation takes the goods of a confirmed order, or nothing.    *)
LEMMA ConfirmReservationOutcome ==
    ASSUME SagaTypeOK, Provenance, NEW o \in OrderIds, orders[o].status = "CONFIRMED",
           ConfirmReservation(o), UNCHANGED <<ordersVars, paymentsVars>>
    PROVE  [Outcome!OutcomeNext]_Outcome!outcomeVars
<1>1. CASE ~HasReservation(o)
  BY <1>1, QuietStill DEF ConfirmReservation, ordersVars, paymentsVars
<1>2. CASE HasReservation(o)
  <2>1. /\ GoodsOf(o) = reservations[o].status
        /\ GoodsOf(o)' = "CONFIRMED"
        /\ \A x \in OrderIds \ {o} : reservations'[x] = reservations[x]
    BY <1>2, StatusOfReservation DEF ConfirmReservation
  <2>2. ASSUME NEW x \in OrderIds \ {o} PROVE Still(x)
    <3>1. AlreadyProcessed(x, {"inventory.insufficient-stock"})'
            <=> AlreadyProcessed(x, {"inventory.insufficient-stock"})
      BY DEF ConfirmReservation, AlreadyProcessed
    <3> QED
      BY <2>1, <3>1, SameGoods DEF Still, ordersVars, paymentsVars
  <2>3. reservations[o].status \in {"RESERVED", "CONFIRMED"}
    BY <1>2 DEF Provenance, FinalStatesAgree, HasReservation, SagaTypeOK, InventoryTypeOK,
       ReservationRows, ReservationStatuses
  <2>4. CASE reservations[o].status = "CONFIRMED"
    BY <2>1, <2>2, <2>4, StillIsStutter DEF Still, ordersVars, paymentsVars
  <2>5. CASE reservations[o].status = "RESERVED"
    <3>1. Outcome!Take(o)
      BY <2>1, <2>2, <2>5, OneOrderMoves DEF Outcome!Take, Outcome!Move, ordersVars,
         paymentsVars
    <3> QED
      BY <3>1 DEF Outcome!OutcomeNext
  <2> QED
    BY <2>3, <2>4, <2>5
<1> QED
  BY <1>1, <1>2

---------------------------------------------------------------------------
(* payments-service.                                                       *)

(* ProcessPayment decides once, for goods that are still set aside: what   *)
(* was confirmed or released has its payment.                              *)
LEMMA ProcessPaymentOutcome ==
    ASSUME SagaTypeOK, Provenance, NEW o \in OrderIds, NEW amount, NEW t, HasReservation(o),
           ProcessPayment(o, amount, t), UNCHANGED <<ordersVars, inventoryVars>>
    PROVE  [Outcome!OutcomeNext]_Outcome!outcomeVars
<1>1. CASE ExistsByOrderID(o)
  BY <1>1, QuietStill DEF ProcessPayment, paymentsVars, ordersVars, inventoryVars
<1>2. CASE ~ExistsByOrderID(o)
  <2>1. payments[o].status = "none"
    BY <1>2 DEF ExistsByOrderID
  <2>2. GoodsOf(o) = "RESERVED"
    BY <2>1 DEF GoodsOf, Provenance, FinalStatesAgree, HasReservation, SagaTypeOK,
       InventoryTypeOK, ReservationRows, ReservationStatuses
  <2>3. /\ payments'[o].status \in {"AUTHORIZED", "DENIED"}
        /\ \A x \in OrderIds \ {o} : payments'[x] = payments[x]
    BY <1>2 DEF ProcessPayment, Decide, SagaTypeOK, PaymentsTypeOK
  <2>4. ASSUME NEW x \in OrderIds
        PROVE  orders'[x].status = orders[x].status /\ GoodsOf(x)' = GoodsOf(x)
    BY DEF ordersVars, inventoryVars, GoodsOf, HasReservation, AlreadyProcessed
  <2>5. PICK decision \in {"AUTHORIZED", "DENIED"} : payments'[o].status = decision
    BY <2>3
  <2>6. Outcome!Decide(o, decision)
    BY <2>1, <2>2, <2>3, <2>4, <2>5, OneOrderMoves DEF Still, Outcome!Decide, Outcome!Move
  <2> QED
    BY <2>6 DEF Outcome!OutcomeNext
<1> QED
  BY <1>1, <1>2

---------------------------------------------------------------------------
(* A handler acts on a message that is true, so it moves what it may.      *)
LEMMA DeliverOutcome ==
    ASSUME SagaTypeOK, Provenance, NEW m \in published, Deliver(m)
    PROVE  [Outcome!OutcomeNext]_Outcome!outcomeVars
<1> DEFINE o == m.order
<1>1. m \in Events /\ o \in OrderIds /\ published \subseteq Outboxes
  BY EventFields DEF SagaTypeOK, Provenance
<1>2. CASE ordersConsumers(m)
  <2>1. UNCHANGED <<inventoryVars, paymentsVars>>
    BY <1>2 DEF ordersConsumers
  <2>2. ASSUME OnPaymentAuthorized(m) PROVE payments[o].status = "AUTHORIZED"
    BY <1>1, <2>2, MessageOrigin DEF OnPaymentAuthorized, Provenance, PaymentEventsAreTrue
  <2>3. ASSUME OnInventoryReleased(m) PROVE GoodsOf(o) = "RELEASED" /\ m.reason \in Reasons
    BY <1>1, <2>3, MessageOrigin, EventFields DEF OnInventoryReleased, Provenance,
       InventoryEventsAreTrue, GoodsOf, HasReservation, Reasons
  <2>4. ASSUME OnInsufficientStock(m) PROVE GoodsOf(o) = "REFUSED" /\ m.reason \in Reasons
    <3>1. m \in inventoryOutbox /\ ~HasReservation(o)
      BY <1>1, <2>4, MessageOrigin DEF OnInsufficientStock, Provenance,
         InventoryEventsAreTrue
    <3>2. AlreadyProcessed(o, {"inventory.insufficient-stock"})
      BY <2>4, <3>1 DEF OnInsufficientStock, AlreadyProcessed
    <3> QED
      BY <1>1, <2>4, <3>1, <3>2, EventFields DEF OnInsufficientStock, GoodsOf, Reasons
  <2> QED
    BY <1>1, <1>2, <2>1, <2>2, <2>3, <2>4, ConfirmOrderOutcome, CancelOrderOutcome
       DEF ordersConsumers, OnPaymentAuthorized, OnInventoryReleased, OnInsufficientStock
<1>3. CASE inventoryConsumers(m)
  <2>1. UNCHANGED <<ordersVars, paymentsVars>>
    BY <1>3 DEF inventoryConsumers
  <2>2. ASSUME OnOrderCreated(m) PROVE Exists(o)
    BY <1>1, <2>2, MessageOrigin DEF OnOrderCreated, Provenance, OrderEventsAreTrue
  <2>3. ASSUME OnPaymentDenied(m) PROVE payments[o].status = "DENIED"
    BY <1>1, <2>3, MessageOrigin DEF OnPaymentDenied, Provenance, PaymentEventsAreTrue
  <2>4. ASSUME OnOrderConfirmed(m) PROVE orders[o].status = "CONFIRMED"
    BY <1>1, <2>4, MessageOrigin DEF OnOrderConfirmed, Provenance, OrderEventsAreTrue
  <2> QED
    BY <1>1, <1>3, <2>1, <2>2, <2>3, <2>4, ReserveStockOutcome, ReleaseStockOutcome,
       ConfirmReservationOutcome
       DEF inventoryConsumers, OnOrderCreated, OnPaymentDenied, OnOrderConfirmed
<1>4. CASE paymentsConsumers(m)
  <2>1. HasReservation(o)
    BY <1>1, <1>4, MessageOrigin DEF paymentsConsumers, Provenance, InventoryEventsAreTrue
  <2> QED
    BY <1>1, <1>4, <2>1, ProcessPaymentOutcome DEF paymentsConsumers
<1> QED
  BY <1>2, <1>3, <1>4 DEF Deliver

(* Administrators, relays and consumers that skip move nothing.            *)
LEMMA NextOutcome ==
    SagaTypeOK /\ Provenance /\ [Next]_vars => [Outcome!OutcomeNext]_Outcome!outcomeVars
<1> SUFFICES ASSUME SagaTypeOK, Provenance, [Next]_vars
             PROVE  [Outcome!OutcomeNext]_Outcome!outcomeVars
  OBVIOUS
<1>1. CASE ApiNext /\ UNCHANGED <<inventoryVars, paymentsVars, kafkaVars>>
  BY <1>1, ApiOutcome
<1>2. CASE WebNext /\ UNCHANGED <<ordersVars, paymentsVars, kafkaVars>>
  BY <1>2, QuietStill DEF WebNext, CreateProduct, CreateStock, UpdateStockQuantity,
     ordersVars, paymentsVars
<1>3. ASSUME NEW e, Publish(e) \/ GiveUp(e) \/ Skip(e)
      PROVE  UNCHANGED Outcome!outcomeVars
  BY <1>3, QuietStill DEF Publish, GiveUp, Skip, ordersVars, inventoryVars, paymentsVars
<1>4. ASSUME NEW m \in published, Deliver(m)
      PROVE  [Outcome!OutcomeNext]_Outcome!outcomeVars
  BY <1>4, DeliverOutcome
<1>5. CASE UNCHANGED vars
  BY <1>5, QuietStill DEF vars, ordersVars, inventoryVars, paymentsVars
<1> QED
  BY <1>1, <1>2, <1>3, <1>4, <1>5 DEF Next, Environment

(* No order, no goods and no money at first.                               *)
LEMMA InitOutcome == Init => Outcome!OutcomeInit
  BY DEF Init, OrdersInit, InventoryInit, PaymentsInit, NoOrder, NoReservation, NoPayment,
     Outcome!OutcomeInit, GoodsOf, HasReservation, AlreadyProcessed

(* The saga implements SagaOutcome, whatever is lost, repeated or          *)
(* reordered: each step of an order happens once and waits for the steps   *)
(* of the other services it depends on.                                    *)
THEOREM Implementation == Spec => ImplementsOutcome
<1> QED
  BY InitOutcome, NextOutcome, TypeCorrect, ProvenanceHolds, PTL
     DEF Spec, ImplementsOutcome, Outcome!OutcomeSpec

---------------------------------------------------------------------------
(* The consumers are idempotent.                                           *)

(* What is settled about an order stays as it is, and nobody answers an    *)
(* order that does not exist.                                              *)
LEMMA SettledMoves ==
    ASSUME [Outcome!OutcomeNext]_Outcome!outcomeVars, NEW x \in OrderIds
    PROVE  /\ orders[x].status # "none" => orders'[x].status # "none"
           /\ orders[x].status \notin {"none", "PENDING"} =>
                orders'[x].status = orders[x].status
           /\ payments[x].status # "none" => payments'[x].status = payments[x].status
           /\ GoodsOf(x)' = GoodsOf(x) \/ GoodsOf(x) # "none" \/ orders[x].status # "none"
<1> DEFINE S == [o \in OrderIds |-> orders[o].status]
           G == [o \in OrderIds |-> GoodsOf(o)]
           M == [o \in OrderIds |-> payments[o].status]
<1>1. /\ S[x] = orders[x].status /\ S'[x] = orders'[x].status
      /\ G[x] = GoodsOf(x) /\ G'[x] = GoodsOf(x)'
      /\ M[x] = payments[x].status /\ M'[x] = payments'[x].status
  OBVIOUS
<1>2. DOMAIN S = OrderIds /\ DOMAIN G = OrderIds /\ DOMAIN M = OrderIds
  OBVIOUS
<1>3. \/ UNCHANGED <<S, G, M>>
      \/ \E o \in OrderIds :
           \/ S[o] = "none" /\ S' = [S EXCEPT ![o] = "PENDING"] /\ UNCHANGED <<G, M>>
           \/ \E answer : /\ S[o] # "none" /\ G[o] = "none"
                          /\ G' = [G EXCEPT ![o] = answer] /\ UNCHANGED <<S, M>>
           \/ \E decision : /\ M[o] = "none" /\ M' = [M EXCEPT ![o] = decision]
                            /\ UNCHANGED <<S, G>>
           \/ \E to : /\ S[o] = "PENDING" /\ S' = [S EXCEPT ![o] = to] /\ to # "none"
                      /\ UNCHANGED <<G, M>>
           \/ \E to : /\ G[o] = "RESERVED" /\ G' = [G EXCEPT ![o] = to]
                      /\ UNCHANGED <<S, M>>
  BY DEF Outcome!OutcomeNext, Outcome!outcomeVars, Outcome!Move, Outcome!Place, Outcome!Answer,
     Outcome!Decide, Outcome!Confirm, Outcome!Take, Outcome!Return, Outcome!Cancel
<1> HIDE DEF S, G, M
<1>4. /\ S[x] # "none" => S'[x] # "none"
      /\ S[x] \notin {"none", "PENDING"} => S'[x] = S[x]
      /\ M[x] # "none" => M'[x] = M[x]
      /\ G'[x] = G[x] \/ G[x] # "none" \/ S[x] # "none"
  BY <1>2, <1>3
<1> QED
  BY <1>1, <1>4

(* inventory-service forgets no announcement.                              *)
LEMMA AnnouncementsStay ==
    ASSUME [Next]_vars PROVE inventoryOutbox \subseteq inventoryOutbox'
  BY DEF Next, Environment, WebNext, CreateProduct, CreateStock, UpdateStockQuantity, Publish,
     GiveUp, Skip, Deliver, ordersConsumers, inventoryConsumers, paymentsConsumers,
     OnOrderCreated, OnPaymentDenied, OnOrderConfirmed, ReserveStock, AnswerOrder, Refuse,
     Reserve, ReleaseStock, ConfirmReservation, inventoryVars, vars

\* inventory-service answers orders that exist.
AnswersAreOfOrders == \A o \in OrderIds : GoodsOf(o) # "none" => Exists(o)

(* An answer is SagaOutcome's Answer, which waits for the order.           *)
LEMMA AnswersHold == Spec => []AnswersAreOfOrders
<1>1. Init => AnswersAreOfOrders
  BY InitOutcome DEF Outcome!OutcomeInit, AnswersAreOfOrders
<1>2. SagaTypeOK /\ Provenance /\ AnswersAreOfOrders /\ [Next]_vars => AnswersAreOfOrders'
  BY NextOutcome, SettledMoves DEF AnswersAreOfOrders, Exists
<1> QED
  BY <1>1, <1>2, TypeCorrect, ProvenanceHolds, PTL DEF Spec

(* An event is in the outbox of the service that owns its topic.           *)
LEMMA EventOrigin ==
    ASSUME SagaTypeOK, NEW e \in Outboxes
    PROVE  /\ e.topic \in {"orders.created", "orders.confirmed"} => e \in ordersOutbox
           /\ e.topic \in {"inventory.reserved", "inventory.insufficient-stock",
                           "inventory.released"} => e \in inventoryOutbox
           /\ e.topic \in {"payments.authorized", "payments.denied"} => e \in paymentsOutbox
  BY DEF Outboxes, SagaTypeOK, OrdersTypeOK, InventoryTypeOK, PaymentsTypeOK,
     OrderEvents, InventoryEvents, PaymentEvents

(* An event without work never has any again: what used its work up, or    *)
(* made it needless, is not undone by any step.                            *)
LEMMA NoWorkAgain ==
    ASSUME SagaTypeOK, Provenance, AnswersAreOfOrders, [Next]_vars, NEW e \in Outboxes,
           ~HasWork(e)
    PROVE  ~HasWork(e)'
<1> DEFINE o == e.order
<1>1. e \in Events /\ o \in OrderIds /\ e.topic \in Topics
  BY EventFields, OutboxOrders DEF Outboxes, Events, SagaTypeOK, OrdersTypeOK, InventoryTypeOK,
     PaymentsTypeOK
<1>2. [Outcome!OutcomeNext]_Outcome!outcomeVars
  BY NextOutcome
<1>3. \A topics : AlreadyProcessed(o, topics) => AlreadyProcessed(o, topics)'
  BY AnnouncementsStay DEF AlreadyProcessed
<1>4. CASE e.topic = "orders.created"
  BY <1>3, <1>4 DEF HasWork
<1>5. CASE e.topic = "inventory.reserved"
  BY <1>1, <1>2, <1>5, SettledMoves DEF HasWork, ExistsByOrderID
<1>6. CASE e.topic = "payments.denied"
  <2>1. HasReservation(o)
    BY <1>1, <1>6, EventOrigin DEF Provenance, PaymentEventsAreTrue,
       PaymentsComeFromReservations, ExistsByOrderID
  <2> QED
    BY <1>3, <1>6, <2>1 DEF HasWork
<1>7. CASE e.topic = "orders.confirmed"
  <2>1. orders[o].status = "CONFIRMED"
    BY <1>7, EventOrigin DEF Provenance, OrderEventsAreTrue
  <2>2. HasReservation(o)
    BY <1>1, <2>1 DEF Provenance, FinalStatesAgree, PaymentsComeFromReservations, ExistsByOrderID
  <2>3. reservations[o].status \in {"CONFIRMED", "RELEASED"}
    BY <1>1, <1>7, <2>2 DEF HasWork, HasReservation, SagaTypeOK, InventoryTypeOK,
       ReservationRows, ReservationStatuses
  <2> QED
    BY <1>1, <1>7, <2>3, SettledStays DEF HasWork
<1>8. CASE e.topic \in {"payments.authorized", "inventory.released", "inventory.insufficient-stock"}
  <2>1. Exists(o)
    <3>1. CASE e.topic = "payments.authorized"
      BY <1>1, <3>1, EventOrigin DEF Provenance, PaymentEventsAreTrue,
         PaymentsComeFromReservations, ReservationsComeFromOrders, ExistsByOrderID
    <3>2. CASE e.topic \in {"inventory.released", "inventory.insufficient-stock"}
      <4>1. e \in inventoryOutbox
        BY <3>2, EventOrigin
      <4>2. GoodsOf(o) # "none"
        BY <3>2, <4>1 DEF Provenance, InventoryEventsAreTrue, GoodsOf, AlreadyProcessed,
           HasReservation
      <4> QED
        BY <1>1, <4>2 DEF AnswersAreOfOrders
    <3> QED
      BY <1>8, <3>1, <3>2
  <2>2. orders[o].status \notin {"none", "PENDING"}
    BY <1>8, <2>1 DEF HasWork, Exists
  <2>3. orders'[o].status # "PENDING"
    BY <1>1, <1>2, <2>2, SettledMoves
  <2> QED
    BY <1>8, <2>3 DEF HasWork
<1> QED
  BY <1>1, <1>4, <1>5, <1>6, <1>7, <1>8 DEF Topics

(* What a handler does, it does for an event with work, and that is all    *)
(* the work there was.                                                     *)
LEMMA WorkDone ==
    ASSUME SagaTypeOK, Provenance, NEW m \in published, Deliver(m)
    PROVE  UNCHANGED vars \/ (HasWork(m) /\ ~HasWork(m)')
<1> DEFINE o == m.order
<1>1. m \in Events /\ o \in OrderIds /\ published \subseteq Outboxes
  BY EventFields DEF SagaTypeOK, Provenance
<1>2. UNCHANGED kafkaVars
  BY DEF Deliver
<1>3. CASE ordersConsumers(m)
  <2>1. m.topic \in {"payments.authorized", "inventory.released", "inventory.insufficient-stock"}
    BY <1>3 DEF ordersConsumers, OnPaymentAuthorized, OnInventoryReleased, OnInsufficientStock
  <2>2. CASE orders[o].status # "PENDING"
    BY <1>2, <1>3, <2>2 DEF ordersConsumers, OnPaymentAuthorized, OnInventoryReleased,
       OnInsufficientStock, ConfirmOrder, UpdateStatusToConfirmed, CancelOrder,
       UpdateStatusToCanceled, ordersVars, vars
  <2>3. CASE orders[o].status = "PENDING"
    <3>1. orders'[o].status \in {"CONFIRMED", "CANCELED"}
      BY <1>1, <1>3, <2>3 DEF ordersConsumers, OnPaymentAuthorized, OnInventoryReleased,
         OnInsufficientStock, ConfirmOrder, UpdateStatusToConfirmed, CancelOrder,
         UpdateStatusToCanceled, SagaTypeOK, OrdersTypeOK, OrderRows
    <3> QED
      BY <2>1, <2>3, <3>1 DEF HasWork
  <2> QED
    BY <2>2, <2>3
<1>4. CASE OnOrderCreated(m) /\ UNCHANGED <<ordersVars, paymentsVars>>
  <2> DEFINE answers == {"inventory.reserved", "inventory.insufficient-stock"}
  <2>1. CASE AlreadyProcessed(o, answers)
    BY <1>2, <1>4, <2>1 DEF OnOrderCreated, ReserveStock, vars
  <2>2. CASE ~AlreadyProcessed(o, answers)
    <3>1. AnswerOrder(o, m.product, m.quantity, m.paymentType)
      BY <1>4, <2>2 DEF OnOrderCreated, ReserveStock
    <3>2. PICK e : /\ e.order = o /\ e.topic \in answers
                   /\ inventoryOutbox' = inventoryOutbox \cup {e}
      BY <3>1 DEF AnswerOrder, Refuse, Reserve, InsufficientStock, InventoryReserved
    <3>3. AlreadyProcessed(o, answers)'
      BY <3>2 DEF AlreadyProcessed
    <3> QED
      BY <1>4, <2>2, <3>3 DEF OnOrderCreated, HasWork
  <2> QED
    BY <2>1, <2>2
<1>5. CASE OnPaymentDenied(m) /\ UNCHANGED <<ordersVars, paymentsVars>>
  <2>1. CASE AlreadyProcessed(o, {"inventory.released"}) \/ ~HasReservation(o)
    BY <1>2, <1>5, <2>1 DEF OnPaymentDenied, ReleaseStock, vars
  <2>2. CASE ~AlreadyProcessed(o, {"inventory.released"}) /\ HasReservation(o)
    <3>1. PICK e : /\ e.order = o /\ e.topic = "inventory.released"
                   /\ inventoryOutbox' = inventoryOutbox \cup {e}
      BY <1>5, <2>2 DEF OnPaymentDenied, ReleaseStock, InventoryReleased
    <3>2. AlreadyProcessed(o, {"inventory.released"})'
      BY <3>1 DEF AlreadyProcessed
    <3> QED
      BY <1>5, <2>2, <3>2 DEF OnPaymentDenied, HasWork
  <2> QED
    BY <2>1, <2>2
<1>6. CASE OnOrderConfirmed(m) /\ UNCHANGED <<ordersVars, paymentsVars>>
  <2>1. orders[o].status = "CONFIRMED"
    BY <1>1, <1>6, MessageOrigin DEF OnOrderConfirmed, Provenance, OrderEventsAreTrue
  <2>2. reservations[o].status \in {"RESERVED", "CONFIRMED"}
    BY <1>1, <2>1 DEF Provenance, FinalStatesAgree, PaymentsComeFromReservations,
       ExistsByOrderID, HasReservation, SagaTypeOK, InventoryTypeOK, ReservationRows,
       ReservationStatuses
  <2>3. reservations' = [reservations EXCEPT ![o].status = "CONFIRMED"]
    BY <1>6, <2>2 DEF OnOrderConfirmed, ConfirmReservation, HasReservation
  <2>4. CASE reservations[o].status = "CONFIRMED"
    <3>1. [reservations[o] EXCEPT !.status = "CONFIRMED"] = reservations[o]
      BY <1>1, <2>4 DEF SagaTypeOK, InventoryTypeOK, ReservationRows
    <3>2. UNCHANGED reservations
      BY <1>1, <2>3, <3>1 DEF SagaTypeOK, InventoryTypeOK
    <3> QED
      BY <1>2, <1>6, <3>2 DEF OnOrderConfirmed, ConfirmReservation, inventoryVars, vars
  <2>5. CASE reservations[o].status = "RESERVED"
    <3>1. reservations'[o].status = "CONFIRMED"
      BY <1>1, <2>3 DEF SagaTypeOK, InventoryTypeOK, ReservationRows
    <3> QED
      BY <1>6, <2>5, <3>1 DEF OnOrderConfirmed, HasWork
  <2> QED
    BY <2>2, <2>4, <2>5
<1>7. CASE paymentsConsumers(m)
  <2>1. CASE ExistsByOrderID(o)
    BY <1>2, <1>7, <2>1 DEF paymentsConsumers, ProcessPayment, vars
  <2>2. CASE ~ExistsByOrderID(o)
    <3>1. payments'[o].status \in {"AUTHORIZED", "DENIED"}
      BY <1>1, <1>7, <2>2 DEF paymentsConsumers, ProcessPayment, Decide, SagaTypeOK, PaymentsTypeOK
    <3> QED
      BY <1>7, <2>2, <3>1 DEF paymentsConsumers, HasWork, ExistsByOrderID
  <2> QED
    BY <2>1, <2>2
<1> QED
  BY <1>3, <1>4, <1>5, <1>6, <1>7 DEF Deliver, inventoryConsumers

(* Messages come late, twice and out of order, and handlers check only     *)
(* some of them: still no handler does anything for an event whose work    *)
(* was done, and no step of any service gives it new work.                 *)
THEOREM ConsumersAreIdempotent == Spec => WorkIsDoneOnce
<1>1. SagaTypeOK /\ Provenance /\ AnswersAreOfOrders /\ [Next]_vars =>
        [/\ \A e \in Outboxes : ~HasWork(e) => ~HasWork(e)'
         /\ \A m \in published : Deliver(m) => HasWork(m) /\ ~HasWork(m)']_vars
  BY NoWorkAgain, WorkDone
<1> QED
  BY <1>1, TypeCorrect, ProvenanceHolds, AnswersHold, PTL DEF Spec, WorkIsDoneOnce

\* An order whose events have all been dealt with: either it is CONFIRMED, paid and its
\* units taken, or it is CANCELED, not paid and its units are in stock.
AgreedAtRest ==
    \A o \in OrderIds :
        Exists(o) /\ (\A e \in Outboxes : e.order = o => ~HasWork(e)) =>
            \/ /\ orders[o].status = "CONFIRMED"
               /\ payments[o].status = "AUTHORIZED"
               /\ reservations[o].status = "CONFIRMED"
            \/ /\ orders[o].status = "CANCELED"
               /\ payments[o].status # "AUTHORIZED"
               /\ reservations[o].status \in {"none", "RELEASED"}

(* When the events of an order are used up, the three databases agree on   *)
(* it, with no transaction that spans them.                                *)
THEOREM EventualAgreement == Spec => []AgreedAtRest
<1>1. SagaTypeOK /\ NothingIsForgotten /\ ConfirmedIsPaid /\ CanceledIsCompensated
        => AgreedAtRest
  BY DEF AgreedAtRest, NothingIsForgotten, ConfirmedIsPaid, CanceledIsCompensated, Exists,
     HasReservation, ExistsByOrderID, SagaTypeOK, OrdersTypeOK, OrderRows, Statuses
<1> QED
  BY <1>1, TypeCorrect, NothingForgotten, Confirmation, Compensation, PTL
===========================================================================

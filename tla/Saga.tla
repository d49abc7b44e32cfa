------------------------------- MODULE Saga -------------------------------
(***************************************************************************)
(* The choreographed saga: the three services composed through Kafka.      *)
(*                                                                         *)
(* A topic is a grow-only set.  Any published message may be handed to its *)
(* consumer at any time, any number of times and in any order: relays send *)
(* an event again when they crash or lose their lease before marking it    *)
(* SENT, consumers get it again after a restart or a rebalance, and two    *)
(* topics have no common order.  Two things stop an event for good: the    *)
(* relay puts it in DEAD_LETTER, or its consumer moves past it (kafka-go   *)
(* after a failed handler, Spring after ten attempts).  At most MaxLosses  *)
(* events are lost so in a behaviour.                                      *)
(***************************************************************************)
EXTENDS Orders, Inventory, Payments

CONSTANT MaxLosses

ASSUME MaxLossesIsNat == MaxLosses \in Nat

VARIABLES
    published,   \* messages some relay wrote to Kafka
    deadLetter,  \* outbox events a relay gave up
    skipped      \* messages their consumer gave up

kafkaVars == <<published, deadLetter, skipped>>
vars == <<ordersVars, inventoryVars, paymentsVars, kafkaVars>>

Outboxes == ordersOutbox \cup inventoryOutbox \cup paymentsOutbox

Events == OrderEvents \cup InventoryEvents \cup PaymentEvents

SagaTypeOK ==
    /\ OrdersTypeOK
    /\ InventoryTypeOK
    /\ PaymentsTypeOK
    /\ published \subseteq Events
    /\ deadLetter \subseteq Events
    /\ skipped \subseteq Events

Init ==
    /\ OrdersInit
    /\ InventoryInit
    /\ PaymentsInit
    /\ published = {}
    /\ deadLetter = {}
    /\ skipped = {}

---------------------------------------------------------------------------
(* The relays.                                                             *)

MayLose == Cardinality(deadLetter) + Cardinality(skipped) < MaxLosses

\* A dead letter, too: another instance of the service may still hold the event
\* in a batch it leased before.
Publish(e) ==
    /\ e \in Outboxes
    /\ published' = published \cup {e}
    /\ UNCHANGED <<ordersVars, inventoryVars, paymentsVars, deadLetter, skipped>>

\* The retries are used up.  An earlier attempt may have reached Kafka all
\* the same: the write, or only its acknowledgement, failed.
GiveUp(e) ==
    /\ MayLose
    /\ e \in Outboxes \ deadLetter
    /\ deadLetter' = deadLetter \cup {e}
    /\ UNCHANGED <<ordersVars, inventoryVars, paymentsVars, published, skipped>>

---------------------------------------------------------------------------
(* The consumers: which handler each topic is wired to.                    *)

\* Orders that believe a reservation to be as good as a payment.
OnPaymentAuthorized_OrReserved(m) ==
    m.topic \in {"payments.authorized", "inventory.reserved"} /\ ConfirmOrder(m.order)

OnPaymentAuthorized(m) == m.topic = "payments.authorized" /\ ConfirmOrder(m.order)

\* Orders that cancel on the denial, without waiting for the release.
OnInventoryReleased_OrDenied(m) ==
    m.topic \in {"payments.denied", "inventory.released"} /\ CancelOrder(m.order, m.reason)

OnInventoryReleased(m) ==
    m.topic = "inventory.released" /\ CancelOrder(m.order, m.reason)

OnInsufficientStock(m) ==
    m.topic = "inventory.insufficient-stock" /\ CancelOrder(m.order, m.reason)

ordersConsumers(m) ==
    /\ OnPaymentAuthorized(m) \/ OnInventoryReleased(m) \/ OnInsufficientStock(m)
    /\ UNCHANGED <<inventoryVars, paymentsVars>>

OnOrderCreated(m) ==
    /\ m.topic = "orders.created"
    /\ ReserveStock(m.order, m.product, m.quantity, m.paymentType)

OnPaymentDenied(m) == m.topic = "payments.denied" /\ ReleaseStock(m.order, m.reason)

\* An inventory that confirms on the authorization, not on the order's word.
OnOrderConfirmed_OrAuthorized(m) ==
    m.topic \in {"payments.authorized", "orders.confirmed"} /\ ConfirmReservation(m.order)

OnOrderConfirmed(m) == m.topic = "orders.confirmed" /\ ConfirmReservation(m.order)

inventoryConsumers(m) ==
    /\ OnOrderCreated(m) \/ OnPaymentDenied(m) \/ OnOrderConfirmed(m)
    /\ UNCHANGED <<ordersVars, paymentsVars>>

paymentsConsumers(m) ==
    /\ m.topic = "inventory.reserved"
    /\ ProcessPayment(m.order, m.amount, m.paymentType)
    /\ UNCHANGED <<ordersVars, inventoryVars>>

\* A handler that ends without an error.  One that fails has rolled back and
\* is no step at all.
Deliver(m) ==
    /\ m \in published
    /\ ordersConsumers(m) \/ inventoryConsumers(m) \/ paymentsConsumers(m)
    /\ UNCHANGED kafkaVars

\* The consumer moves past a message it could not process.
Skip(m) ==
    /\ MayLose
    /\ m \in published \ skipped
    /\ skipped' = skipped \cup {m}
    /\ UNCHANGED <<ordersVars, inventoryVars, paymentsVars, published, deadLetter>>

---------------------------------------------------------------------------
Environment ==
    \/ ApiNext /\ UNCHANGED <<inventoryVars, paymentsVars, kafkaVars>>
    \/ WebNext /\ UNCHANGED <<ordersVars, paymentsVars, kafkaVars>>

Next ==
    \/ Environment
    \/ \E e \in Outboxes : Publish(e) \/ GiveUp(e)
    \/ \E m \in published : Deliver(m) \/ Skip(m)

Spec == Init /\ [][Next]_vars

Topics == {"orders.created", "orders.confirmed", "inventory.reserved",
           "inventory.insufficient-stock", "inventory.released",
           "payments.authorized", "payments.denied"}

\* An order has at most one event per topic, so a step is named by the two.
PublishPending(o, t) ==
    \E e \in Outboxes : e.order = o /\ e.topic = t
                      /\ e \notin published \cup deadLetter /\ Publish(e)

DeliverPending(o, t) ==
    \E m \in published : m.order = o /\ m.topic = t /\ m \notin skipped /\ Deliver(m)

\* Relays poll and consumers fetch for as long as the services run: an event
\* is eventually published unless it is given up, and a message processed
\* unless it is skipped.  Nothing obliges clients, administrators or losses.
Fairness ==
    \A o \in OrderIds, t \in Topics :
        WF_vars(PublishPending(o, t)) /\ WF_vars(DeliverPending(o, t))

FairSpec == Spec /\ Fairness

---------------------------------------------------------------------------
(* What the saga must guarantee, over the state of the three databases.    *)

\* An order is CONFIRMED only with an authorized payment and its units set
\* aside, whatever order or repetition the messages came in.
ConfirmedIsPaid ==
    \A o \in OrderIds : orders[o].status = "CONFIRMED" =>
        /\ payments[o].status = "AUTHORIZED"
        /\ reservations[o].status \in {"RESERVED", "CONFIRMED"}

\* An order is CANCELED either because inventory refused it, and then nothing
\* was reserved or paid, or because the payment was denied, and then its units
\* are back in stock; it records the reason the deciding service gave.
CanceledIsCompensated ==
    \A o \in OrderIds : orders[o].status = "CANCELED" =>
        LET reason == orders[o].reason
        IN  \/ /\ InsufficientStock(o, reason) \in inventoryOutbox
               /\ ~HasReservation(o)
               /\ ~ExistsByOrderID(o)
            \/ /\ reservations[o].status = "RELEASED"
               /\ payments[o].status = "DENIED"
               /\ payments[o].reason = reason

\* ReleaseStock and ConfirmReservation do not look at the reservation's status;
\* the saga's order of events alone keeps a released reservation from being
\* confirmed and a confirmed one from being released.
ReservationFollowsPayment ==
    \A o \in OrderIds :
        /\ reservations[o].status = "CONFIRMED" => orders[o].status = "CONFIRMED"
        /\ reservations[o].status = "RELEASED" => payments[o].status = "DENIED"
        /\ ExistsByOrderID(o) => HasReservation(o)

\* Units are neither created nor lost across the services: what administrators
\* put in is in stock or held by reservations not released.
StockIsConserved ==
    \A p \in Products : stock[p] # Absent =>
        stock[p] + Cardinality(UnitsOf({o \in OrderIds :
                       reservations[o].status # "RELEASED"}, p))
            = supplied[p]

\* What the customer ordered is what is reserved and what is charged for.
ChargedForWhatWasOrdered ==
    \A o \in OrderIds :
        /\ HasReservation(o) =>
             /\ reservations[o].product = orders[o].product
             /\ reservations[o].quantity = orders[o].quantity
        /\ ExistsByOrderID(o) =>
             /\ payments[o].paymentType = orders[o].paymentType
             /\ payments[o].amount = Wrap(prices[orders[o].product] * orders[o].quantity)

\* The payment rules hold of the price the customer owes: a credit card is not
\* charged more than the limit.
CardLimitIsKept ==
    \A o \in OrderIds :
        payments[o].status = "AUTHORIZED" /\ payments[o].paymentType = "CREDIT_CARD" =>
            prices[orders[o].product] * orders[o].quantity <= CardLimit

\* The handler of an event has something left to do for it.
HasWork(e) ==
    LET o == e.order IN
    CASE e.topic = "orders.created" ->
            ~AlreadyProcessed(o, {"inventory.reserved", "inventory.insufficient-stock"})
      [] e.topic = "inventory.reserved" -> ~ExistsByOrderID(o)
      [] e.topic = "payments.denied" ->
            HasReservation(o) /\ ~AlreadyProcessed(o, {"inventory.released"})
      [] e.topic = "orders.confirmed" -> reservations[o].status = "RESERVED"
      [] e.topic \in {"payments.authorized", "inventory.released",
                      "inventory.insufficient-stock"} -> orders[o].status = "PENDING"

\* No order and no reservation waits for an event that nobody will send: what can move
\* it is in some outbox, written with the row that called for it, and was not yet
\* handled; no handler's early return and no repetition has used it up.
NothingIsForgotten ==
    \A o \in OrderIds :
        orders[o].status = "PENDING" \/ reservations[o].status = "RESERVED" =>
            \E e \in Outboxes : e.order = o /\ HasWork(e)

\* The consumers are idempotent: what an event has its handler do is done once, however
\* often, late or out of order it comes.  A delivery leaves the event no work, an event
\* without work never has any again, and its delivery changes nothing.
WorkIsDoneOnce ==
    [][ /\ \A e \in Outboxes : ~HasWork(e) => ~HasWork(e)'
        /\ \A m \in published : Deliver(m) => HasWork(m) /\ ~HasWork(m)' ]_vars

\* The limit fails for an amount that overflowed, and for no other reason.
CardLimitIsKeptInRange ==
    \A o \in OrderIds :
        payments[o].status = "AUTHORIZED" /\ payments[o].paymentType = "CREDIT_CARD" =>
            LET owed == prices[orders[o].product] * orders[o].quantity
            IN  owed <= CardLimit \/ owed >= HalfRange

\* A reservation leaves RESERVED once: CONFIRMED and RELEASED are final, though
\* the statements that write them have no guard.
ReservationIsFinal ==
    [][\A o \in OrderIds : reservations[o].status \in {"CONFIRMED", "RELEASED"} =>
            reservations'[o] = reservations[o]]_vars

\* The relay or a consumer gave up an event of the order.
Abandoned(o) == \E e \in deadLetter \cup skipped : e.order = o

\* Every accepted order is eventually confirmed or canceled, unless one of its
\* own events is lost.
OrdersSettle ==
    \A o \in OrderIds :
        orders[o].status = "PENDING"
            ~> orders[o].status \in {"CONFIRMED", "CANCELED"} \/ Abandoned(o)

\* No unit stays RESERVED for ever: each reservation is eventually confirmed or
\* given back, unless an event of its order is lost.
ReservationsSettle ==
    \A o \in OrderIds :
        reservations[o].status = "RESERVED"
            ~> reservations[o].status \in {"CONFIRMED", "RELEASED"} \/ Abandoned(o)

---------------------------------------------------------------------------
\* What inventory-service has done about order o.
GoodsOf(o) ==
    IF HasReservation(o) THEN reservations[o].status
    ELSE IF AlreadyProcessed(o, {"inventory.insufficient-stock"}) THEN "REFUSED"
    ELSE "none"

\* What the customer, the warehouse and the bank see of the saga.
Outcome == INSTANCE SagaOutcome WITH
    status <- [o \in OrderIds |-> orders[o].status],
    goods  <- [o \in OrderIds |-> GoodsOf(o)],
    money  <- [o \in OrderIds |-> payments[o].status]

\* The saga implements SagaOutcome: each service takes each step of an order once
\* and only after the steps of the others it depends on, though none of them can
\* look at another's tables.
ImplementsOutcome == Outcome!OutcomeSpec
===========================================================================

--------------------------- MODULE SagaInvariant ---------------------------
(***************************************************************************)
(* Why the saga is safe: the inductive invariant behind the properties of  *)
(* Saga.tla.  Each event still tells the truth about the row it announced, *)
(* however late it is read, because the rows move in one direction only.   *)
(***************************************************************************)
EXTENDS Saga

\* Only a request that was answered has an order, so an order is created once.
CreatedByRequest ==
    \A r \in OrderIds : Exists(r) => requests[r].stage \in {"202", "500"}

\* orders-service announces what its table holds.
OrderEventsAreTrue ==
    \A e \in ordersOutbox :
        /\ e.topic = "orders.created" =>
             /\ Exists(e.order)
             /\ e.product = orders[e.order].product
             /\ e.quantity = orders[e.order].quantity
             /\ e.paymentType = orders[e.order].paymentType
        /\ e.topic = "orders.confirmed" => orders[e.order].status = "CONFIRMED"

\* inventory-service announces what its table holds, and a release what the
\* payment was denied for.
InventoryEventsAreTrue ==
    \A e \in inventoryOutbox :
        /\ e.topic = "inventory.reserved" =>
             /\ HasReservation(e.order)
             /\ e.paymentType = orders[e.order].paymentType
             /\ e.amount = Wrap(prices[orders[e.order].product]
                                  * orders[e.order].quantity)
        /\ e.topic = "inventory.insufficient-stock" => ~HasReservation(e.order)
        /\ e.topic = "inventory.released" =>
             /\ reservations[e.order].status = "RELEASED"
             /\ payments[e.order].status = "DENIED"
             /\ payments[e.order].reason = e.reason

\* payments-service announces what its table holds.
PaymentEventsAreTrue ==
    \A e \in paymentsOutbox :
        /\ e.topic = "payments.authorized" => payments[e.order].status = "AUTHORIZED"
        /\ e.topic = "payments.denied" =>
             /\ payments[e.order].status = "DENIED"
             /\ payments[e.order].reason = e.reason

\* A reservation comes from an order, at a known price, and was announced.
ReservationsComeFromOrders ==
    \A o \in OrderIds : HasReservation(o) =>
        /\ Exists(o)
        /\ reservations[o].product = orders[o].product
        /\ reservations[o].quantity = orders[o].quantity
        /\ orders[o].product \in Products
        /\ prices[orders[o].product] # Absent
        /\ AlreadyProcessed(o, {"inventory.reserved"})

\* A payment comes from a reservation and is for what was ordered.
PaymentsComeFromReservations ==
    \A o \in OrderIds : ExistsByOrderID(o) =>
        /\ HasReservation(o)
        /\ payments[o].paymentType = orders[o].paymentType
        /\ payments[o].amount = Wrap(prices[orders[o].product] * orders[o].quantity)

\* How the final states of the three services depend on one another.
FinalStatesAgree ==
    \A o \in OrderIds :
        /\ orders[o].status = "CONFIRMED" => payments[o].status = "AUTHORIZED"
        /\ reservations[o].status = "CONFIRMED" => orders[o].status = "CONFIRMED"
        /\ reservations[o].status = "RELEASED" => payments[o].status = "DENIED"

\* Every message was announced, every event is true, every row has its cause.
Provenance ==
    /\ published \subseteq Outboxes
    /\ CreatedByRequest
    /\ OrderEventsAreTrue
    /\ InventoryEventsAreTrue
    /\ PaymentEventsAreTrue
    /\ ReservationsComeFromOrders
    /\ PaymentsComeFromReservations
    /\ FinalStatesAgree
    /\ CanceledIsCompensated
===========================================================================

----------------------------- MODULE Inventory -----------------------------
(***************************************************************************)
(* inventory-service: the product and stock endpoints and the services     *)
(* behind the Kafka listeners for orders.created, payments.denied and      *)
(* orders.confirmed.  Each of those services is @Transactional and locks   *)
(* the stock row it changes (SELECT ... FOR UPDATE), so it is one step     *)
(* here.  An exception, a violated CHECK included, rolls the transaction   *)
(* back: that outcome is the action not being taken.                       *)
(***************************************************************************)
EXTENDS SagaEvents, FiniteSets

CONSTANTS
    Prices,       \* the prices administrators enter, valid or not
    StockLevels,  \* the stock quantities administrators enter, valid or not
    HalfRange     \* a Kotlin Int is in -HalfRange .. HalfRange - 1; 2^31 in the code

\* What a Kotlin Int holds, and so what a request can say.
KotlinInts == -HalfRange .. HalfRange - 1

ASSUME InventoryInputs ==
    /\ HalfRange \in Nat \ {0}
    /\ Prices \subseteq KotlinInts
    /\ StockLevels \subseteq KotlinInts

VARIABLES
    prices,           \* the products table: the price of each product
    stock,            \* the stocks table: quantity_available of each product
    reservations,     \* the stock_reservations table, by order
    inventoryOutbox,  \* the events of the outbox table, never deleted
    supplied          \* history: units administrators put in, net, per product

inventoryVars == <<prices, stock, reservations, inventoryOutbox, supplied>>

\* A row that does not exist: the CHECKs keep prices and stocks above it.
Absent == -1

ReservationStatuses == {"none", "RESERVED", "CONFIRMED", "RELEASED"}

ReservationRows == [status: ReservationStatuses, product: Products \cup {None},
                    quantity: Int]

NoReservation == [status |-> "none", product |-> None, quantity |-> 0]

InventoryEvents ==
    [topic: {"inventory.reserved"}, order: OrderIds, amount: Int,
     paymentType: PaymentTypes]
        \cup [topic: {"inventory.insufficient-stock"}, order: OrderIds,
              reason: StockFailures]
        \cup [topic: {"inventory.released"}, order: OrderIds, reason: Denials]

InventoryTypeOK ==
    /\ prices \in [Products -> Nat \cup {Absent}]
    /\ stock \in [Products -> Nat \cup {Absent}]
    /\ reservations \in [OrderIds -> ReservationRows]
    /\ inventoryOutbox \subseteq InventoryEvents
    /\ supplied \in [Products -> Int]

InventoryInit ==
    /\ prices = [p \in Products |-> Absent]
    /\ stock = [p \in Products |-> Absent]
    /\ reservations = [o \in OrderIds |-> NoReservation]
    /\ inventoryOutbox = {}
    /\ supplied = [p \in Products |-> 0]

\* What is left of an integer in a Kotlin Int: its low-order bits.
Wrap(n) == ((n + HalfRange) % (2 * HalfRange)) - HalfRange

\* existsByAggregateIdAndAggregateType: an outbox event of these topics.
AlreadyProcessed(o, topics) ==
    \E e \in inventoryOutbox : e.order = o /\ e.topic \in topics

HasReservation(o) == reservations[o].status # "none"

---------------------------------------------------------------------------
(* The web side: administrators.                                           *)

\* CreateProduct without CHECK (price >= 0).
CreateProduct_NoCheck(p, price) ==
    /\ prices[p] = Absent
    /\ prices' = [prices EXCEPT ![p] = price]
    /\ UNCHANGED <<stock, reservations, inventoryOutbox, supplied>>

\* CHECK (price >= 0) refuses the others.
CreateProduct(p, price) ==
    /\ prices[p] = Absent
    /\ price >= 0
    /\ prices' = [prices EXCEPT ![p] = price]
    /\ UNCHANGED <<stock, reservations, inventoryOutbox, supplied>>

\* The product must exist and have no stock row yet (UNIQUE product_id).
CreateStock(p, quantity) ==
    /\ prices[p] # Absent
    /\ stock[p] = Absent
    /\ quantity >= 0
    /\ stock' = [stock EXCEPT ![p] = quantity]
    /\ supplied' = [supplied EXCEPT ![p] = quantity]
    /\ UNCHANGED <<prices, reservations, inventoryOutbox>>

\* PATCH overwrites the quantity with an absolute one, whatever is reserved.
UpdateStockQuantity(p, quantity) ==
    /\ stock[p] # Absent
    /\ quantity >= 0
    /\ stock' = [stock EXCEPT ![p] = quantity]
    /\ supplied' = [supplied EXCEPT ![p] = @ + quantity - stock[p]]
    /\ UNCHANGED <<prices, reservations, inventoryOutbox>>

---------------------------------------------------------------------------
(* The services behind the listeners.                                      *)

\* saveFailureEvent: the refusal is an event and nothing else.
Refuse(o, reason) ==
    /\ inventoryOutbox' = inventoryOutbox \cup {InsufficientStock(o, reason)}
    /\ UNCHANGED <<prices, stock, reservations, supplied>>

\* The amount without the quantity.
Amount_UnitPrice(p, quantity) == Wrap(prices[p])

\* What the customer will be charged, in an Int.
Amount(p, quantity) == Wrap(prices[p] * quantity)

\* The reservation proper: stock, reservation and event in one transaction.
Reserve(o, p, quantity, paymentType) ==
    /\ stock' = [stock EXCEPT ![p] = @ - quantity]
    /\ reservations' = [reservations EXCEPT ![o] =
                          [status |-> "RESERVED", product |-> p,
                           quantity |-> quantity]]
    /\ inventoryOutbox' = inventoryOutbox
                            \cup {InventoryReserved(o, Amount(p, quantity), paymentType)}
    /\ UNCHANGED <<prices, supplied>>

\* The three refusals and the reservation, in the order of the early returns.
\* CHECK (quantity > 0) on the reservation refuses what is not a quantity.
AnswerOrder(o, p, quantity, paymentType) ==
    \/ prices[p] = Absent /\ Refuse(o, "PRODUCT_NOT_FOUND")
    \/ prices[p] # Absent /\ stock[p] = Absent /\ Refuse(o, "STOCK_NOT_FOUND")
    \/ /\ prices[p] # Absent /\ stock[p] # Absent
       /\ stock[p] < quantity
       /\ Refuse(o, "INSUFFICIENT_STOCK")
    \/ /\ prices[p] # Absent /\ stock[p] # Absent
       /\ stock[p] >= quantity
       /\ quantity > 0
       /\ Reserve(o, p, quantity, paymentType)

\* ReserveStock whose idempotency check forgets the failure events.
ReserveStock_ForgetsFailures(o, p, quantity, paymentType) ==
    IF AlreadyProcessed(o, {"inventory.reserved"})
    THEN UNCHANGED inventoryVars
    ELSE AnswerOrder(o, p, quantity, paymentType)

\* ReserveStock without the idempotency check.
ReserveStock_NoCheck(o, p, quantity, paymentType) ==
    AnswerOrder(o, p, quantity, paymentType)

ReserveStock(o, p, quantity, paymentType) ==
    IF AlreadyProcessed(o, {"inventory.reserved", "inventory.insufficient-stock"})
    THEN UNCHANGED inventoryVars
    ELSE AnswerOrder(o, p, quantity, paymentType)

\* Gives the units back whatever the status of the reservation.  A sum that
\* overflows is negative, and CHECK (quantity_available >= 0) aborts.
RestoreStock(o) ==
    LET r == reservations[o]
        restored == Wrap(stock[r.product] + r.quantity)
    IN  /\ restored >= 0
        /\ stock' = [stock EXCEPT ![r.product] = restored]
        /\ reservations' = [reservations EXCEPT ![o].status = "RELEASED"]
        /\ UNCHANGED <<prices, supplied>>

\* ReleaseStock without the idempotency check.
ReleaseStock_NoCheck(o, reason) ==
    IF ~HasReservation(o)
    THEN UNCHANGED inventoryVars
    ELSE /\ RestoreStock(o)
         /\ inventoryOutbox' = inventoryOutbox \cup {InventoryReleased(o, reason)}

\* ReleaseStock that forgets the released event.
ReleaseStock_NoEvent(o, reason) ==
    IF reservations[o].status \in {"none", "RELEASED"}
    THEN UNCHANGED inventoryVars
    ELSE RestoreStock(o) /\ UNCHANGED inventoryOutbox

\* The code also returns when the stock row is missing; none is ever deleted.
ReleaseStock(o, reason) ==
    IF AlreadyProcessed(o, {"inventory.released"}) \/ ~HasReservation(o)
    THEN UNCHANGED inventoryVars
    ELSE /\ RestoreStock(o)
         /\ inventoryOutbox' = inventoryOutbox \cup {InventoryReleased(o, reason)}

\* No check of the status here either.
ConfirmReservation(o) ==
    /\ reservations' = IF HasReservation(o)
                       THEN [reservations EXCEPT ![o].status = "CONFIRMED"]
                       ELSE reservations
    /\ UNCHANGED <<prices, stock, inventoryOutbox, supplied>>

---------------------------------------------------------------------------
WebNext ==
    \/ \E p \in Products, price \in Prices : CreateProduct(p, price)
    \/ \E p \in Products, quantity \in StockLevels :
          CreateStock(p, quantity) \/ UpdateStockQuantity(p, quantity)

\* The service alone, in an environment that may send any message about any
\* order, in any order and any number of times.
InventoryNext ==
    \/ WebNext
    \/ \E o \in OrderIds, p \in Products, q \in Quantities, t \in PaymentTypes :
          ReserveStock(o, p, q, t)
    \/ \E o \in OrderIds, reason \in Denials : ReleaseStock(o, reason)
    \/ \E o \in OrderIds : ConfirmReservation(o)

InventorySpec == InventoryInit /\ [][InventoryNext]_inventoryVars

---------------------------------------------------------------------------
\* The units of p in the reservations of a set of orders, each told from the others
\* by its order and a number.
UnitsOf(os, p) ==
    UNION {{o} \X (1 .. reservations[o].quantity) :
              o \in {x \in os : HasReservation(x) /\ reservations[x].product = p}}

\* No message order or repetition makes ReserveStock and ReleaseStock create or
\* lose units: what administrators put in is in stock, or reserved by an order
\* whose release was not announced.
UnitsAreAccountedFor ==
    \A p \in Products : stock[p] # Absent =>
        stock[p] + Cardinality(UnitsOf({o \in OrderIds :
                       ~AlreadyProcessed(o, {"inventory.released"})}, p))
            = supplied[p]

EventsAbout(o, topics) == {e \in inventoryOutbox : e.order = o /\ e.topic \in topics}

\* However often and whenever an orders.created or a payments.denied comes, the
\* order gets one answer: reserved, with a reservation, or refused, without one;
\* and its release is announced at most once, and only after a reservation.
OneAnswerPerOrder ==
    \A o \in OrderIds :
        /\ Cardinality(EventsAbout(o, {"inventory.reserved",
                                       "inventory.insufficient-stock"})) <= 1
        /\ HasReservation(o) <=> AlreadyProcessed(o, {"inventory.reserved"})
        /\ Cardinality(EventsAbout(o, {"inventory.released"}))
              <= Cardinality(EventsAbout(o, {"inventory.reserved"}))
=============================================================================

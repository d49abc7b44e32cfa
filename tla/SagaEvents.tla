---------------------------- MODULE SagaEvents ----------------------------
(***************************************************************************)
(* The vocabulary the three services share: the events they exchange over  *)
(* Kafka, one constructor per topic, and the inputs of the system.         *)
(*                                                                         *)
(* An event is a record with its topic, the order it is about, and those   *)
(* fields of its JSON payload that a consumer reads.  Timestamps, payment  *)
(* and user ids and the traceparent header are carried by the code and     *)
(* read by nobody's logic; they are left out.                              *)
(***************************************************************************)
EXTENDS Integers

CONSTANTS
    OrderIds,    \* uuid.New() of orders-service: one fresh id per HTTP request
    Keys,        \* Idempotency-Key header values
    Products,    \* product ids
    Quantities,  \* the quantities clients ask for, valid or not
    None         \* the value of a column that holds nothing

ASSUME SagaInputs ==
    /\ Quantities \subseteq Int
    /\ None \notin Keys \cup Products

PaymentTypes == {"PIX", "CREDIT_CARD", "BOLETO"}

StockFailures == {"PRODUCT_NOT_FOUND", "STOCK_NOT_FOUND", "INSUFFICIENT_STOCK"}
Denials       == {"BOLETO_NOT_ACCEPTED", "AMOUNT_EXCEEDED"}
NoReason      == ""
Reasons       == StockFailures \cup Denials \cup {NoReason}

---------------------------------------------------------------------------
(* One constructor per topic.                                              *)

OrderCreated(o, product, quantity, paymentType) ==
    [topic |-> "orders.created", order |-> o, product |-> product,
     quantity |-> quantity, paymentType |-> paymentType]

OrderConfirmed(o) == [topic |-> "orders.confirmed", order |-> o]

InventoryReserved(o, amount, paymentType) ==
    [topic |-> "inventory.reserved", order |-> o, amount |-> amount,
     paymentType |-> paymentType]

InsufficientStock(o, reason) ==
    [topic |-> "inventory.insufficient-stock", order |-> o, reason |-> reason]

InventoryReleased(o, reason) ==
    [topic |-> "inventory.released", order |-> o, reason |-> reason]

PaymentAuthorized(o) == [topic |-> "payments.authorized", order |-> o]

PaymentDenied(o, reason) ==
    [topic |-> "payments.denied", order |-> o, reason |-> reason]
===========================================================================

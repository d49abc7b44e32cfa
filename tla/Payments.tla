----------------------------- MODULE Payments -----------------------------
(***************************************************************************)
(* payments-service: one service method, called for each                   *)
(* inventory.reserved message.  It decides once per order; the payment and *)
(* the event that announces it are inserted in one transaction.  A         *)
(* duplicate that passes the check while another is being processed fails  *)
(* on UNIQUE (order_id) and is rolled back: the check and the insert are   *)
(* one step here, which PaymentTransactions justifies.                     *)
(***************************************************************************)
EXTENDS SagaEvents

VARIABLES
    payments,        \* the payments table, by order
    paymentsOutbox   \* the events of the outbox table, never deleted

paymentsVars == <<payments, paymentsOutbox>>

PaymentRows == [status: {"none", "AUTHORIZED", "DENIED"}, amount: Int,
                paymentType: PaymentTypes \cup {None},
                reason: Denials \cup {NoReason}]

NoPayment == [status |-> "none", amount |-> 0, paymentType |-> None,
              reason |-> NoReason]

PaymentEvents ==
    [topic: {"payments.authorized"}, order: OrderIds]
        \cup [topic: {"payments.denied"}, order: OrderIds, reason: Denials]

PaymentsTypeOK ==
    /\ payments \in [OrderIds -> PaymentRows]
    /\ paymentsOutbox \subseteq PaymentEvents

PaymentsInit ==
    /\ payments = [o \in OrderIds |-> NoPayment]
    /\ paymentsOutbox = {}

\* Authorizations above this many cents are denied to credit cards.
CardLimit == 10000

\* The rules with NULL for no reason, which is not the reason "none given".
evaluate_Null(amount, paymentType) ==
    IF paymentType = "BOLETO" THEN "BOLETO_NOT_ACCEPTED" ELSE None

\* The rules, in their order: the reason of a denial, or NoReason.
evaluate(amount, paymentType) ==
    IF paymentType = "BOLETO" THEN "BOLETO_NOT_ACCEPTED"
    ELSE IF paymentType = "CREDIT_CARD" /\ amount > CardLimit THEN "AMOUNT_EXCEEDED"
    ELSE NoReason

ExistsByOrderID(o) == payments[o].status # "none"

\* The decision and the event that announces it.
Decide(o, amount, paymentType) ==
    LET reason == evaluate(amount, paymentType)
        denied == reason # NoReason
    IN  /\ payments' = [payments EXCEPT ![o] =
                          [status |-> IF denied THEN "DENIED" ELSE "AUTHORIZED",
                           amount |-> amount, paymentType |-> paymentType,
                           reason |-> reason]]
        /\ paymentsOutbox' = paymentsOutbox \cup
              {IF denied THEN PaymentDenied(o, reason) ELSE PaymentAuthorized(o)}

ProcessPayment(o, amount, paymentType) ==
    IF ExistsByOrderID(o) THEN UNCHANGED paymentsVars
    ELSE Decide(o, amount, paymentType)
===========================================================================

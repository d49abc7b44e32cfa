------------------------ MODULE PaymentTransactions ------------------------
(***************************************************************************)
(* ProcessPayment statement by statement, as the consumers of several      *)
(* instances of payments-service run it side by side on MySQL.  The        *)
(* idempotency check is a statement of its own, outside the transaction;   *)
(* the INSERT of the payment takes UNIQUE (order_id) until COMMIT.  Any    *)
(* number of threads may work on the same message, or on another message   *)
(* about the same order.                                                   *)
(***************************************************************************)
EXTENDS Payments, FiniteSets

CONSTANTS
    Threads,  \* the consumers of the instances
    Amounts   \* the amounts of the messages

ASSUME PaymentTransactionsInputs == Amounts \subseteq Int

VARIABLE call   \* per thread: where ProcessPayment is, and its message

paymentTxVars == <<paymentsVars, call>>

Idle == [at |-> "idle", order |-> None, amount |-> 0, paymentType |-> None]

PaymentTransactionsTypeOK ==
    /\ PaymentsTypeOK
    /\ call \in [Threads -> [at: {"idle", "checked", "inserted"},
                             order: OrderIds \cup {None}, amount: Amounts \cup {0},
                             paymentType: PaymentTypes \cup {None}]]

PaymentTransactionsInit ==
    /\ PaymentsInit
    /\ call = [t \in Threads |-> Idle]

\* ExistsByOrderID finds no committed payment; the rules are evaluated.  When it
\* finds one, ProcessPayment returns nil: no step.
CheckIdempotency(t, o, amount, paymentType) ==
    /\ call[t] = Idle
    /\ ~ExistsByOrderID(o)
    /\ call' = [call EXCEPT ![t] = [at |-> "checked", order |-> o, amount |-> amount,
                                    paymentType |-> paymentType]]
    /\ UNCHANGED paymentsVars

\* An INSERT that trusts the check.
InsertPayment_NoUnique(t) ==
    /\ call[t].at = "checked"
    /\ call' = [call EXCEPT ![t].at = "inserted"]
    /\ UNCHANGED paymentsVars

\* The INSERT waits while another transaction has inserted the same order_id.
InsertPayment(t) ==
    LET o == call[t].order IN
    /\ call[t].at = "checked"
    /\ \A u \in Threads : call[u].order = o => call[u].at # "inserted"
    /\ ~ExistsByOrderID(o)
    /\ call' = [call EXCEPT ![t].at = "inserted"]
    /\ UNCHANGED paymentsVars

\* ProcessPayment returns an error: 1062 in the INSERT, or any other failure,
\* the crash of the service included.
ProcessPaymentFails(t) ==
    /\ call[t] # Idle
    /\ call' = [call EXCEPT ![t] = Idle]
    /\ UNCHANGED paymentsVars

\* The outbox INSERT and COMMIT, whether its answer arrives or not.
CommitPayment(t) ==
    /\ call[t].at = "inserted"
    /\ Decide(call[t].order, call[t].amount, call[t].paymentType)
    /\ call' = [call EXCEPT ![t] = Idle]

PaymentTransactionsNext ==
    \E t \in Threads :
        \/ \E o \in OrderIds, a \in Amounts, y \in PaymentTypes : CheckIdempotency(t, o, a, y)
        \/ InsertPayment(t)
        \/ CommitPayment(t)
        \/ ProcessPaymentFails(t)

PaymentTransactionsSpec ==
    PaymentTransactionsInit /\ [][PaymentTransactionsNext]_paymentTxVars

---------------------------------------------------------------------------
\* Side by side the calls do what ProcessPayment of Payments does in one step:
\* no decision is taken twice, changed or overwritten.
DecisionsAreAtomic ==
    [][\E o \in OrderIds, a \in Amounts, y \in PaymentTypes :
          ProcessPayment(o, a, y)]_paymentsVars
===========================================================================

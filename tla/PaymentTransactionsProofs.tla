--------------------- MODULE PaymentTransactionsProofs ---------------------
(***************************************************************************)
(* ProcessPayment for any number of consumers, messages and orders: what   *)
(* the consumers do side by side is what Payments does in one step.  The   *)
(* idempotency check contributes nothing to it, as it may be out of date   *)
(* when the payment is inserted; UNIQUE (order_id) does it all.            *)
(***************************************************************************)
EXTENDS PaymentTransactions, TLAPS

\* A call under way is about a message.
CallsAreTyped ==
    \A t \in Threads : call[t].at # "idle" =>
        /\ call[t].order \in OrderIds
        /\ call[t].amount \in Amounts
        /\ call[t].paymentType \in PaymentTypes

\* What UNIQUE (order_id) gives the transaction that has inserted: no payment of
\* the order is committed, and none is about to be but its own.
InsertedIsAlone ==
    \A t \in Threads : call[t].at = "inserted" =>
        /\ ~ExistsByOrderID(call[t].order)
        /\ \A u \in Threads \ {t} :
              call[u].at = "inserted" => call[u].order # call[t].order

PaymentTransactionsInv ==
    PaymentTransactionsTypeOK /\ CallsAreTyped /\ InsertedIsAlone

---------------------------------------------------------------------------
\* The start: no payments, no calls.
LEMMA PaymentTransactionsInit_Inv ==
    PaymentTransactionsInit => PaymentTransactionsInv
  BY DEF PaymentTransactionsInit, PaymentsInit, NoPayment, Idle,
         PaymentTransactionsInv, PaymentTransactionsTypeOK, PaymentsTypeOK, PaymentRows,
         CallsAreTyped, InsertedIsAlone

\* A decision is a row and an event of their types.
LEMMA DecideType ==
    ASSUME PaymentsTypeOK, NEW o \in OrderIds, NEW amount \in Int,
           NEW paymentType \in PaymentTypes, Decide(o, amount, paymentType)
    PROVE  PaymentsTypeOK'
<1> DEFINE reason == evaluate(amount, paymentType)
<1>1. reason \in Denials \cup {NoReason}
  BY DEF evaluate, Denials
<1>2. [status |-> IF reason # NoReason THEN "DENIED" ELSE "AUTHORIZED",
       amount |-> amount, paymentType |-> paymentType, reason |-> reason] \in PaymentRows
  BY <1>1 DEF PaymentRows
<1>3. IF reason # NoReason THEN PaymentDenied(o, reason) \in PaymentEvents
                           ELSE PaymentAuthorized(o) \in PaymentEvents
  BY <1>1 DEF PaymentEvents, PaymentDenied, PaymentAuthorized
<1> QED
  BY <1>2, <1>3 DEF Decide, PaymentsTypeOK

\* A decision leaves the payments of other orders alone.
LEMMA DecideFrame ==
    ASSUME PaymentsTypeOK, NEW o \in OrderIds, NEW p \in OrderIds, p # o,
           NEW amount, NEW paymentType, Decide(o, amount, paymentType)
    PROVE  payments'[p] = payments[p]
  BY DEF Decide, PaymentsTypeOK

---------------------------------------------------------------------------
\* Every statement keeps the invariant.
LEMMA PaymentTransactionsNext_Inv ==
    PaymentTransactionsInv /\ [PaymentTransactionsNext]_paymentTxVars
        => PaymentTransactionsInv'
<1> SUFFICES ASSUME PaymentTransactionsInv, [PaymentTransactionsNext]_paymentTxVars
             PROVE  PaymentTransactionsInv'
  OBVIOUS
<1> USE DEF PaymentTransactionsInv, PaymentTransactionsTypeOK, CallsAreTyped,
            InsertedIsAlone, ExistsByOrderID
<1>1. ASSUME NEW t \in Threads, NEW o \in OrderIds, NEW a \in Amounts,
             NEW y \in PaymentTypes, CheckIdempotency(t, o, a, y)
      PROVE  PaymentTransactionsInv'
  BY <1>1 DEF CheckIdempotency, paymentsVars, PaymentsTypeOK
<1>2. ASSUME NEW t \in Threads, InsertPayment(t) PROVE PaymentTransactionsInv'
  BY <1>2 DEF InsertPayment, paymentsVars, PaymentsTypeOK
<1>3. ASSUME NEW t \in Threads, CommitPayment(t) PROVE PaymentTransactionsInv'
  <2> DEFINE o == call[t].order
  <2>1. o \in OrderIds /\ call[t].amount \in Int /\ call[t].paymentType \in PaymentTypes
    BY <1>3, PaymentTransactionsInputs DEF CommitPayment
  <2>2. PaymentsTypeOK'
    BY <1>3, <2>1, DecideType DEF CommitPayment
  <2>3. \A p \in OrderIds : p # o => payments'[p] = payments[p]
    BY <1>3, <2>1, DecideFrame DEF CommitPayment
  <2>4. call' = [call EXCEPT ![t] = Idle]
    BY <1>3 DEF CommitPayment
  <2>5. \A u \in Threads : call'[u].at = "inserted" => u # t /\ call'[u] = call[u]
    BY <2>4 DEF Idle
  <2>6. InsertedIsAlone'
    BY <1>3, <2>3, <2>5 DEF CommitPayment
  <2> QED
    BY <2>2, <2>4, <2>6 DEF Idle
<1>4. ASSUME NEW t \in Threads, ProcessPaymentFails(t) PROVE PaymentTransactionsInv'
  BY <1>4 DEF ProcessPaymentFails, paymentsVars, PaymentsTypeOK, Idle
<1>5. CASE UNCHANGED paymentTxVars
  BY <1>5 DEF paymentTxVars, paymentsVars, PaymentsTypeOK
<1> QED
  BY <1>1, <1>2, <1>3, <1>4, <1>5 DEF PaymentTransactionsNext

\* The invariant of the concurrent calls, from which the theorems follow.
LEMMA PaymentTransactionsInvHolds ==
    PaymentTransactionsSpec => []PaymentTransactionsInv
  BY PaymentTransactionsInit_Inv, PaymentTransactionsNext_Inv, PTL
  DEF PaymentTransactionsSpec

---------------------------------------------------------------------------
\* Payments, events and calls keep their types, however calls interleave.
THEOREM PaymentTransactionsTypeCorrect ==
    PaymentTransactionsSpec => []PaymentTransactionsTypeOK
<1>1. PaymentTransactionsInv => PaymentTransactionsTypeOK
  BY DEF PaymentTransactionsInv
<1> QED
  BY <1>1, PaymentTransactionsInvHolds, PTL

\* The check of ProcessPayment outside its transaction does no harm: a statement
\* that changes the tables does what ProcessPayment does in one step.
THEOREM PaymentsAreAtomic == PaymentTransactionsSpec => DecisionsAreAtomic
<1> DEFINE Step == \E o \in OrderIds, a \in Amounts, y \in PaymentTypes :
                      ProcessPayment(o, a, y)
<1>1. PaymentTransactionsInv /\ [PaymentTransactionsNext]_paymentTxVars
        => [Step]_paymentsVars
  <2> SUFFICES ASSUME PaymentTransactionsInv, [PaymentTransactionsNext]_paymentTxVars
               PROVE  [Step]_paymentsVars
    OBVIOUS
  <2>1. ASSUME NEW t \in Threads, CommitPayment(t) PROVE Step
    BY <2>1 DEF PaymentTransactionsInv, CallsAreTyped, InsertedIsAlone, CommitPayment,
                ProcessPayment
  <2>2. ASSUME NEW t \in Threads, NEW o \in OrderIds, NEW a \in Amounts,
               NEW y \in PaymentTypes, CheckIdempotency(t, o, a, y)
        PROVE  UNCHANGED paymentsVars
    BY <2>2 DEF CheckIdempotency
  <2>3. ASSUME NEW t \in Threads, InsertPayment(t) \/ ProcessPaymentFails(t)
        PROVE  UNCHANGED paymentsVars
    BY <2>3 DEF InsertPayment, ProcessPaymentFails
  <2>4. CASE UNCHANGED paymentTxVars
    BY <2>4 DEF paymentTxVars
  <2> QED
    BY <2>1, <2>2, <2>3, <2>4 DEF PaymentTransactionsNext
<1> QED
  BY <1>1, PaymentTransactionsInvHolds, PTL DEF PaymentTransactionsSpec, DecisionsAreAtomic
===========================================================================

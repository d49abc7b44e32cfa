---------------------- MODULE StockTransactionsProofs ----------------------
(***************************************************************************)
(* The transactions of inventory-service for any number of threads, orders *)
(* and products.  What a transaction has read is still good at COMMIT: the *)
(* row lock keeps the stock as it was seen, and the answer to the          *)
(* idempotency check stays true as long as no other thread works on the    *)
(* same message.                                                           *)
(***************************************************************************)
EXTENDS StockTransactions, FiniteSetTheorems, SequenceTheorems, TLAPS

RowStatuses == {"RESERVED", "CONFIRMED", "RELEASED"}

\* A transaction is about an order, and locks that order's stock row or none.
TransactionsAreTyped ==
    \A t \in Threads :
        /\ tx[t].job = "none" => tx[t] = NoTx
        /\ tx[t].job # "none" => tx[t].order \in OrderIds
        /\ tx[t].locked # None => /\ tx[t].job \in {"reserve", "release"}
                                  /\ tx[t].locked = Request[tx[t].order].product

\* A row is locked by one transaction, and is as that transaction saw it.
LocksHold ==
    \A t \in Threads : tx[t].locked # None =>
        /\ tx[t].seen = stock[tx[t].locked]
        /\ \A u \in Threads : tx[u].locked = tx[t].locked => u = t

\* The reservation a transaction found is still there.
ReservationsStay ==
    \A t \in Threads : tx[t].job \in {"release", "confirm"} => rows[tx[t].order] # <<>>

\* The topics that answer a job's idempotency check.
AnswersTo(job) == CASE job = "reserve" -> {"inventory.reserved", "inventory.insufficient-stock"}
                    [] job = "release" -> {"inventory.released"}
                    [] job = "confirm" -> {}

NotAnswered(job, o) ==
    \A e \in inventoryOutbox : ~(e.order = o /\ e.topic \in AnswersTo(job))

\* While no message was in the hands of two threads, no other thread does what a
\* transaction does, and no order is answered behind its back.
ChecksStayTrue ==
    overlaps = 0 =>
        /\ \A t, u \in Threads :
              tx[t].job # "none" /\ tx[u].job = tx[t].job /\ tx[u].order = tx[t].order => u = t
        /\ \A t \in Threads : tx[t].job # "none" => NotAnswered(tx[t].job, tx[t].order)
        /\ \A o \in OrderIds :
              rows[o] # <<>> => Atomic!AlreadyProcessed(o, {"inventory.reserved"})

TransactionsInv ==
    /\ TransactionsTypeOK
    /\ TransactionsAreTyped
    /\ LocksHold
    /\ ReservationsStay
    /\ ChecksStayTrue

---------------------------------------------------------------------------
\* The start: no reservations, no transactions.
LEMMA TransactionsInit_Inv == TransactionsInit => TransactionsInv
<1> SUFFICES ASSUME TransactionsInit PROVE TransactionsInv
  OBVIOUS
<1> USE StockTransactionsInputs DEF TransactionsInit
<1>1. TransactionsTypeOK
  <2>1. <<>> \in Seq(RowStatuses)
    OBVIOUS
  <2> QED
    BY <2>1 DEF TransactionsTypeOK, NoTx, RowStatuses
<1>2. \A t \in Threads : tx[t] = NoTx
  OBVIOUS
<1> QED
  BY <1>1, <1>2 DEF TransactionsInv, TransactionsAreTyped, LocksHold, ReservationsStay,
                    ChecksStayTrue, NoTx

---------------------------------------------------------------------------
\* What a transaction is about.
LEMMA TxFacts ==
    ASSUME TransactionsInv, NEW t \in Threads, tx[t].job # "none"
    PROVE  /\ tx[t].order \in OrderIds
           /\ Request[tx[t].order].product \in Products
           /\ Request[tx[t].order].quantity \in Int
           /\ Request[tx[t].order].paymentType \in PaymentTypes
           /\ tx[t].locked # None =>
                /\ tx[t].locked = Request[tx[t].order].product
                /\ tx[t].seen = stock[Request[tx[t].order].product]
                /\ tx[t].seen \in Nat
<1>1. tx[t].order \in OrderIds
  BY DEF TransactionsInv, TransactionsAreTyped
<1>2. Request[tx[t].order] \in [product: Products, quantity: Quantities,
                                paymentType: PaymentTypes]
  BY <1>1, StockTransactionsInputs
<1>3. tx[t].seen \in Nat
  BY DEF TransactionsInv, TransactionsTypeOK
<1> QED
  BY <1>1, <1>2, <1>3, SagaInputs DEF TransactionsInv, TransactionsAreTyped, LocksHold

\* A Kotlin Int is an integer, whatever overflowed.
LEMMA WrapType == ASSUME NEW n \in Int PROVE Atomic!Wrap(n) \in Int
  BY StockTransactionsInputs DEF Atomic!Wrap

\* How many threads are at a message.
LEMMA ThreadsAreCounted ==
    ASSUME NEW S \in SUBSET Threads
    PROVE  Cardinality(S) \in Nat /\ (Cardinality(S) = 0 => S = {})
<1>1. IsFiniteSet(S)
  BY StockTransactionsInputs, FS_Subset
<1> QED
  BY <1>1, FS_CardinalityType, FS_EmptySet

\* Writing the status of the reservation found changes nothing else.
LEMMA StatusWritten ==
    ASSUME NEW s \in Seq(RowStatuses), NEW status \in RowStatuses, s # <<>>
    PROVE  /\ [s EXCEPT ![1] = status] \in Seq(RowStatuses)
           /\ [s EXCEPT ![1] = status] # <<>>
           /\ [s EXCEPT ![1] = status][1] = status
           /\ s[1] \in RowStatuses
<1>1. Len(s) \in Nat \ {0} /\ 1 \in 1..Len(s)
  BY EmptySeq
<1>2. /\ [s EXCEPT ![1] = status] \in Seq(RowStatuses)
      /\ Len([s EXCEPT ![1] = status]) = Len(s)
      /\ [s EXCEPT ![1] = status][1] = status
  BY <1>1, ExceptSeq
<1> QED
  BY <1>1, <1>2, ElementOfSeq, EmptySeq
\* A reservation added is there.
LEMMA ReservationAdded ==
    ASSUME NEW s \in Seq(RowStatuses)
    PROVE  /\ Append(s, "RESERVED") # <<>>
           /\ s = <<>> => Append(s, "RESERVED")[1] = "RESERVED"
<1>1. "RESERVED" \in RowStatuses
  BY DEF RowStatuses
<1>2. Append(s, "RESERVED") # <<>>
  BY <1>1, AppendProperties, Zenon
<1>3. ASSUME s = <<>> PROVE Append(s, "RESERVED")[1] = "RESERVED"
  BY <1>3
<1> QED
  BY <1>2, <1>3

---------------------------------------------------------------------------
\* What the steps do to the transactions: a thread's own is begun, locks its row or
\* ends, and those of the others stay.
LEMMA TxSteps ==
    ASSUME TransactionsInv, NEW t \in Threads
    PROVE  /\ \A job \in Jobs, o \in OrderIds : Begin(t, job, o) =>
                /\ tx[t] = NoTx /\ tx'[t] = TxFor(job, o)
                /\ \A u \in Threads \ {t} : tx'[u] = tx[u]
           /\ LockStock(t) =>
                LET p == Request[tx[t].order].product
                IN  /\ p \in Products /\ ~Locked(p) /\ tx[t].job \in {"reserve", "release"}
                    /\ tx'[t] = [tx[t] EXCEPT !.locked = p, !.seen = stock[p]]
                    /\ \A u \in Threads \ {t} : tx'[u] = tx[u]
           /\ \A job \in Jobs : CommitTx(t, job) \/ Rollback(t) =>
                tx'[t] = NoTx /\ \A u \in Threads \ {t} : tx'[u] = tx[u]
<1>1. tx \in [Threads -> [job: Jobs \cup {"none"}, order: OrderIds \cup {None},
                         locked: Products \cup {None}, seen: Nat]]
  BY DEF TransactionsInv, TransactionsTypeOK
<1>2. ASSUME NEW job \in Jobs, NEW o \in OrderIds, Begin(t, job, o)
      PROVE  /\ tx[t] = NoTx /\ tx'[t] = TxFor(job, o)
             /\ \A u \in Threads \ {t} : tx'[u] = tx[u]
  BY <1>1, <1>2 DEF Begin
<1>3. ASSUME LockStock(t)
      PROVE  LET p == Request[tx[t].order].product
             IN  /\ p \in Products /\ ~Locked(p) /\ tx[t].job \in {"reserve", "release"}
                 /\ tx'[t] = [tx[t] EXCEPT !.locked = p, !.seen = stock[p]]
                 /\ \A u \in Threads \ {t} : tx'[u] = tx[u]
  <2>1. tx[t].job # "none" /\ tx[t].job \in {"reserve", "release"}
    BY <1>3 DEF LockStock
  <2> QED
    BY <1>1, <1>3, <2>1, TxFacts DEF LockStock
<1>4. ASSUME NEW job \in Jobs, CommitTx(t, job) \/ Rollback(t)
      PROVE  tx'[t] = NoTx /\ \A u \in Threads \ {t} : tx'[u] = tx[u]
  BY <1>1, <1>4 DEF CommitTx, Rollback
<1> QED
  BY <1>2, <1>3, <1>4

\* Every step keeps the types.
LEMMA TransactionsNext_Type ==
    TransactionsInv /\ [TransactionsNext]_stockVars => TransactionsTypeOK'
<1> SUFFICES ASSUME TransactionsInv, [TransactionsNext]_stockVars PROVE TransactionsTypeOK'
  OBVIOUS
<1>0. TransactionsTypeOK
  BY DEF TransactionsInv
<1> USE StockTransactionsInputs DEF TransactionsTypeOK
<1>1. ASSUME NEW t \in Threads, NEW job \in Jobs, NEW o \in OrderIds, Begin(t, job, o)
      PROVE  TransactionsTypeOK'
  <2> DEFINE others == {u \in Threads : tx[u].job = job /\ tx[u].order = o}
  <2>1. Cardinality(others) \in Nat
    BY ThreadsAreCounted
  <2>2. overlaps' = overlaps + Cardinality(others) /\ overlaps' <= MaxOverlaps
    BY <1>1 DEF Begin
  <2>3. overlaps' \in 0..MaxOverlaps
    BY <1>0, <2>1, <2>2
  <2>4. tx' = [tx EXCEPT ![t] = TxFor(job, o)] /\ UNCHANGED tables
    BY <1>1 DEF Begin
  <2> QED
    BY <1>0, <2>3, <2>4 DEF TxFor, tables
<1>2. ASSUME NEW t \in Threads, LockStock(t) PROVE TransactionsTypeOK'
  <2> DEFINE p == Request[tx[t].order].product
  <2>1. p \in Products
    BY <1>2, TxSteps
  <2>2. tx' = [tx EXCEPT ![t].locked = p, ![t].seen = stock[p]] /\ UNCHANGED <<tables, overlaps>>
    BY <1>2 DEF LockStock
  <2> HIDE DEF p
  <2>3. stock[p] \in Nat
    BY <1>0, <2>1
  <2>4. tx' \in [Threads -> [job: Jobs \cup {"none"}, order: OrderIds \cup {None},
                            locked: Products \cup {None}, seen: Nat]]
    BY <1>0, <2>1, <2>2, <2>3
  <2> QED
    BY <1>0, <2>2, <2>4 DEF tables
<1>3. ASSUME NEW t \in Threads, NEW job \in Jobs, CommitTx(t, job)
      PROVE  /\ tx' \in [Threads -> [job: Jobs \cup {"none"}, order: OrderIds \cup {None},
                                     locked: Products \cup {None}, seen: Nat]]
             /\ supplied' \in [Products -> Int] /\ overlaps' \in 0..MaxOverlaps
  BY <1>0, <1>3 DEF CommitTx, NoTx
<1>4. ASSUME NEW t \in Threads, CommitReserve(t) PROVE TransactionsTypeOK'
  <2> DEFINE o == tx[t].order
             r == Request[o]
  <2>1. CommitTx(t, "reserve") /\ "reserve" \in Jobs /\ tx[t].job # "none" /\ tx[t].locked # None
    BY <1>4 DEF CommitReserve, CommitTx, Jobs
  <2>2. o \in OrderIds /\ r.product \in Products /\ r.quantity \in Int /\ tx[t].seen \in Nat
    BY <2>1, TxFacts
  <2>3. CASE UNCHANGED <<stock, rows>>
    BY <1>0, <1>3, <2>1, <2>3
  <2>4. CASE /\ tx[t].seen >= r.quantity /\ r.quantity > 0
             /\ stock' = [stock EXCEPT ![r.product] = tx[t].seen - r.quantity]
             /\ rows' = [rows EXCEPT ![o] = Append(@, "RESERVED")]
    <3>1. tx[t].seen - r.quantity \in Nat
      BY <2>2, <2>4
    <3>2. Append(rows[o], "RESERVED") \in Seq({"RESERVED", "CONFIRMED", "RELEASED"})
      BY <1>0, <2>2, AppendProperties
    <3> QED
      BY <1>0, <1>3, <2>1, <2>2, <2>4, <3>1, <3>2
  <2> QED
    BY <1>4, <2>3, <2>4 DEF CommitReserve
<1>5. ASSUME NEW t \in Threads, NEW status \in RowStatuses, tx[t].job \in {"release", "confirm"},
             rows' = [rows EXCEPT ![tx[t].order][1] = status]
      PROVE  rows' \in [OrderIds -> Seq({"RESERVED", "CONFIRMED", "RELEASED"})]
  <2>1. tx[t].order \in OrderIds /\ rows[tx[t].order] # <<>>
    BY <1>5, TxFacts DEF TransactionsInv, ReservationsStay
  <2>2. [rows[tx[t].order] EXCEPT ![1] = status] \in Seq(RowStatuses)
    BY <1>0, <2>1, StatusWritten DEF RowStatuses
  <2> QED
    BY <1>0, <1>5, <2>1, <2>2 DEF RowStatuses
<1>6. ASSUME NEW t \in Threads, NEW reason \in Denials, CommitRelease(t, reason)
      PROVE  TransactionsTypeOK'
  <2> DEFINE r == Request[tx[t].order]
             restored == Atomic!Wrap(tx[t].seen + r.quantity)
  <2>1. CommitTx(t, "release") /\ "release" \in Jobs /\ tx[t].job = "release" /\ tx[t].locked # None
    BY <1>6 DEF CommitRelease, CommitTx, Jobs
  <2>2. r.product \in Products /\ tx[t].seen + r.quantity \in Int
    BY <2>1, TxFacts
  <2>3. restored \in Nat
    <3>1. restored >= 0
      BY <1>6 DEF CommitRelease
    <3> QED
      BY <2>2, <3>1, WrapType
  <2>4. /\ stock' = [stock EXCEPT ![r.product] = restored]
        /\ rows' = [rows EXCEPT ![tx[t].order][1] = "RELEASED"]
    BY <1>6 DEF CommitRelease
  <2> HIDE DEF restored
  <2>5. stock' \in [Products -> Nat]
    BY <1>0, <2>2, <2>3, <2>4
  <2>6. rows' \in [OrderIds -> Seq({"RESERVED", "CONFIRMED", "RELEASED"})]
    BY <1>5, <2>1, <2>4 DEF RowStatuses
  <2> QED
    BY <1>3, <2>1, <2>5, <2>6
<1>7. ASSUME NEW t \in Threads, CommitConfirm(t) PROVE TransactionsTypeOK'
  <2>1. CommitTx(t, "confirm") /\ "confirm" \in Jobs /\ tx[t].job = "confirm"
    BY <1>7 DEF CommitConfirm, CommitTx, Jobs
  <2>2. rows' = [rows EXCEPT ![tx[t].order][1] = "CONFIRMED"] /\ UNCHANGED stock
    BY <1>7 DEF CommitConfirm
  <2> QED
    BY <1>0, <1>3, <1>5, <2>1, <2>2 DEF RowStatuses
<1>8. ASSUME NEW t \in Threads, Rollback(t) PROVE TransactionsTypeOK'
  BY <1>0, <1>8 DEF Rollback, NoTx, tables
<1>9. ASSUME NEW p \in Products, NEW q \in StockLevels, UpdateStockQuantity(p, q)
      PROVE  TransactionsTypeOK'
  <2>1. q \in Nat /\ supplied[p] + q - stock[p] \in Int
    BY <1>0
  <2> QED
    BY <1>0, <1>9, <2>1 DEF UpdateStockQuantity
<1>10. CASE UNCHANGED stockVars
  BY <1>0, <1>10 DEF stockVars, tables
<1> QED
  BY <1>1, <1>2, <1>4, <1>6, <1>7, <1>8, <1>9, <1>10 DEF TransactionsNext
---------------------------------------------------------------------------
\* COMMIT shows the row and the event of one order, and the stock the transaction
\* has locked; nothing that was there is gone.
CommitsOf(t) ==
    CommitReserve(t) \/ CommitConfirm(t) \/ \E reason \in Denials : CommitRelease(t, reason)

LEMMA CommitFacts ==
    ASSUME TransactionsInv, NEW t \in Threads, CommitsOf(t)
    PROVE  /\ tx[t].job \in Jobs /\ tx'[t] = NoTx /\ UNCHANGED <<supplied, overlaps>>
           /\ \A u \in Threads \ {t} : tx'[u] = tx[u]
           /\ \A p \in Products : p # tx[t].locked => stock'[p] = stock[p]
           /\ \A x \in OrderIds : x # tx[t].order => rows'[x] = rows[x]
           /\ \A x \in OrderIds : rows[x] # <<>> => rows'[x] # <<>>
           /\ inventoryOutbox \subseteq inventoryOutbox'
           /\ \A e \in inventoryOutbox' \ inventoryOutbox :
                /\ e.order = tx[t].order
                /\ tx[t].job = "reserve" => e.topic \in {"inventory.reserved",
                                                        "inventory.insufficient-stock"}
                /\ tx[t].job = "release" => e.topic = "inventory.released"
                /\ tx[t].job # "confirm"
           /\ rows[tx[t].order] = <<>> /\ rows'[tx[t].order] # <<>> =>
                \E e \in inventoryOutbox' : e.order = tx[t].order /\ e.topic = "inventory.reserved"
<1> DEFINE o == tx[t].order
           r == Request[o]
<1>0. TransactionsTypeOK
  BY DEF TransactionsInv
<1>1. PICK job \in Jobs : CommitTx(t, job)
  BY DEF CommitsOf, CommitReserve, CommitConfirm, CommitRelease, Jobs
<1>2. /\ tx[t].job = job /\ job # "none" /\ UNCHANGED <<supplied, overlaps>>
      /\ job # "confirm" => tx[t].locked # None
  BY <1>1 DEF CommitTx, Jobs
<1>3. tx'[t] = NoTx /\ \A u \in Threads \ {t} : tx'[u] = tx[u]
  BY <1>1, TxSteps
<1>4. o \in OrderIds /\ (tx[t].locked # None => tx[t].locked = r.product /\ r.product \in Products)
  BY <1>2, TxFacts
<1>5. job # "reserve" => rows[o] # <<>>
  BY <1>2 DEF TransactionsInv, ReservationsStay, Jobs
<1>6. rows[o] \in Seq(RowStatuses) /\ stock \in [Products -> Nat] /\ rows = [x \in OrderIds |-> rows[x]]
  BY <1>0, <1>4 DEF TransactionsTypeOK, RowStatuses
<1>7. CASE CommitReserve(t)
  <2>1. job = "reserve"
    BY <1>2, <1>7 DEF CommitReserve, CommitTx
  <2>2. CASE /\ inventoryOutbox' = inventoryOutbox
                                     \cup {InsufficientStock(o, "INSUFFICIENT_STOCK")}
             /\ UNCHANGED <<stock, rows>>
    BY <1>2, <1>3, <2>1, <2>2 DEF InsufficientStock
  <2>3. CASE /\ stock' = [stock EXCEPT ![r.product] = tx[t].seen - r.quantity]
             /\ rows' = [rows EXCEPT ![o] = Append(@, "RESERVED")]
             /\ inventoryOutbox' = inventoryOutbox \cup
                   {InventoryReserved(o, Atomic!Wrap(PriceOf[r.product] * r.quantity),
                                      r.paymentType)}
    <3> DEFINE e == InventoryReserved(o, Atomic!Wrap(PriceOf[r.product] * r.quantity),
                                      r.paymentType)
    <3>1. /\ e.order = o /\ e.topic = "inventory.reserved"
          /\ inventoryOutbox' = inventoryOutbox \cup {e}
      BY <2>3 DEF InventoryReserved
    <3> HIDE DEF e
    <3>2. Append(rows[o], "RESERVED") # <<>>
      BY <1>6, ReservationAdded DEF RowStatuses
    <3>3. \A x \in OrderIds : rows'[x] = IF x = o THEN Append(rows[o], "RESERVED") ELSE rows[x]
      BY <1>6, <2>3
    <3>4. \A p \in Products : p # tx[t].locked => stock'[p] = stock[p]
      BY <1>2, <1>4, <1>6, <2>1, <2>3
    <3> QED
      BY <1>2, <1>3, <1>4, <2>1, <3>1, <3>2, <3>3, <3>4
  <2> QED
    BY <1>7, <2>2, <2>3 DEF CommitReserve
<1>8. ASSUME NEW status \in RowStatuses, rows' = [rows EXCEPT ![o][1] = status], job # "reserve"
      PROVE  /\ \A x \in OrderIds : x # o => rows'[x] = rows[x]
             /\ \A x \in OrderIds : rows[x] # <<>> => rows'[x] # <<>>
  <2>1. \A x \in OrderIds : rows'[x] = IF x = o THEN [rows[o] EXCEPT ![1] = status] ELSE rows[x]
    BY <1>6, <1>8
  <2>2. [rows[o] EXCEPT ![1] = status] # <<>>
    BY <1>5, <1>6, <1>8, StatusWritten
  <2> QED
    BY <2>1, <2>2
<1>9. ASSUME NEW reason \in Denials, CommitRelease(t, reason)
      PROVE  /\ job = "release" /\ \A p \in Products : p # tx[t].locked => stock'[p] = stock[p]
             /\ rows' = [rows EXCEPT ![o][1] = "RELEASED"]
             /\ inventoryOutbox' = inventoryOutbox \cup {InventoryReleased(o, reason)}
  <2>1. job = "release"
    BY <1>2, <1>9 DEF CommitRelease, CommitTx
  <2>2. PICK n : stock' = [stock EXCEPT ![r.product] = n]
    BY <1>9 DEF CommitRelease
  <2> QED
    BY <1>2, <1>4, <1>6, <1>9, <2>1, <2>2 DEF CommitRelease
<1>10. ASSUME NEW reason \in Denials, CommitRelease(t, reason)
       PROVE  \A e \in inventoryOutbox' \ inventoryOutbox :
                e.order = o /\ e.topic = "inventory.released"
  BY <1>9, <1>10 DEF InventoryReleased
<1>11. CASE CommitConfirm(t)
  <2>1. /\ job = "confirm" /\ rows' = [rows EXCEPT ![o][1] = "CONFIRMED"]
        /\ UNCHANGED <<stock, inventoryOutbox>>
    BY <1>2, <1>11 DEF CommitConfirm, CommitTx
  <2> QED
    BY <1>2, <1>3, <1>5, <1>8, <2>1 DEF RowStatuses
<1>12. CASE \E reason \in Denials : CommitRelease(t, reason)
  BY <1>2, <1>3, <1>5, <1>8, <1>9, <1>10, <1>12 DEF RowStatuses
<1> QED
  BY <1>7, <1>11, <1>12 DEF CommitsOf

\* Every step leaves transactions about orders, and rows locked once and as seen.
LEMMA TransactionsNext_Locks ==
    ASSUME TransactionsInv, [TransactionsNext]_stockVars
    PROVE  TransactionsAreTyped' /\ LocksHold' /\ ReservationsStay'
<1>0. /\ TransactionsTypeOK /\ TransactionsAreTyped /\ LocksHold /\ ReservationsStay
      /\ None \notin Products
  BY SagaInputs DEF TransactionsInv
<1> DEFINE Right == TransactionsAreTyped' /\ LocksHold' /\ ReservationsStay'
<1> USE DEF TransactionsAreTyped, LocksHold, ReservationsStay
<1>1. ASSUME NEW t \in Threads, NEW job \in Jobs, NEW o \in OrderIds, Begin(t, job, o)
      PROVE  Right
  <2>1. /\ tx'[t] = TxFor(job, o) /\ \A u \in Threads \ {t} : tx'[u] = tx[u]
        /\ UNCHANGED <<stock, rows>>
    BY <1>1, TxSteps DEF Begin, tables
  <2>2. job # "reserve" => rows[o] # <<>>
    BY <1>1 DEF Begin, FindsReservation
  <2> QED
    BY <1>0, <2>1, <2>2 DEF TxFor, Jobs
<1>2. ASSUME NEW t \in Threads, LockStock(t) PROVE Right
  <2> DEFINE p == Request[tx[t].order].product
  <2>1. /\ p \in Products /\ ~Locked(p) /\ tx[t].job \in {"reserve", "release"}
        /\ tx'[t] = [tx[t] EXCEPT !.locked = p, !.seen = stock[p]]
        /\ \A u \in Threads \ {t} : tx'[u] = tx[u]
    BY <1>2, TxSteps
  <2>2. UNCHANGED <<stock, rows>>
    BY <1>2 DEF LockStock, tables
  <2>3. tx[t] \in [job: Jobs \cup {"none"}, order: OrderIds \cup {None},
                  locked: Products \cup {None}, seen: Nat]
    BY <1>0 DEF TransactionsTypeOK
  <2>4. /\ tx'[t].job = tx[t].job /\ tx'[t].order = tx[t].order
        /\ tx'[t].locked = p /\ tx'[t].seen = stock[p]
        /\ tx[t].job \in {"reserve", "release"}
    BY <2>1, <2>3
  <2>5. /\ \A u \in Threads : tx[u].locked # p
        /\ \A u \in Threads \ {t} : tx'[u] = tx[u]
    BY <2>1 DEF Locked
  <2>6. TransactionsAreTyped'
    <3> SUFFICES ASSUME NEW u \in Threads
                 PROVE  /\ tx'[u].job = "none" => tx'[u] = NoTx
                        /\ tx'[u].job # "none" => tx'[u].order \in OrderIds
                        /\ tx'[u].locked # None =>
                             /\ tx'[u].job \in {"reserve", "release"}
                             /\ tx'[u].locked = Request[tx'[u].order].product
      OBVIOUS
    <3>1. CASE u = t
      BY <1>0, <2>4, <3>1
    <3>2. CASE u # t
      BY <1>0, <2>5, <3>2
    <3> QED
      BY <3>1, <3>2
  <2>7. LocksHold'
    <3> SUFFICES ASSUME NEW u \in Threads, tx'[u].locked # None
                 PROVE  /\ tx'[u].seen = stock[tx'[u].locked]
                        /\ \A v \in Threads : tx'[v].locked = tx'[u].locked => v = u
      BY <2>2
    <3>1. CASE u = t
      BY <2>4, <2>5, <3>1
    <3>2. CASE u # t
      <4>1. tx'[u] = tx[u] /\ tx[u].seen = stock[tx[u].locked]
        BY <1>0, <2>5, <3>2
      <4>2. ASSUME NEW v \in Threads, tx'[v].locked = tx[u].locked PROVE v = u
        BY <1>0, <2>4, <2>5, <3>2, <4>1, <4>2
      <4> QED
        BY <4>1, <4>2
    <3> QED
      BY <3>1, <3>2
  <2>8. ReservationsStay'
    <3> SUFFICES ASSUME NEW u \in Threads, tx'[u].job \in {"release", "confirm"}
                 PROVE  rows[tx'[u].order] # <<>>
      BY <2>2
    <3> QED
      BY <1>0, <2>4, <2>5
  <2> HIDE DEF TransactionsAreTyped, LocksHold, ReservationsStay
  <2> QED
    BY <2>6, <2>7, <2>8
<1>3. ASSUME NEW t \in Threads, CommitsOf(t) PROVE Right
  <2>1. /\ tx'[t] = NoTx /\ \A u \in Threads \ {t} : tx'[u] = tx[u]
        /\ \A p \in Products : p # tx[t].locked => stock'[p] = stock[p]
        /\ \A x \in OrderIds : rows[x] # <<>> => rows'[x] # <<>>
    BY <1>3, CommitFacts
  <2>2. \A u \in Threads : tx[u].locked \in Products \cup {None}
    BY <1>0 DEF TransactionsTypeOK
  <2> QED
    BY <1>0, <2>1, <2>2 DEF NoTx
<1>4. ASSUME NEW t \in Threads, Rollback(t) PROVE Right
  <2>1. /\ tx'[t] = NoTx /\ \A u \in Threads \ {t} : tx'[u] = tx[u]
        /\ UNCHANGED <<stock, rows>>
    BY <1>4, TxSteps DEF Rollback, tables, Jobs
  <2> QED
    BY <1>0, <2>1 DEF NoTx
<1>5. ASSUME NEW p \in Products, NEW q \in StockLevels, UpdateStockQuantity(p, q) PROVE Right
  <2>1. /\ \A u \in Threads : tx[u].locked # p
        /\ stock' = [stock EXCEPT ![p] = q] /\ UNCHANGED <<rows, tx>>
    BY <1>5 DEF UpdateStockQuantity, Locked
  <2>2. \A u \in Threads : stock'[tx[u].locked] = stock[tx[u].locked] \/ tx[u].locked = None
    BY <1>0, <2>1 DEF TransactionsTypeOK
  <2> QED
    BY <1>0, <2>1, <2>2
<1>6. CASE UNCHANGED stockVars
  BY <1>0, <1>6 DEF stockVars, tables
<1> QED
  BY <1>1, <1>2, <1>3, <1>4, <1>5, <1>6 DEF TransactionsNext, CommitsOf

\* The idempotency check.
LEMMA UnansweredMeans ==
    ASSUME NEW job \in Jobs, NEW o, Unanswered(job, o)
    PROVE  NotAnswered(job, o)
  BY DEF Unanswered, NotAnswered, Atomic!AlreadyProcessed, AnswersTo, Jobs

\* Every step leaves the checks true that were true when they were made.
LEMMA TransactionsNext_Checks ==
    ASSUME TransactionsInv, [TransactionsNext]_stockVars
    PROVE  ChecksStayTrue'
<1>0. TransactionsTypeOK /\ TransactionsAreTyped /\ ReservationsStay
  BY DEF TransactionsInv
<1> DEFINE Alone == \A t, u \in Threads :
              tx[t].job # "none" /\ tx[u].job = tx[t].job /\ tx[u].order = tx[t].order => u = t
           Fresh == \A t \in Threads : tx[t].job # "none" => NotAnswered(tx[t].job, tx[t].order)
           Announced == \A o \in OrderIds :
              rows[o] # <<>> => Atomic!AlreadyProcessed(o, {"inventory.reserved"})
<1>1. ChecksStayTrue <=> (overlaps = 0 => Alone /\ Fresh /\ Announced)
  BY DEF ChecksStayTrue
<1>2. ChecksStayTrue' <=> (overlaps' = 0 => Alone' /\ Fresh' /\ Announced')
  BY DEF ChecksStayTrue
<1>3. \A t \in Threads : tx[t].job \in Jobs \cup {"none"} /\ (tx[t].job # "none" => tx[t].order \in OrderIds)
  BY <1>0 DEF TransactionsTypeOK, TransactionsAreTyped
<1>S. ASSUME UNCHANGED <<rows, inventoryOutbox>> PROVE Announced' <=> Announced
  BY <1>S DEF Atomic!AlreadyProcessed
<1>4. ASSUME NEW t \in Threads, NEW job \in Jobs, NEW o \in OrderIds, Begin(t, job, o)
      PROVE  ChecksStayTrue'
  <2> DEFINE others == {u \in Threads : tx[u].job = job /\ tx[u].order = o}
  <2>1. /\ tx'[t] = TxFor(job, o) /\ \A u \in Threads \ {t} : tx'[u] = tx[u]
        /\ overlaps' = overlaps + Cardinality(others) /\ Unanswered(job, o)
        /\ UNCHANGED <<rows, inventoryOutbox>>
    BY <1>4, TxSteps DEF Begin, tables
  <2> SUFFICES ASSUME overlaps' = 0 PROVE Alone' /\ Fresh' /\ Announced'
    BY <1>2
  <2>2. overlaps = 0 /\ others = {}
    <3>1. Cardinality(others) \in Nat /\ overlaps \in Nat
      BY <1>0, ThreadsAreCounted, StockTransactionsInputs DEF TransactionsTypeOK
    <3>2. overlaps = 0 /\ Cardinality(others) = 0
      BY <2>1, <3>1
    <3> QED
      BY <3>2, ThreadsAreCounted
  <2>3. Alone /\ Fresh /\ Announced
    BY <1>1, <2>2 DEF TransactionsInv
  <2>4. tx'[t].job = job /\ tx'[t].order = o
    BY <2>1 DEF TxFor
  <2>5. \A u \in Threads : ~(tx[u].job = job /\ tx[u].order = o)
    BY <2>2
  <2>6. Alone'
    BY <2>1, <2>3, <2>4, <2>5
  <2>7. Fresh'
    <3>1. ASSUME NEW u \in Threads, tx'[u].job # "none"
          PROVE  NotAnswered(tx[u].job, tx[u].order)'
      <4>1. CASE u = t
        BY <2>1, <2>4, <4>1, UnansweredMeans DEF NotAnswered
      <4>2. CASE u # t
        BY <2>1, <2>3, <3>1, <4>2 DEF NotAnswered
      <4> QED
        BY <4>1, <4>2
    <3> QED
      BY <3>1
  <2> QED
    BY <1>S, <2>1, <2>3, <2>6, <2>7
<1>5. ASSUME NEW t \in Threads, CommitsOf(t) PROVE ChecksStayTrue'
  <2> SUFFICES ASSUME overlaps' = 0 PROVE Alone' /\ Fresh' /\ Announced'
    BY <1>2
  <2>1. /\ tx[t].job \in Jobs /\ tx'[t] = NoTx /\ overlaps = 0
        /\ \A u \in Threads \ {t} : tx'[u] = tx[u]
    BY <1>5, CommitFacts
  <2>2. Alone /\ Fresh /\ Announced
    BY <1>1, <2>1 DEF TransactionsInv
  <2>3. tx'[t].job = "none"
    BY <2>1 DEF NoTx
  <2>4. Alone'
    BY <2>1, <2>2, <2>3
  <2>5. ASSUME NEW u \in Threads, tx'[u].job # "none"
        PROVE  NotAnswered(tx[u].job, tx[u].order)'
    <3>1. u # t /\ tx'[u] = tx[u] /\ tx[u].job \in Jobs
      BY <1>3, <2>1, <2>3, <2>5
    <3>2. tx[u].order = tx[t].order => tx[u].job # tx[t].job
      BY <2>1, <2>2, <3>1 DEF Jobs
    <3>3. \A e \in inventoryOutbox : ~(e.order = tx[u].order /\ e.topic \in AnswersTo(tx[u].job))
      BY <2>2, <3>1 DEF Jobs, NotAnswered
    <3>4. ASSUME NEW e \in inventoryOutbox' \ inventoryOutbox
          PROVE  ~(e.order = tx[u].order /\ e.topic \in AnswersTo(tx[u].job))
      <4>1. /\ e.order = tx[t].order
            /\ tx[t].job = "reserve" => e.topic \in {"inventory.reserved",
                                                    "inventory.insufficient-stock"}
            /\ tx[t].job = "release" => e.topic = "inventory.released"
            /\ tx[t].job # "confirm"
        BY <1>5, <3>4, CommitFacts
      <4> QED
        BY <2>1, <3>1, <3>2, <4>1 DEF AnswersTo, Jobs
    <3>5. \A e \in inventoryOutbox' : ~(e.order = tx[u].order /\ e.topic \in AnswersTo(tx[u].job))
      BY <3>3, <3>4
    <3> QED
      BY <3>1, <3>5 DEF NotAnswered
  <2>6. Announced'
    <3> SUFFICES ASSUME NEW o \in OrderIds, rows'[o] # <<>>
                 PROVE  Atomic!AlreadyProcessed(o, {"inventory.reserved"})'
      OBVIOUS
    <3>1. CASE rows[o] # <<>>
      <4>1. inventoryOutbox \subseteq inventoryOutbox'
        BY <1>5, CommitFacts
      <4> QED
        BY <2>2, <3>1, <4>1 DEF Atomic!AlreadyProcessed
    <3>2. CASE rows[o] = <<>>
      <4>1. o = tx[t].order
        BY <1>5, <3>2, CommitFacts
      <4>2. \E e \in inventoryOutbox' : e.order = o /\ e.topic = "inventory.reserved"
        BY <1>5, <3>2, <4>1, CommitFacts
      <4> QED
        BY <4>2 DEF Atomic!AlreadyProcessed
    <3> QED
      BY <3>1, <3>2
  <2> QED
    BY <2>4, <2>5, <2>6
<1>6. ASSUME \A u \in Threads : (tx'[u].job = tx[u].job /\ tx'[u].order = tx[u].order) \/ tx'[u] = NoTx,
             UNCHANGED <<rows, inventoryOutbox, overlaps>>
      PROVE  ChecksStayTrue'
  <2> SUFFICES ASSUME overlaps = 0 PROVE Alone' /\ Fresh' /\ Announced'
    BY <1>2, <1>6
  <2>1. Alone /\ Fresh /\ Announced
    BY <1>1 DEF TransactionsInv
  <2>2. \A u \in Threads : tx'[u].job # "none" => tx'[u].job = tx[u].job /\ tx'[u].order = tx[u].order
    BY <1>6 DEF NoTx
  <2>3. Alone'
    BY <2>1, <2>2
  <2>4. Fresh'
    <3>1. ASSUME NEW u \in Threads, tx'[u].job # "none"
          PROVE  NotAnswered(tx[u].job, tx[u].order)'
      BY <1>6, <2>1, <2>2, <3>1 DEF NotAnswered
    <3> QED
      BY <3>1
  <2> QED
    BY <1>6, <1>S, <2>1, <2>3, <2>4
<1>7. ASSUME NEW t \in Threads, LockStock(t) PROVE ChecksStayTrue'
  <2>1. /\ tx'[t] = [tx[t] EXCEPT !.locked = Request[tx[t].order].product,
                                 !.seen = stock[Request[tx[t].order].product]]
        /\ \A u \in Threads \ {t} : tx'[u] = tx[u]
        /\ UNCHANGED <<rows, inventoryOutbox, overlaps>>
    BY <1>7, TxSteps DEF LockStock, tables
  <2>2. tx[t] \in [job: Jobs \cup {"none"}, order: OrderIds \cup {None},
                  locked: Products \cup {None}, seen: Nat]
    BY <1>0 DEF TransactionsTypeOK
  <2>3. tx'[t].job = tx[t].job /\ tx'[t].order = tx[t].order
    BY <2>1, <2>2
  <2> QED
    BY <1>6, <2>1, <2>3
<1>8. ASSUME NEW t \in Threads, Rollback(t) PROVE ChecksStayTrue'
  <2>1. /\ tx'[t] = NoTx /\ \A u \in Threads \ {t} : tx'[u] = tx[u]
        /\ UNCHANGED <<rows, inventoryOutbox, overlaps>>
    BY <1>8, TxSteps DEF Rollback, tables, Jobs
  <2> QED
    BY <1>6, <2>1
<1>9. ASSUME NEW p \in Products, NEW q \in StockLevels, UpdateStockQuantity(p, q)
      PROVE  ChecksStayTrue'
  BY <1>6, <1>9 DEF UpdateStockQuantity
<1>10. CASE UNCHANGED stockVars
  BY <1>6, <1>10 DEF stockVars, tables
<1> QED
  BY <1>4, <1>5, <1>7, <1>8, <1>9, <1>10 DEF TransactionsNext, CommitsOf

\* The invariant of the transactions, from which the theorems follow.
LEMMA TransactionsInvHolds == TransactionsSpec => []TransactionsInv
<1>1. TransactionsInv /\ [TransactionsNext]_stockVars => TransactionsInv'
  BY TransactionsNext_Type, TransactionsNext_Locks, TransactionsNext_Checks DEF TransactionsInv
<1> QED
  BY <1>1, TransactionsInit_Inv, PTL DEF TransactionsSpec
---------------------------------------------------------------------------
(* The transactions do in several steps what Inventory does in one.        *)

\* The reservation of an order, as Inventory has it.
ReservationOf(o) ==
    IF rows[o] = <<>> THEN [status |-> "none", product |-> None, quantity |-> 0]
    ELSE [status |-> rows[o][1], product |-> Request[o].product,
          quantity |-> Request[o].quantity]

Reservations == [o \in OrderIds |-> ReservationOf(o)]

\* A COMMIT writes one order's reservation.
LEMMA OneReservationWritten ==
    ASSUME NEW o \in OrderIds, \A x \in OrderIds : x # o => rows'[x] = rows[x]
    PROVE  Reservations' = [Reservations EXCEPT ![o] = ReservationOf(o)']
  BY DEF Reservations, ReservationOf

\* ReserveStock: the order was not answered, its reservation is not there, and the
\* stock is as seen.
LEMMA ReserveIsAtomic ==
    ASSUME TransactionsInv, NEW t \in Threads, CommitReserve(t), overlaps = 0
    PROVE  Atomic!InventoryNext
<1>o. PICK o : o = tx[t].order
  OBVIOUS
<1> DEFINE r == Request[o]
<1>0. TransactionsTypeOK /\ ChecksStayTrue
  BY DEF TransactionsInv
<1>1. CommitTx(t, "reserve") /\ tx[t].job = "reserve" /\ tx[t].locked # None
  BY DEF CommitReserve, CommitTx
<1>2. /\ o \in OrderIds /\ r.product \in Products /\ r.quantity \in Int
      /\ r.paymentType \in PaymentTypes /\ r.quantity \in Quantities
      /\ tx[t].seen = stock[r.product] /\ tx[t].seen \in Nat
  BY <1>o, <1>1, TxFacts, StockTransactionsInputs
<1>3. PriceOf[r.product] \in Nat /\ PriceOf[r.product] # Atomic!Absent /\ stock[r.product] # Atomic!Absent
  BY <1>2, StockTransactionsInputs DEF Atomic!Absent
<1>4. NotAnswered("reserve", o)
  BY <1>o, <1>0, <1>1 DEF ChecksStayTrue
<1>5. ~Atomic!AlreadyProcessed(o, {"inventory.reserved", "inventory.insufficient-stock"})
  BY <1>4 DEF NotAnswered, AnswersTo, Atomic!AlreadyProcessed
<1>6. rows[o] = <<>>
  BY <1>0, <1>2, <1>5 DEF ChecksStayTrue, Atomic!AlreadyProcessed
<1>7. UNCHANGED supplied /\ \A x \in OrderIds : x # o => rows'[x] = rows[x]
  BY <1>o, CommitFacts DEF CommitsOf
<1>8. Atomic!AnswerOrder(o, r.product, r.quantity, r.paymentType)
  <2>1. CASE /\ tx[t].seen < r.quantity
             /\ inventoryOutbox' = inventoryOutbox
                                     \cup {InsufficientStock(o, "INSUFFICIENT_STOCK")}
             /\ UNCHANGED <<stock, rows>>
    <3>1. Atomic!Refuse(o, "INSUFFICIENT_STOCK")
      BY <1>7, <2>1 DEF Atomic!Refuse, Atomic!InsufficientStock, InsufficientStock
    <3> QED
      BY <1>2, <1>3, <2>1, <3>1 DEF Atomic!AnswerOrder
  <2>2. CASE /\ tx[t].seen >= r.quantity /\ r.quantity > 0
             /\ stock' = [stock EXCEPT ![r.product] = tx[t].seen - r.quantity]
             /\ rows' = [rows EXCEPT ![o] = Append(@, "RESERVED")]
             /\ inventoryOutbox' = inventoryOutbox \cup
                   {InventoryReserved(o, Atomic!Wrap(PriceOf[r.product] * r.quantity),
                                      r.paymentType)}
    <3>1. rows[o] \in Seq(RowStatuses) /\ rows'[o] = Append(rows[o], "RESERVED")
      BY <1>0, <1>2, <2>2 DEF TransactionsTypeOK, RowStatuses
    <3>2. rows'[o] # <<>> /\ rows'[o][1] = "RESERVED"
      BY <1>6, <3>1, ReservationAdded
    <3>3. ReservationOf(o)' = [status |-> "RESERVED", product |-> r.product, quantity |-> r.quantity]
      BY <3>2 DEF ReservationOf
    <3>4. Reservations' = [Reservations EXCEPT ![o] =
                             [status |-> "RESERVED", product |-> r.product, quantity |-> r.quantity]]
      BY <1>2, <1>7, <3>3, OneReservationWritten
    <3>5. stock' = [stock EXCEPT ![r.product] = @ - r.quantity]
      BY <1>2, <2>2
    <3>6. inventoryOutbox' = inventoryOutbox
             \cup {InventoryReserved(o, Atomic!Amount(r.product, r.quantity), r.paymentType)}
      BY <2>2 DEF Atomic!Amount
    <3>7. Atomic!Reserve(o, r.product, r.quantity, r.paymentType)
      BY <1>7, <3>4, <3>5, <3>6
      DEF Atomic!Reserve, Reservations, ReservationOf, Atomic!InventoryReserved, InventoryReserved
    <3> QED
      BY <1>2, <1>3, <2>2, <3>7 DEF Atomic!AnswerOrder
  <2> QED
    BY <1>o, <2>1, <2>2 DEF CommitReserve
<1> QED
  BY <1>2, <1>5, <1>8 DEF Atomic!ReserveStock, Atomic!InventoryNext, Atomic!PaymentTypes, PaymentTypes

\* ReleaseStock: the release was not announced, the reservation is there, and the
\* stock is as seen.
LEMMA ReleaseIsAtomic ==
    ASSUME TransactionsInv, NEW t \in Threads, NEW reason \in Denials,
           CommitRelease(t, reason), overlaps = 0
    PROVE  Atomic!InventoryNext
<1>o. PICK o : o = tx[t].order
  OBVIOUS
<1> DEFINE r == Request[o]
<1>0. TransactionsTypeOK /\ ChecksStayTrue /\ ReservationsStay
  BY DEF TransactionsInv
<1>1. CommitTx(t, "release") /\ tx[t].job = "release" /\ tx[t].locked # None
  BY DEF CommitRelease, CommitTx
<1>2. o \in OrderIds /\ r.product \in Products /\ tx[t].seen = stock[r.product]
  BY <1>o, <1>1, TxFacts
<1>3. ~Atomic!AlreadyProcessed(o, {"inventory.released"})
  BY <1>o, <1>0, <1>1 DEF ChecksStayTrue, NotAnswered, AnswersTo, Atomic!AlreadyProcessed
<1>4. rows[o] \in Seq(RowStatuses) /\ rows[o] # <<>>
  BY <1>o, <1>0, <1>1, <1>2 DEF ReservationsStay, TransactionsTypeOK, RowStatuses
<1>5. ReservationOf(o) = [status |-> rows[o][1], product |-> r.product, quantity |-> r.quantity]
  BY <1>4 DEF ReservationOf
<1>6. rows[o][1] \in RowStatuses
  BY <1>4, StatusWritten DEF RowStatuses
<1>7. Atomic!HasReservation(o)
  BY <1>2, <1>5, <1>6 DEF Atomic!HasReservation, RowStatuses, ReservationOf
<1>8. UNCHANGED supplied /\ \A x \in OrderIds : x # o => rows'[x] = rows[x]
  BY <1>o, CommitFacts DEF CommitsOf
<1>9. /\ Atomic!Wrap(stock[r.product] + r.quantity) >= 0
      /\ stock' = [stock EXCEPT ![r.product] = Atomic!Wrap(stock[r.product] + r.quantity)]
      /\ rows'[o] = [rows[o] EXCEPT ![1] = "RELEASED"]
      /\ inventoryOutbox' = inventoryOutbox \cup {InventoryReleased(o, reason)}
  BY <1>o, <1>0, <1>2 DEF CommitRelease, TransactionsTypeOK
<1>10. rows'[o] # <<>> /\ rows'[o][1] = "RELEASED"
  BY <1>4, <1>9, StatusWritten DEF RowStatuses
<1>11. ReservationOf(o)' = [ReservationOf(o) EXCEPT !.status = "RELEASED"]
  BY <1>5, <1>10 DEF ReservationOf
<1>12. Reservations' = [Reservations EXCEPT ![o] = [ReservationOf(o) EXCEPT !.status = "RELEASED"]]
  BY <1>2, <1>8, <1>11, OneReservationWritten
<1>13. Reservations' = [Reservations EXCEPT ![o].status = "RELEASED"]
  BY <1>2, <1>12 DEF Reservations
<1>14. Reservations[o].product = r.product /\ Reservations[o].quantity = r.quantity
  BY <1>2, <1>5 DEF Reservations
<1>15. Atomic!RestoreStock(o)
  BY <1>8, <1>9, <1>13, <1>14 DEF Atomic!RestoreStock, Reservations, ReservationOf
<1>16. Atomic!ReleaseStock(o, reason)
  BY <1>3, <1>7, <1>9, <1>15 DEF Atomic!ReleaseStock, Atomic!InventoryReleased, InventoryReleased
<1> QED
  BY <1>2, <1>16 DEF Atomic!InventoryNext, Atomic!Denials, Denials

\* ConfirmReservation: the reservation is still there.
LEMMA ConfirmIsAtomic ==
    ASSUME TransactionsInv, NEW t \in Threads, CommitConfirm(t)
    PROVE  Atomic!InventoryNext
<1>o. PICK o : o = tx[t].order
  OBVIOUS
<1>0. TransactionsTypeOK /\ ReservationsStay
  BY DEF TransactionsInv
<1>1. tx[t].job = "confirm"
  BY DEF CommitConfirm, CommitTx
<1>2. o \in OrderIds
  BY <1>o, <1>1, TxFacts
<1>3. rows[o] \in Seq(RowStatuses) /\ rows[o] # <<>>
  BY <1>o, <1>0, <1>1, <1>2 DEF ReservationsStay, TransactionsTypeOK, RowStatuses
<1>4. ReservationOf(o) = [status |-> rows[o][1], product |-> Request[o].product,
                         quantity |-> Request[o].quantity]
  BY <1>3 DEF ReservationOf
<1>5. rows[o][1] \in RowStatuses
  BY <1>3, StatusWritten DEF RowStatuses
<1>6. Atomic!HasReservation(o)
  BY <1>2, <1>4, <1>5 DEF Atomic!HasReservation, RowStatuses, ReservationOf
<1>7. UNCHANGED <<supplied, stock, inventoryOutbox>> /\ \A x \in OrderIds : x # o => rows'[x] = rows[x]
  BY <1>o, CommitFacts DEF CommitsOf, CommitConfirm
<1>8. rows'[o] = [rows[o] EXCEPT ![1] = "CONFIRMED"]
  BY <1>o, <1>0, <1>2 DEF CommitConfirm, TransactionsTypeOK
<1>9. rows'[o] # <<>> /\ rows'[o][1] = "CONFIRMED"
  BY <1>3, <1>8, StatusWritten DEF RowStatuses
<1>10. ReservationOf(o)' = [ReservationOf(o) EXCEPT !.status = "CONFIRMED"]
  BY <1>4, <1>9 DEF ReservationOf
<1>11. Reservations' = [Reservations EXCEPT ![o] = [ReservationOf(o) EXCEPT !.status = "CONFIRMED"]]
  BY <1>2, <1>7, <1>10, OneReservationWritten
<1>12. Reservations' = [Reservations EXCEPT ![o].status = "CONFIRMED"]
  BY <1>2, <1>11 DEF Reservations
<1>13. Atomic!ConfirmReservation(o)
  BY <1>6, <1>7, <1>12 DEF Atomic!ConfirmReservation, Reservations, ReservationOf
<1> QED
  BY <1>2, <1>13 DEF Atomic!InventoryNext

\* PATCH: it writes what the administrator said, nothing else.
LEMMA UpdateIsAtomic ==
    ASSUME TransactionsInv, NEW p \in Products, NEW q \in StockLevels,
           UpdateStockQuantity(p, q)
    PROVE  Atomic!InventoryNext
<1>1. q \in Nat /\ stock[p] \in Nat
  BY StockTransactionsInputs DEF TransactionsInv, TransactionsTypeOK
<1>2. stock[p] # Atomic!Absent
  BY <1>1 DEF Atomic!Absent
<1>3. Reservations' = Reservations
  BY DEF UpdateStockQuantity, Reservations, ReservationOf
<1>4. Atomic!UpdateStockQuantity(p, q)
  BY <1>1, <1>2, <1>3
  DEF UpdateStockQuantity, Atomic!UpdateStockQuantity, Reservations, ReservationOf
<1> QED
  BY <1>4 DEF Atomic!InventoryNext, Atomic!WebNext

\* A step that leaves the tables alone leaves Inventory's alone.
LEMMA TablesSame == ASSUME UNCHANGED tables PROVE UNCHANGED Atomic!inventoryVars
  BY DEF tables, Atomic!inventoryVars

\* Every step is a step of Inventory, or none of its tables changes.
LEMMA StepIsAtomic ==
    TransactionsInv /\ [TransactionsNext]_stockVars
        => [overlaps = 0 => Atomic!InventoryNext]_(Atomic!inventoryVars)
<1> SUFFICES ASSUME TransactionsInv, [TransactionsNext]_stockVars
             PROVE  (overlaps = 0 => Atomic!InventoryNext) \/ UNCHANGED Atomic!inventoryVars
  OBVIOUS
<1>1. ASSUME NEW t \in Threads, NEW job \in Jobs, NEW o \in OrderIds, Begin(t, job, o)
      PROVE  UNCHANGED Atomic!inventoryVars
  BY <1>1, TablesSame DEF Begin
<1>2. ASSUME NEW t \in Threads, LockStock(t) \/ Rollback(t)
      PROVE  UNCHANGED Atomic!inventoryVars
  BY <1>2, TablesSame DEF LockStock, Rollback
<1>3. CASE UNCHANGED stockVars
  BY <1>3, TablesSame DEF stockVars
<1> QED
  BY <1>1, <1>2, <1>3, ReserveIsAtomic, ReleaseIsAtomic, ConfirmIsAtomic, UpdateIsAtomic
  DEF TransactionsNext

---------------------------------------------------------------------------
(* How much harm overlapping transactions do.                              *)

Released(o) == Atomic!AlreadyProcessed(o, {"inventory.released"})

\* The threads at a release, and the orders whose first release they may commit.
Releasing == {t \in Threads : tx[t].job = "release"}
Awaited == {o \in OrderIds : ~Released(o) /\ \E t \in Releasing : tx[t].order = o}

\* The overlaps that have done their harm, or have none to do: each of the others
\* is a release under way of an order that is released, or that another releases.
Spare == overlaps - (Cardinality(Releasing) - Cardinality(Awaited))

Excess(p) == stock[p] + Cardinality(HeldUnits(p)) - supplied[p]

\* The stock fits an Int, a row is of at least one unit that was in stock, and what
\* is released was reserved.
RowsAreBacked ==
    /\ \A p \in Products : stock[p] < HalfRange
    /\ \A o \in OrderIds : rows[o] # <<>> => Request[o].quantity \in 1 .. HalfRange - 1
    /\ \A o \in OrderIds : Released(o) => rows[o] # <<>>

ExcessIsBounded ==
    \A p \in Products :
        /\ IsFiniteSet(HeldUnits(p))
        /\ 0 <= Excess(p) /\ Excess(p) <= Spare * MaxQuantity

OverlapsInv == RowsAreBacked /\ ExcessIsBounded

\* Pairs with a first element given are as many as their second elements.
LEMMA PairsWith ==
    ASSUME NEW x, NEW S, IsFiniteSet(S)
    PROVE  IsFiniteSet({x} \X S) /\ Cardinality({x} \X S) = Cardinality(S)
<1>1. IsFiniteSet({x}) /\ Cardinality({x}) = 1
  BY FS_Singleton
<1>2. IsFiniteSet({x} \X S) /\ Cardinality({x} \X S) = Cardinality({x}) * Cardinality(S)
  BY <1>1, FS_Product, Zenon
<1>3. Cardinality(S) \in Nat
  BY FS_CardinalityType
<1> QED
  BY <1>1, <1>2, <1>3

\* The units of a row: as many as its order asks for.
LEMMA BlockOfUnits ==
    \A n \in Nat : \A o, j : /\ IsFiniteSet({o} \X ({j} \X (1..n)))
                             /\ Cardinality({o} \X ({j} \X (1..n))) = n
<1> TAKE n \in Nat
<1> TAKE o, j
<1>1. IsFiniteSet(1..n) /\ Cardinality(1..n) = n
  BY FS_Interval
<1>2. IsFiniteSet({j} \X (1..n)) /\ Cardinality({j} \X (1..n)) = Cardinality(1..n)
  BY <1>1, PairsWith, Zenon
<1>3. /\ IsFiniteSet({o} \X ({j} \X (1..n)))
      /\ Cardinality({o} \X ({j} \X (1..n))) = Cardinality({j} \X (1..n))
  BY <1>2, PairsWith, Zenon
<1> QED
  BY <1>1, <1>2, <1>3, Zenon

\* A unit that is held, is held by a row.
LEMMA HeldByARow ==
    ASSUME NEW p, NEW u
    PROVE  /\ u \in HeldUnits(p) <=>
                \E x \in OrderIds : \E j \in HeldRows(x) :
                   Request[x].product = p /\ u \in {x} \X ({j} \X (1 .. Request[x].quantity))
           /\ u \in HeldUnits(p)' <=>
                \E x \in OrderIds : \E j \in HeldRows(x)' :
                   Request[x].product = p /\ u \in {x} \X ({j} \X (1 .. Request[x].quantity))
<1>1. u \in HeldUnits(p) <=>
        \E x \in OrderIds : Request[x].product = p
                            /\ u \in {x} \X (HeldRows(x) \X (1 .. Request[x].quantity))
  BY DEF HeldUnits
<1>2. u \in HeldUnits(p)' <=>
        \E x \in OrderIds : Request[x].product = p
                            /\ u \in {x} \X (HeldRows(x)' \X (1 .. Request[x].quantity))
  BY DEF HeldUnits
<1>3. \A x, R, N : u \in {x} \X (R \X N) <=> \E j \in R : u \in {x} \X ({j} \X N)
  OBVIOUS
<1>4. ASSUME NEW x \in OrderIds, NEW R
      PROVE  (/\ Request[x].product = p
              /\ u \in {x} \X (R \X (1 .. Request[x].quantity)))
             <=> \E j \in R : /\ Request[x].product = p
                             /\ u \in {x} \X ({j} \X (1 .. Request[x].quantity))
  BY <1>3, Zenon
<1>5. \A x \in OrderIds :
         (Request[x].product = p /\ u \in {x} \X (HeldRows(x)' \X (1 .. Request[x].quantity)))
         <=> \E j \in HeldRows(x)' :
                Request[x].product = p /\ u \in {x} \X ({j} \X (1 .. Request[x].quantity))
  BY <1>4
<1>6. \A x \in OrderIds :
         (Request[x].product = p /\ u \in {x} \X (HeldRows(x) \X (1 .. Request[x].quantity)))
         <=> \E j \in HeldRows(x) :
                Request[x].product = p /\ u \in {x} \X ({j} \X (1 .. Request[x].quantity))
  BY <1>4
<1> QED
  BY <1>1, <1>2, <1>5, <1>6, Zenon

\* The same rows hold the same units.
LEMMA SameHeld ==
    ASSUME NEW p, \A x \in OrderIds : Request[x].product = p => HeldRows(x)' = HeldRows(x)
    PROVE  HeldUnits(p)' = HeldUnits(p)
<1>1. ASSUME NEW u PROVE u \in HeldUnits(p)' <=> u \in HeldUnits(p)
  BY HeldByARow
<1> QED
  BY <1>1

\* A row more holds its units besides.
LEMMA HeldGains ==
    ASSUME NEW p, NEW o \in OrderIds, NEW j, Request[o].product = p,
           Request[o].quantity \in Nat, IsFiniteSet(HeldUnits(p)),
           \A x \in OrderIds \ {o} : HeldRows(x)' = HeldRows(x),
           j \notin HeldRows(o), HeldRows(o)' = HeldRows(o) \cup {j}
    PROVE  /\ IsFiniteSet(HeldUnits(p)')
           /\ Cardinality(HeldUnits(p)') = Cardinality(HeldUnits(p)) + Request[o].quantity
<1>0. PICK n \in Nat : n = Request[o].quantity
  OBVIOUS
<1> DEFINE B == {o} \X ({j} \X (1..n))
           H == HeldUnits(p)
<1>1. IsFiniteSet(B) /\ Cardinality(B) = n
  BY BlockOfUnits
<1>2. HeldUnits(p)' = H \cup B
  <2>1. ASSUME NEW u PROVE u \in HeldUnits(p)' <=> u \in H \cup B
    BY <1>0, HeldByARow
  <2> QED
    BY <2>1
<1>3. H \cap B = {}
  <2>1. ASSUME NEW u, u \in H, u \in B PROVE FALSE
    BY <1>0, <2>1, HeldByARow
  <2> QED
    BY <2>1
<1> HIDE DEF B, H
<1>4. IsFiniteSet(H)
  BY DEF H
<1>5. Cardinality(H) \in Nat /\ Cardinality(H \cap B) = 0
  BY <1>3, <1>4, FS_CardinalityType, FS_EmptySet
<1>6. /\ IsFiniteSet(H \cup B)
      /\ Cardinality(H \cup B) = Cardinality(H) + Cardinality(B) - Cardinality(H \cap B)
  BY <1>1, <1>4, FS_Union
<1> QED
  BY <1>0, <1>1, <1>2, <1>5, <1>6 DEF H

\* A row less takes its units away.
LEMMA HeldLoses ==
    ASSUME NEW p, NEW o \in OrderIds, NEW j, Request[o].product = p,
           Request[o].quantity \in Nat, IsFiniteSet(HeldUnits(p)),
           \A x \in OrderIds \ {o} : HeldRows(x)' = HeldRows(x),
           j \in HeldRows(o), HeldRows(o)' = HeldRows(o) \ {j}
    PROVE  /\ IsFiniteSet(HeldUnits(p)')
           /\ Cardinality(HeldUnits(p)') = Cardinality(HeldUnits(p)) - Request[o].quantity
<1>0. PICK n \in Nat : n = Request[o].quantity
  OBVIOUS
<1> DEFINE B == {o} \X ({j} \X (1..n))
           H == HeldUnits(p)
<1>1. IsFiniteSet(B) /\ Cardinality(B) = n
  BY BlockOfUnits
<1>2. HeldUnits(p)' = H \ B
  <2>1. ASSUME NEW u PROVE u \in HeldUnits(p)' <=> u \in H \ B
    BY <1>0, HeldByARow
  <2> QED
    BY <2>1
<1>3. B \subseteq H
  <2>1. ASSUME NEW u, u \in B PROVE u \in H
    BY <1>0, <2>1, HeldByARow
  <2> QED
    BY <2>1
<1> HIDE DEF B, H
<1>4. IsFiniteSet(H)
  BY DEF H
<1>5. H \cap B = B
  BY <1>3
<1>6. IsFiniteSet(H \ B) /\ Cardinality(H \ B) = Cardinality(H) - Cardinality(H \cap B)
  BY <1>4, FS_Difference
<1> QED
  BY <1>0, <1>1, <1>2, <1>5, <1>6 DEF H
\* The releases that are counted: no more orders are awaited than threads release.
LEMMA Counts ==
    ASSUME TransactionsInv
    PROVE  /\ IsFiniteSet(Releasing) /\ IsFiniteSet(Awaited)
           /\ Cardinality(Releasing) \in Nat /\ Cardinality(Awaited) \in Nat
           /\ Cardinality(Awaited) <= Cardinality(Releasing)
           /\ overlaps \in Nat /\ Spare \in Int
<1> DEFINE First == {t \in Releasing : ~Released(tx[t].order)}
           f == [t \in First |-> tx[t].order]
<1>1. IsFiniteSet(Releasing) /\ IsFiniteSet(First)
  BY StockTransactionsInputs, FS_Subset DEF Releasing
<1>2. f \in Surjection(First, Awaited)
  <2>1. \A t \in First : tx[t].order \in Awaited
    BY DEF Releasing, Awaited, TransactionsInv, TransactionsAreTyped
  <2>2. \A o \in Awaited : \E t \in First : tx[t].order = o
    BY DEF Awaited
  <2> QED
    BY <2>1, <2>2 DEF Surjection
<1>3. Cardinality(First) <= Cardinality(Releasing)
  BY <1>1, FS_Subset
<1>4. IsFiniteSet(Awaited) /\ Cardinality(Awaited) <= Cardinality(First)
  BY <1>1, <1>2, FS_Surjection
<1>5. /\ Cardinality(Releasing) \in Nat /\ Cardinality(First) \in Nat
      /\ Cardinality(Awaited) \in Nat
  BY <1>1, <1>4, FS_CardinalityType
<1>6. overlaps \in Nat
  BY StockTransactionsInputs DEF TransactionsInv, TransactionsTypeOK
<1> QED
  BY <1>1, <1>3, <1>4, <1>5, <1>6 DEF Spare

\* As many rows of each order as before, and no release announced: no unit moves.
QuietRows ==
    \A o \in OrderIds : /\ Len(rows'[o]) = Len(rows[o])
                        /\ rows'[o] = <<>> <=> rows[o] = <<>>
                        /\ Released(o)' <=> Released(o)

\* Threads that stay at what they do, and orders whose releases stay unannounced,
\* leave the count of the releases alone.
LEMMA SameReleases ==
    ASSUME \A t \in Threads : tx'[t].job = "release" <=> tx[t].job = "release",
           \A t \in Threads : tx[t].job = "release" => tx'[t].order = tx[t].order,
           QuietRows
    PROVE  Releasing' = Releasing /\ Awaited' = Awaited
<1>1. Releasing' = Releasing
  BY DEF Releasing
<1>2. \A t \in Releasing : tx'[t].order = tx[t].order
  BY DEF Releasing
<1> QED
  BY <1>1, <1>2 DEF Awaited, QuietRows

LEMMA SameTables == ASSUME UNCHANGED <<rows, inventoryOutbox>> PROVE QuietRows
  BY DEF QuietRows, Released, Atomic!AlreadyProcessed

LEMMA QuietHeld == ASSUME QuietRows PROVE \A p : HeldUnits(p)' = HeldUnits(p)
<1>1. \A o \in OrderIds : HeldRows(o)' = HeldRows(o)
  BY DEF QuietRows, Released, HeldRows
<1> QED
  BY <1>1, SameHeld

\* More overlaps to spare allow for more.
LEMMA MoreToSpare ==
    ASSUME NEW e \in Int, NEW a \in Int, NEW b \in Int, a <= b, e <= a * MaxQuantity
    PROVE  e <= b * MaxQuantity
<1>1. MaxQuantity \in Nat
  BY StockTransactionsInputs
<1>2. b * MaxQuantity = a * MaxQuantity + (b - a) * MaxQuantity
  BY <1>1
<1>3. b - a \in Nat
  OBVIOUS
<1>4. \A m, n \in Nat : m * n \in Nat
  OBVIOUS
<1>5. (b - a) * MaxQuantity \in Nat
  BY <1>1, <1>3, <1>4
<1>6. a * MaxQuantity \in Int
  BY <1>1
<1> QED
  BY <1>2, <1>5, <1>6

\* A step that moves no unit, and leaves no fewer overlaps to spare.
LEMMA ExcessStays ==
    ASSUME TransactionsInv, OverlapsInv, UNCHANGED <<stock, supplied>>, QuietRows,
           Spare \in Int, Spare' \in Int, Spare <= Spare'
    PROVE  OverlapsInv'
<1>1. RowsAreBacked'
  BY DEF OverlapsInv, RowsAreBacked, QuietRows
<1>2. ASSUME NEW p \in Products
      PROVE  /\ IsFiniteSet(HeldUnits(p)')
             /\ 0 <= Excess(p)' /\ Excess(p)' <= Spare' * MaxQuantity
  <2>1. /\ IsFiniteSet(HeldUnits(p))
        /\ 0 <= Excess(p) /\ Excess(p) <= Spare * MaxQuantity
    BY DEF OverlapsInv, ExcessIsBounded
  <2>2. HeldUnits(p)' = HeldUnits(p)
    BY QuietHeld
  <2>3. Excess(p)' = Excess(p)
    BY <2>2 DEF Excess
  <2>4. Excess(p) \in Int
    <3>1. Cardinality(HeldUnits(p)) \in Nat
      BY <2>1, FS_CardinalityType
    <3> QED
      BY <3>1 DEF Excess, TransactionsInv, TransactionsTypeOK
  <2> QED
    BY <2>1, <2>2, <2>3, <2>4, MoreToSpare
<1> QED
  BY <1>1, <1>2 DEF OverlapsInv, ExcessIsBounded

\* A release begun costs an overlap, unless no other thread is at it.
LEMMA BeginOverlaps ==
    ASSUME TransactionsInv, OverlapsInv, NEW t \in Threads, NEW job \in Jobs,
           NEW o \in OrderIds, Begin(t, job, o)
    PROVE  OverlapsInv'
<1> DEFINE others == {u \in Threads : tx[u].job = job /\ tx[u].order = o}
<1>1. /\ tx[t] = NoTx /\ tx'[t] = TxFor(job, o)
      /\ \A u \in Threads \ {t} : tx'[u] = tx[u]
  BY TxSteps
<1>2. /\ overlaps' = overlaps + Cardinality(others) /\ Cardinality(others) \in Nat
      /\ UNCHANGED <<stock, rows, inventoryOutbox, supplied>>
  BY ThreadsAreCounted DEF Begin, tables
<1>3. QuietRows
  BY <1>2, SameTables
<1>4. /\ IsFiniteSet(Releasing) /\ IsFiniteSet(Awaited)
      /\ Cardinality(Releasing) \in Nat /\ Cardinality(Awaited) \in Nat
      /\ overlaps \in Nat /\ Spare \in Int
  BY Counts
<1>5. CASE job # "release"
  <2>1. Releasing' = Releasing /\ Awaited' = Awaited
    BY <1>1, <1>3, <1>5, SameReleases DEF NoTx, TxFor
  <2>2. Spare' = Spare + Cardinality(others)
    BY <1>2, <1>4, <2>1 DEF Spare
  <2> QED
    BY <1>2, <1>3, <1>4, <2>2, ExcessStays
<1>6. CASE job = "release"
  <2>1. Releasing' = Releasing \cup {t} /\ t \notin Releasing
    BY <1>1, <1>6 DEF Releasing, NoTx, TxFor
  <2>2. ~Released(o)
    BY <1>6 DEF Begin, Unanswered, Released
  <2>3. Awaited' = Awaited \cup {o}
    <3>1. \A u \in Releasing : tx'[u].order = tx[u].order
      BY <1>1, <2>1 DEF Releasing
    <3>2. tx'[t].order = o
      BY <1>1 DEF TxFor
    <3>3. \A x \in OrderIds : (\E u \in Releasing' : tx'[u].order = x)
                                 <=> x = o \/ \E u \in Releasing : tx[u].order = x
      BY <2>1, <3>1, <3>2
    <3> QED
      BY <1>3, <2>2, <3>3 DEF Awaited, QuietRows
  <2>4. Cardinality(Releasing') = Cardinality(Releasing) + 1
    <3>1. Cardinality(Releasing \cup {t}) = Cardinality(Releasing) + 1
      BY <1>4, <2>1, FS_AddElement
    <3> QED
      BY <2>1, <3>1
  <2>5. Cardinality(Awaited') = IF o \in Awaited THEN Cardinality(Awaited) ELSE Cardinality(Awaited) + 1
    <3>1. Cardinality(Awaited \cup {o})
            = IF o \in Awaited THEN Cardinality(Awaited) ELSE Cardinality(Awaited) + 1
      BY <1>4, FS_AddElement
    <3> QED
      BY <2>3, <3>1
  <2>6. o \in Awaited => Cardinality(others) # 0
    <3>1. ASSUME o \in Awaited PROVE others # {}
      BY <1>6, <3>1 DEF Awaited, Releasing
    <3> QED
      BY <3>1, ThreadsAreCounted
  <2>7. Spare' \in Int /\ Spare <= Spare'
    BY <1>2, <1>4, <2>4, <2>5, <2>6 DEF Spare
  <2> QED
    BY <1>2, <1>3, <1>4, <2>7, ExcessStays
<1> QED
  BY <1>5, <1>6

\* A transaction rolled back did nothing; a release may leave its order to another.
LEMMA RollbackOverlaps ==
    ASSUME TransactionsInv, OverlapsInv, NEW t \in Threads, Rollback(t)
    PROVE  OverlapsInv'
<1>1. tx'[t] = NoTx /\ \A u \in Threads \ {t} : tx'[u] = tx[u]
  BY TxSteps DEF Jobs
<1>2. UNCHANGED <<stock, rows, inventoryOutbox, supplied, overlaps>>
  BY DEF Rollback, tables
<1>3. QuietRows
  BY <1>2, SameTables
<1>4. /\ IsFiniteSet(Releasing) /\ IsFiniteSet(Awaited)
      /\ Cardinality(Releasing) \in Nat /\ Cardinality(Awaited) \in Nat
      /\ overlaps \in Nat /\ Spare \in Int
  BY Counts
<1>5. CASE tx[t].job # "release"
  <2>1. Releasing' = Releasing /\ Awaited' = Awaited
    BY <1>1, <1>3, <1>5, SameReleases DEF NoTx
  <2>2. Spare' = Spare
    BY <1>2, <2>1 DEF Spare
  <2> QED
    BY <1>2, <1>3, <1>4, <2>2, ExcessStays
<1>6. CASE tx[t].job = "release"
  <2>0. PICK o : o = tx[t].order
    OBVIOUS
  <2>1. Releasing' = Releasing \ {t} /\ t \in Releasing
    BY <1>1, <1>6 DEF Releasing, NoTx
  <2>2. \A u \in Releasing' : tx'[u].order = tx[u].order
    BY <1>1, <2>1 DEF Releasing
  <2>3. Awaited' \subseteq Awaited /\ Awaited \ {o} \subseteq Awaited'
    BY <1>3, <2>0, <2>1, <2>2 DEF Awaited, QuietRows
  <2>4. Cardinality(Releasing') = Cardinality(Releasing) - 1
    <3>1. Cardinality(Releasing \ {t}) = Cardinality(Releasing) - 1
      BY <1>4, <2>1, FS_RemoveElement
    <3> QED
      BY <2>1, <3>1
  <2>5. Cardinality(Awaited') \in Nat /\ Cardinality(Awaited') >= Cardinality(Awaited) - 1
    <3>1. /\ IsFiniteSet(Awaited \ {o}) /\ IsFiniteSet(Awaited')
          /\ Cardinality(Awaited \ {o}) >= Cardinality(Awaited) - 1
      BY <1>4, <2>3, FS_RemoveElement, FS_Subset
    <3>2. Cardinality(Awaited \ {o}) <= Cardinality(Awaited')
      BY <2>3, <3>1, FS_Subset
    <3>3. Cardinality(Awaited \ {o}) \in Nat /\ Cardinality(Awaited') \in Nat
      BY <3>1, FS_CardinalityType
    <3> QED
      BY <1>4, <3>1, <3>2, <3>3
  <2>6. Spare' \in Int /\ Spare <= Spare'
    BY <1>2, <1>4, <2>4, <2>5 DEF Spare
  <2> QED
    BY <1>2, <1>3, <1>4, <2>6, ExcessStays
<1> QED
  BY <1>5, <1>6

\* The lock is no business of the count.
LEMMA LockOverlaps ==
    ASSUME TransactionsInv, OverlapsInv, NEW t \in Threads, LockStock(t)
    PROVE  OverlapsInv'
<1>1. /\ tx'[t] = [tx[t] EXCEPT !.locked = Request[tx[t].order].product,
                               !.seen = stock[Request[tx[t].order].product]]
      /\ \A u \in Threads \ {t} : tx'[u] = tx[u]
  BY TxSteps
<1>2. UNCHANGED <<stock, rows, inventoryOutbox, supplied, overlaps>>
  BY DEF LockStock, tables
<1>3. tx[t] \in [job: Jobs \cup {"none"}, order: OrderIds \cup {None},
                locked: Products \cup {None}, seen: Nat]
  BY DEF TransactionsInv, TransactionsTypeOK
<1>4. tx'[t].job = tx[t].job /\ tx'[t].order = tx[t].order
  BY <1>1, <1>3
<1>5. QuietRows
  BY <1>2, SameTables
<1>6. Releasing' = Releasing /\ Awaited' = Awaited
  BY <1>1, <1>4, <1>5, SameReleases
<1>7. Spare' = Spare /\ Spare \in Int
  BY <1>2, <1>6, Counts DEF Spare
<1> QED
  BY <1>2, <1>5, <1>7, ExcessStays

\* COMMIT of anything but a release leaves the releases as they were.
LEMMA OtherCommits ==
    ASSUME TransactionsInv, NEW t \in Threads, CommitsOf(t), tx[t].job # "release",
           QuietRows \/ \A o \in OrderIds : Released(o)' <=> Released(o)
    PROVE  Spare' = Spare /\ Spare \in Int
<1>1. /\ tx'[t] = NoTx /\ UNCHANGED overlaps
      /\ \A u \in Threads \ {t} : tx'[u] = tx[u]
  BY CommitFacts
<1>2. Releasing' = Releasing
  BY <1>1 DEF Releasing, NoTx
<1>3. \A u \in Releasing : tx'[u].order = tx[u].order
  BY <1>1 DEF Releasing
<1>4. Awaited' = Awaited
  BY <1>2, <1>3 DEF Awaited, QuietRows
<1> QED
  BY <1>1, <1>2, <1>4, Counts DEF Spare

\* An event that is no release releases no order.
LEMMA NoRelease ==
    ASSUME NEW e, inventoryOutbox' = inventoryOutbox \cup {e}, e.topic # "inventory.released"
    PROVE  \A o \in OrderIds : Released(o)' <=> Released(o)
  BY DEF Released, Atomic!AlreadyProcessed

\* The status of the first row is written: there are as many rows as before.
LEMMA RowsWritten ==
    ASSUME TransactionsInv, NEW o \in OrderIds, NEW status \in RowStatuses, rows[o] # <<>>,
           rows' = [rows EXCEPT ![o][1] = status]
    PROVE  /\ \A x \in OrderIds \ {o} : rows'[x] = rows[x]
           /\ rows'[o] # <<>> /\ Len(rows'[o]) = Len(rows[o])
           /\ Len(rows[o]) \in Nat \ {0}
<1>1. rows \in [OrderIds -> Seq(RowStatuses)]
  BY DEF TransactionsInv, TransactionsTypeOK, RowStatuses
<1>2. rows[o] \in Seq(RowStatuses)
  BY <1>1
<1>3. Len(rows[o]) \in Nat \ {0} /\ 1 \in 1 .. Len(rows[o])
  BY <1>2, EmptySeq
<1>4. Len([rows[o] EXCEPT ![1] = status]) = Len(rows[o])
  BY <1>2, <1>3, ExceptSeq
<1>5. [rows[o] EXCEPT ![1] = status] # <<>>
  BY <1>2, StatusWritten
<1>6. rows'[o] = [rows[o] EXCEPT ![1] = status]
  BY <1>1
<1> QED
  BY <1>1, <1>3, <1>4, <1>5, <1>6

\* A confirmation moves no unit.
LEMMA ConfirmOverlaps ==
    ASSUME TransactionsInv, OverlapsInv, NEW t \in Threads, CommitConfirm(t)
    PROVE  OverlapsInv'
<1>o. PICK o : o = tx[t].order
  OBVIOUS
<1>1. tx[t].job = "confirm" /\ UNCHANGED <<stock, supplied, inventoryOutbox>>
  BY DEF CommitConfirm, CommitTx
<1>2. o \in OrderIds /\ rows[o] # <<>>
  BY <1>o, <1>1, TxFacts DEF TransactionsInv, ReservationsStay
<1>3. rows' = [rows EXCEPT ![o][1] = "CONFIRMED"]
  BY <1>o DEF CommitConfirm
<1>4. /\ \A x \in OrderIds \ {o} : rows'[x] = rows[x]
      /\ rows'[o] # <<>> /\ Len(rows'[o]) = Len(rows[o])
  BY <1>2, <1>3, RowsWritten DEF RowStatuses
<1>5. QuietRows
  BY <1>1, <1>2, <1>4 DEF QuietRows, Released, Atomic!AlreadyProcessed
<1>6. Spare' = Spare /\ Spare \in Int
  BY <1>1, <1>5, OtherCommits DEF CommitsOf
<1> QED
  BY <1>1, <1>5, <1>6, ExcessStays

\* A reservation takes its units from the stock; a refusal none.
LEMMA ReserveOverlaps ==
    ASSUME TransactionsInv, OverlapsInv, NEW t \in Threads, CommitReserve(t)
    PROVE  OverlapsInv'
<1>o. PICK o : o = tx[t].order
  OBVIOUS
<1>1. tx[t].job = "reserve" /\ tx[t].locked # None /\ UNCHANGED supplied
  BY DEF CommitReserve, CommitTx
<1>2. PICK p \in Products : p = Request[o].product
  BY <1>o, <1>1, TxFacts
<1>3. PICK q \in Int : q = Request[o].quantity
  BY <1>o, <1>1, TxFacts
<1>4. o \in OrderIds /\ tx[t].seen = stock[p] /\ stock[p] \in Nat
  BY <1>o, <1>1, <1>2, TxFacts
<1>5. CASE /\ inventoryOutbox' = inventoryOutbox
                                   \cup {InsufficientStock(o, "INSUFFICIENT_STOCK")}
           /\ UNCHANGED <<stock, rows>>
  <2>1. \A x \in OrderIds : Released(x)' <=> Released(x)
    <3>1. PICK e : e = InsufficientStock(o, "INSUFFICIENT_STOCK")
      OBVIOUS
    <3>2. e.topic # "inventory.released"
      BY <3>1 DEF InsufficientStock
    <3>3. inventoryOutbox' = inventoryOutbox \cup {e}
      BY <1>5, <3>1
    <3> QED
      BY <3>2, <3>3, NoRelease
  <2>2. QuietRows
    BY <1>5, <2>1 DEF QuietRows
  <2>3. Spare' = Spare /\ Spare \in Int
    BY <1>1, <2>2, OtherCommits DEF CommitsOf
  <2> QED
    BY <1>1, <1>5, <2>2, <2>3, ExcessStays
<1>6. CASE /\ stock[p] >= q /\ q > 0
           /\ stock' = [stock EXCEPT ![p] = stock[p] - q]
           /\ rows' = [rows EXCEPT ![o] = Append(@, "RESERVED")]
           /\ inventoryOutbox' = inventoryOutbox \cup
                {InventoryReserved(o, Atomic!Wrap(PriceOf[p] * q), Request[o].paymentType)}
  <2>1. \A x \in OrderIds : Released(x)' <=> Released(x)
    <3>1. PICK e : e = InventoryReserved(o, Atomic!Wrap(PriceOf[p] * q),
                                   Request[o].paymentType)
      OBVIOUS
    <3>2. e.topic # "inventory.released"
      BY <3>1 DEF InventoryReserved
    <3>3. inventoryOutbox' = inventoryOutbox \cup {e}
      BY <1>6, <3>1
    <3> QED
      BY <3>2, <3>3, NoRelease
  <2>2. Spare' = Spare /\ Spare \in Int
    BY <1>1, <2>1, OtherCommits DEF CommitsOf
  <2>3. rows[o] \in Seq(RowStatuses) /\ "RESERVED" \in RowStatuses
    BY <1>4 DEF TransactionsInv, TransactionsTypeOK, RowStatuses
  <2>4. /\ \A x \in OrderIds \ {o} : rows'[x] = rows[x]
        /\ rows'[o] # <<>> /\ Len(rows'[o]) = Len(rows[o]) + 1 /\ Len(rows[o]) \in Nat
    <3>1. Append(rows[o], "RESERVED") # <<>> /\ Len(Append(rows[o], "RESERVED")) = Len(rows[o]) + 1
      BY <2>3, AppendProperties, Zenon
    <3>2. Len(rows[o]) \in Nat
      BY <2>3, LenProperties
    <3> QED
      BY <1>4, <1>6, <3>1, <3>2 DEF TransactionsInv, TransactionsTypeOK
  <2>5. stock[p] < HalfRange /\ q \in 1 .. HalfRange - 1
    BY <1>4, <1>6, StockTransactionsInputs DEF OverlapsInv, RowsAreBacked
  <2>6. stock'[p] = stock[p] - q /\ \A y \in Products \ {p} : stock'[y] = stock[y]
    BY <1>6 DEF TransactionsInv, TransactionsTypeOK
  <2>7. RowsAreBacked'
    <3>1. \A y \in Products : stock'[y] < HalfRange
      BY <1>4, <2>5, <2>6, StockTransactionsInputs DEF OverlapsInv, RowsAreBacked
    <3>2. \A x \in OrderIds : rows'[x] # <<>> => Request[x].quantity \in 1 .. HalfRange - 1
      BY <1>3, <2>4, <2>5 DEF OverlapsInv, RowsAreBacked
    <3>3. \A x \in OrderIds : Released(x)' => rows'[x] # <<>>
      BY <2>1, <2>4 DEF OverlapsInv, RowsAreBacked
    <3> QED
      BY <3>1, <3>2, <3>3 DEF RowsAreBacked
  <2>8. \A x \in OrderIds \ {o} : HeldRows(x)' = HeldRows(x)
    BY <2>1, <2>4 DEF HeldRows, Released
  <2>9. PICK j \in Int : j = Len(rows[o]) + 1
    BY <2>4
  <2>10. j \notin HeldRows(o) /\ HeldRows(o)' = HeldRows(o) \cup {j}
    <3>1. CASE Released(o)
      <4>1. rows[o] # <<>> /\ Released(o)'
        BY <1>4, <2>1, <3>1 DEF OverlapsInv, RowsAreBacked
      <4>2. Len(rows[o]) >= 1
        BY <2>3, <2>4, <4>1, EmptySeq
      <4>3. HeldRows(o) = 2 .. Len(rows[o]) /\ HeldRows(o)' = 2 .. Len(rows'[o])
        BY <3>1, <4>1 DEF HeldRows, Released
      <4> QED
        BY <2>4, <2>9, <4>2, <4>3
    <3>2. CASE ~Released(o)
      <4>1. HeldRows(o) = 1 .. Len(rows[o]) /\ HeldRows(o)' = 1 .. Len(rows'[o])
        BY <1>4, <2>1, <3>2 DEF HeldRows, Released
      <4> QED
        BY <2>4, <2>9, <4>1
    <3> QED
      BY <3>1, <3>2
  <2>11. IsFiniteSet(HeldUnits(p)) /\ 0 <= Excess(p) /\ Excess(p) <= Spare * MaxQuantity
    BY DEF OverlapsInv, ExcessIsBounded
  <2>12. /\ IsFiniteSet(HeldUnits(p)')
         /\ Cardinality(HeldUnits(p)') = Cardinality(HeldUnits(p)) + Request[o].quantity
    <3>1. Request[o].quantity \in Nat
      BY <1>3, <2>5
    <3> QED
      BY <1>2, <1>4, <2>8, <2>10, <2>11, <3>1, HeldGains
  <2>13. Cardinality(HeldUnits(p)) \in Nat /\ supplied[p] \in Int
    BY <2>11, FS_CardinalityType DEF TransactionsInv, TransactionsTypeOK
  <2>14. Excess(p)' = Excess(p)
    BY <1>1, <1>3, <1>4, <2>6, <2>12, <2>13 DEF Excess
  <2>15. ASSUME NEW y \in Products, y # p
         PROVE  HeldUnits(y)' = HeldUnits(y) /\ Excess(y)' = Excess(y)
    <3>1. HeldUnits(y)' = HeldUnits(y)
      BY <1>2, <2>8, <2>15, SameHeld
    <3> QED
      BY <1>1, <2>6, <2>15, <3>1 DEF Excess
  <2>16. ExcessIsBounded'
    BY <2>2, <2>11, <2>12, <2>14, <2>15 DEF OverlapsInv, ExcessIsBounded
  <2> QED
    BY <2>7, <2>16 DEF OverlapsInv
<1> QED
  BY <1>o, <1>2, <1>3, <1>4, <1>5, <1>6 DEF CommitReserve

\* A small sum does not overflow, a larger one becomes negative.
LEMMA WrapOfSum ==
    ASSUME NEW n \in 0 .. 2 * HalfRange - 1
    PROVE  /\ n < HalfRange => Atomic!Wrap(n) = n
           /\ n >= HalfRange => Atomic!Wrap(n) < 0
  BY StockTransactionsInputs DEF Atomic!Wrap

\* A release of an order that was not released takes the units of its first row out of
\* what is held; one of an order that was, finds nothing there, and costs an overlap.
LEMMA ReleaseOverlaps ==
    ASSUME TransactionsInv, OverlapsInv, NEW t \in Threads, NEW reason \in Denials,
           CommitRelease(t, reason)
    PROVE  OverlapsInv'
<1>o. PICK o : o = tx[t].order
  OBVIOUS
<1>1. tx[t].job = "release" /\ tx[t].locked # None /\ UNCHANGED <<supplied, overlaps>>
  BY DEF CommitRelease, CommitTx
<1>2. PICK p \in Products : p = Request[o].product
  BY <1>o, <1>1, TxFacts
<1>3. PICK q \in Int : q = Request[o].quantity
  BY <1>o, <1>1, TxFacts
<1>4. o \in OrderIds /\ tx[t].seen = stock[p] /\ stock[p] \in Nat /\ rows[o] # <<>>
  BY <1>o, <1>1, <1>2, TxFacts DEF TransactionsInv, ReservationsStay
<1>5. /\ stock[p] < HalfRange /\ q \in 1 .. HalfRange - 1 /\ q <= MaxQuantity
      /\ supplied[p] \in Int /\ MaxQuantity \in Nat
  BY <1>3, <1>4, StockTransactionsInputs
  DEF OverlapsInv, RowsAreBacked, TransactionsInv, TransactionsTypeOK
<1>6. Atomic!Wrap(stock[p] + q) = stock[p] + q /\ stock[p] + q < HalfRange
  <2>1. Atomic!Wrap(stock[p] + q) >= 0
    BY <1>o, <1>2, <1>3, <1>4 DEF CommitRelease
  <2>2. stock[p] + q \in 0 .. 2 * HalfRange - 1
    BY <1>4, <1>5, StockTransactionsInputs
  <2>3. Atomic!Wrap(stock[p] + q) \in Int
    BY <2>2, WrapType
  <2> QED
    BY <2>1, <2>2, <2>3, WrapOfSum, StockTransactionsInputs
<1>7. stock'[p] = stock[p] + q /\ \A y \in Products \ {p} : stock'[y] = stock[y]
  BY <1>o, <1>2, <1>3, <1>4, <1>6 DEF CommitRelease, TransactionsInv, TransactionsTypeOK
<1>8. /\ \A x \in OrderIds \ {o} : rows'[x] = rows[x]
      /\ rows'[o] # <<>> /\ Len(rows'[o]) = Len(rows[o]) /\ Len(rows[o]) \in Nat \ {0}
  <2>1. rows' = [rows EXCEPT ![o][1] = "RELEASED"]
    BY <1>o DEF CommitRelease
  <2> QED
    BY <1>4, <2>1, RowsWritten DEF RowStatuses
<1>9. Released(o)' /\ \A x \in OrderIds \ {o} : Released(x)' <=> Released(x)
  <2>1. PICK e : e = InventoryReleased(o, reason)
    OBVIOUS
  <2>2. e.topic = "inventory.released" /\ e.order = o
    BY <2>1 DEF InventoryReleased
  <2>3. inventoryOutbox' = inventoryOutbox \cup {e}
    BY <1>o, <2>1 DEF CommitRelease
  <2> QED
    BY <2>2, <2>3 DEF Released, Atomic!AlreadyProcessed
<1>10. RowsAreBacked'
  <2>1. \A y \in Products : stock'[y] < HalfRange
    BY <1>6, <1>7 DEF OverlapsInv, RowsAreBacked
  <2>2. \A x \in OrderIds : rows'[x] # <<>> => Request[x].quantity \in 1 .. HalfRange - 1
    BY <1>3, <1>5, <1>8 DEF OverlapsInv, RowsAreBacked
  <2>3. \A x \in OrderIds : Released(x)' => rows'[x] # <<>>
    BY <1>8, <1>9 DEF OverlapsInv, RowsAreBacked
  <2> QED
    BY <2>1, <2>2, <2>3 DEF RowsAreBacked
<1>11. \A x \in OrderIds \ {o} : HeldRows(x)' = HeldRows(x)
  BY <1>8, <1>9 DEF HeldRows, Released
<1>12. HeldRows(o)' = 2 .. Len(rows[o])
  BY <1>8, <1>9 DEF HeldRows, Released
<1>13. IsFiniteSet(HeldUnits(p)) /\ 0 <= Excess(p) /\ Excess(p) <= Spare * MaxQuantity
  BY DEF OverlapsInv, ExcessIsBounded
<1>14. Cardinality(HeldUnits(p)) \in Nat
  BY <1>13, FS_CardinalityType
<1>15. ASSUME NEW y \in Products, y # p
       PROVE  /\ HeldUnits(y)' = HeldUnits(y) /\ Excess(y)' = Excess(y) /\ Excess(y) \in Int
              /\ IsFiniteSet(HeldUnits(y)) /\ 0 <= Excess(y) /\ Excess(y) <= Spare * MaxQuantity
  <2>1. HeldUnits(y)' = HeldUnits(y)
    BY <1>2, <1>11, <1>15, SameHeld
  <2>2. Excess(y)' = Excess(y)
    BY <1>1, <1>7, <1>15, <2>1 DEF Excess
  <2>3. IsFiniteSet(HeldUnits(y)) /\ 0 <= Excess(y) /\ Excess(y) <= Spare * MaxQuantity
    BY DEF OverlapsInv, ExcessIsBounded
  <2>4. Excess(y) \in Int
    BY <2>3, FS_CardinalityType DEF Excess, TransactionsInv, TransactionsTypeOK
  <2> QED
    BY <2>1, <2>2, <2>3, <2>4
<1>16. /\ IsFiniteSet(Releasing) /\ IsFiniteSet(Awaited)
       /\ Cardinality(Releasing) \in Nat /\ Cardinality(Awaited) \in Nat
       /\ overlaps \in Nat /\ Spare \in Int
  BY Counts
<1>17. /\ tx'[t] = NoTx /\ \A u \in Threads \ {t} : tx'[u] = tx[u]
  BY CommitFacts DEF CommitsOf
<1>18. Releasing' = Releasing \ {t} /\ t \in Releasing
  BY <1>1, <1>17 DEF Releasing, NoTx
<1>19. Cardinality(Releasing') = Cardinality(Releasing) - 1
  <2>1. Cardinality(Releasing \ {t}) = Cardinality(Releasing) - 1
    BY <1>16, <1>18, FS_RemoveElement
  <2> QED
    BY <1>18, <2>1
<1>20. Awaited' = Awaited \ {o}
  <2>1. \A u \in Releasing' : tx'[u].order = tx[u].order
    BY <1>17, <1>18 DEF Releasing
  <2>2. \A x \in OrderIds \ {o} :
           (\E u \in Releasing' : tx'[u].order = x) <=> \E u \in Releasing : tx[u].order = x
    BY <1>o, <1>18, <2>1
  <2> QED
    BY <1>9, <2>2 DEF Awaited
<1>21. CASE ~Released(o)
  <2>1. o \in Awaited
    BY <1>o, <1>4, <1>18, <1>21 DEF Awaited
  <2>2. Cardinality(Awaited') = Cardinality(Awaited) - 1
    <3>1. Cardinality(Awaited \ {o}) = Cardinality(Awaited) - 1
      BY <1>16, <2>1, FS_RemoveElement
    <3> QED
      BY <1>20, <3>1
  <2>3. Spare' = Spare
    BY <1>1, <1>16, <1>19, <2>2 DEF Spare
  <2>4. PICK j \in Int : j = 1
    OBVIOUS
  <2>5. j \in HeldRows(o) /\ HeldRows(o)' = HeldRows(o) \ {j}
    <3>1. HeldRows(o) = 1 .. Len(rows[o])
      BY <1>21 DEF HeldRows, Released
    <3> QED
      BY <1>8, <1>12, <2>4, <3>1
  <2>6. /\ IsFiniteSet(HeldUnits(p)')
        /\ Cardinality(HeldUnits(p)') = Cardinality(HeldUnits(p)) - Request[o].quantity
    <3>1. Request[o].quantity \in Nat
      BY <1>3, <1>5
    <3> QED
      BY <1>2, <1>4, <1>11, <1>13, <2>5, <3>1, HeldLoses
  <2>7. Excess(p)' = Excess(p)
    BY <1>1, <1>3, <1>4, <1>5, <1>7, <1>14, <2>6 DEF Excess
  <2>8. ExcessIsBounded'
    BY <1>13, <1>15, <2>3, <2>6, <2>7 DEF ExcessIsBounded
  <2> QED
    BY <1>10, <2>8 DEF OverlapsInv
<1>22. CASE Released(o)
  <2>1. Awaited' = Awaited
    BY <1>20, <1>22 DEF Awaited
  <2>2. Spare' = Spare + 1
    BY <1>1, <1>16, <1>19, <2>1 DEF Spare
  <2>3. HeldRows(o)' = HeldRows(o)
    BY <1>12, <1>22 DEF HeldRows, Released
  <2>4. HeldUnits(p)' = HeldUnits(p)
    BY <1>11, <2>3, SameHeld
  <2>5. Excess(p)' = Excess(p) + q /\ Excess(p) \in Int
    BY <1>1, <1>4, <1>5, <1>7, <1>14, <2>4 DEF Excess
  <2>6. Spare' * MaxQuantity = Spare * MaxQuantity + MaxQuantity
    BY <1>5, <1>16, <2>2
  <2>7. Spare * MaxQuantity \in Int
    BY <1>5, <1>16
  <2>8. 0 <= Excess(p)' /\ Excess(p)' <= Spare' * MaxQuantity
    BY <1>5, <1>13, <2>5, <2>6, <2>7
  <2>9. ASSUME NEW y \in Products, y # p PROVE Excess(y)' <= Spare' * MaxQuantity
    BY <1>5, <1>15, <2>6, <2>7, <2>9
  <2>10. ExcessIsBounded'
    BY <1>13, <1>15, <2>4, <2>8, <2>9 DEF ExcessIsBounded
  <2> QED
    BY <1>10, <2>10 DEF OverlapsInv
<1> QED
  BY <1>21, <1>22

\* PATCH changes the stock and what was supplied by as much.
LEMMA UpdateOverlaps ==
    ASSUME TransactionsInv, OverlapsInv, NEW p \in Products, NEW q \in StockLevels,
           UpdateStockQuantity(p, q)
    PROVE  OverlapsInv'
<1>1. /\ q \in 0 .. HalfRange - 1 /\ stock[p] \in Nat
      /\ stock \in [Products -> Nat] /\ supplied \in [Products -> Int]
  BY StockTransactionsInputs DEF TransactionsInv, TransactionsTypeOK
<1>2. /\ stock'[p] = q /\ \A y \in Products \ {p} : stock'[y] = stock[y]
      /\ supplied'[p] = supplied[p] + q - stock[p]
      /\ \A y \in Products \ {p} : supplied'[y] = supplied[y]
      /\ UNCHANGED <<rows, inventoryOutbox, tx, overlaps>>
  BY <1>1 DEF UpdateStockQuantity
<1>3. QuietRows
  BY <1>2, SameTables
<1>4. RowsAreBacked'
  <2>1. ASSUME NEW y \in Products PROVE stock'[y] < HalfRange
    <3>1. stock[y] < HalfRange /\ HalfRange \in Nat
      BY StockTransactionsInputs DEF OverlapsInv, RowsAreBacked
    <3>2. q < HalfRange
      BY <1>1, <3>1
    <3> QED
      BY <1>2, <3>1, <3>2
  <2>2. ASSUME NEW o \in OrderIds
        PROVE  /\ rows'[o] # <<>> => Request[o].quantity \in 1 .. HalfRange - 1
               /\ Released(o)' => rows'[o] # <<>>
    BY <1>3 DEF OverlapsInv, RowsAreBacked, QuietRows
  <2> QED
    BY <2>1, <2>2 DEF RowsAreBacked
<1>5. Spare' = Spare
  BY <1>2, <1>3, SameReleases DEF Spare
<1>6. ASSUME NEW y \in Products
      PROVE  HeldUnits(y)' = HeldUnits(y) /\ Excess(y)' = Excess(y)
  <2>1. HeldUnits(y)' = HeldUnits(y)
    BY <1>3, QuietHeld
  <2>2. Cardinality(HeldUnits(y)) \in Nat
    BY FS_CardinalityType DEF OverlapsInv, ExcessIsBounded
  <2> QED
    BY <1>1, <1>2, <2>1, <2>2 DEF Excess
<1> QED
  BY <1>4, <1>5, <1>6 DEF OverlapsInv, ExcessIsBounded

\* At the start nothing is held, and the stock is what was supplied.
LEMMA InitOverlaps == TransactionsInit => OverlapsInv
<1> SUFFICES ASSUME TransactionsInit PROVE OverlapsInv
  OBVIOUS
<1> USE StockTransactionsInputs DEF TransactionsInit
<1>1. \A o \in OrderIds : ~Released(o) /\ rows[o] = <<>>
  BY DEF Released, Atomic!AlreadyProcessed
<1>2. RowsAreBacked
  <2>1. \A p \in Products : stock[p] \in 0 .. HalfRange - 1
    OBVIOUS
  <2> QED
    BY <1>1, <2>1 DEF RowsAreBacked
<1>3. \A p : HeldUnits(p) = {}
  <2>1. ASSUME NEW o \in OrderIds PROVE HeldRows(o) = {}
    <3>1. HeldRows(o) = 1 .. Len(<<>>)
      BY <1>1 DEF HeldRows, Released
    <3> QED
      BY <3>1
  <2>2. ASSUME NEW p, NEW u PROVE u \notin HeldUnits(p)
    BY <2>1, HeldByARow
  <2> QED
    BY <2>2
<1>4. Releasing = {} /\ Awaited = {}
  BY DEF Releasing, Awaited, NoTx
<1>5. Spare = 0
  BY <1>4, FS_EmptySet DEF Spare
<1>6. ASSUME NEW p \in Products PROVE IsFiniteSet(HeldUnits(p)) /\ Excess(p) = 0
  <2>1. IsFiniteSet(HeldUnits(p)) /\ Cardinality(HeldUnits(p)) = 0
    BY <1>3, FS_EmptySet
  <2>2. stock[p] \in Int /\ supplied[p] = stock[p]
    OBVIOUS
  <2> QED
    BY <2>1, <2>2 DEF Excess
<1>7. 0 * MaxQuantity = 0
  OBVIOUS
<1> QED
  BY <1>2, <1>5, <1>6, <1>7 DEF OverlapsInv, ExcessIsBounded

\* Every step keeps the harm within the overlaps spent on it.
LEMMA NextOverlaps ==
    TransactionsInv /\ OverlapsInv /\ [TransactionsNext]_stockVars => OverlapsInv'
<1> SUFFICES ASSUME TransactionsInv, OverlapsInv, [TransactionsNext]_stockVars
             PROVE  OverlapsInv'
  OBVIOUS
<1>1. CASE UNCHANGED stockVars
  <2>1. UNCHANGED <<stock, rows, inventoryOutbox, supplied, tx, overlaps>>
    BY <1>1 DEF stockVars, tables
  <2>2. QuietRows
    BY <2>1, SameTables
  <2>3. Spare' = Spare /\ Spare \in Int
    BY <2>1, <2>2, SameReleases, Counts DEF Spare
  <2> QED
    BY <2>1, <2>2, <2>3, ExcessStays
<1> QED
  BY <1>1, BeginOverlaps, LockOverlaps, ReserveOverlaps, ConfirmOverlaps, RollbackOverlaps,
     ReleaseOverlaps, UpdateOverlaps
  DEF TransactionsNext

---------------------------------------------------------------------------
\* Every reachable state has the types: no stock is negative, and no more messages
\* are in two hands than the failure detector is wrong about.
THEOREM TransactionsTypeCorrect == TransactionsSpec => []TransactionsTypeOK
<1>1. TransactionsInv => TransactionsTypeOK
  BY DEF TransactionsInv
<1> QED
  BY TransactionsInvHolds, <1>1, PTL

\* The transactions of any number of threads, statement by statement, do to the tables
\* what Inventory's ReserveStock, ReleaseStock, ConfirmReservation and
\* UpdateStockQuantity do in one step, while no message is in the hands of two threads.
THEOREM TransactionsAreAtomic == TransactionsSpec => StepsAreAtomic
<1>1. TransactionsInv /\ [TransactionsNext]_stockVars
        => [overlaps = 0 => Atomic!InventoryNext]_(Atomic!inventoryVars)
  BY StepIsAtomic
<1> QED
  BY TransactionsInvHolds, <1>1, PTL DEF TransactionsSpec, StepsAreAtomic

\* A message that two threads have in hand does limited harm: whatever begins, waits,
\* is rolled back or commits in the meantime, CommitRelease gives no unit back that was
\* not taken, but for the units of one order per overlap.
THEOREM OverlapsDoLimitedHarm == TransactionsSpec => []OverlapsAreBounded
<1>1. TransactionsInv /\ OverlapsInv => OverlapsAreBounded
  <2> SUFFICES ASSUME TransactionsInv, OverlapsInv PROVE OverlapsAreBounded
    OBVIOUS
  <2>1. Spare \in Int /\ overlaps \in Nat /\ Spare <= overlaps
    BY Counts DEF Spare
  <2>2. ASSUME NEW p \in Products
        PROVE  /\ stock[p] + Cardinality(HeldUnits(p)) >= supplied[p]
               /\ stock[p] + Cardinality(HeldUnits(p)) <= supplied[p] + overlaps * MaxQuantity
    <3>1. IsFiniteSet(HeldUnits(p)) /\ 0 <= Excess(p) /\ Excess(p) <= Spare * MaxQuantity
      BY DEF OverlapsInv, ExcessIsBounded
    <3>2. /\ Cardinality(HeldUnits(p)) \in Nat /\ stock[p] \in Nat /\ supplied[p] \in Int
          /\ Excess(p) \in Int
      BY <3>1, FS_CardinalityType DEF Excess, TransactionsInv, TransactionsTypeOK
    <3>3. Excess(p) <= overlaps * MaxQuantity
      BY <2>1, <3>1, <3>2, MoreToSpare
    <3>4. overlaps * MaxQuantity \in Int
      BY <2>1, StockTransactionsInputs
    <3> QED
      BY <3>1, <3>2, <3>3, <3>4 DEF Excess
  <2> QED
    BY <2>2 DEF OverlapsAreBounded
<1>2. TransactionsInit => OverlapsInv
  BY InitOverlaps
<1>3. TransactionsInv /\ OverlapsInv /\ [TransactionsNext]_stockVars => OverlapsInv'
  BY NextOverlaps
<1> QED
  BY <1>1, <1>2, <1>3, TransactionsInvHolds, PTL DEF TransactionsSpec
===========================================================================

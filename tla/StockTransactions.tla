------------------------- MODULE StockTransactions -------------------------
(***************************************************************************)
(* The transactions of inventory-service, statement by statement, as the   *)
(* listener threads of its instances and the web threads run them side by  *)
(* side on Postgres (READ COMMITTED).  Inventory takes each as one step;   *)
(* here the idempotency check is one statement, SELECT ... FOR UPDATE on   *)
(* the stock row another, and COMMIT, which Hibernate precedes with all    *)
(* the writes, a third.                                                    *)
(*                                                                         *)
(* Two threads work on the same message only when a listener is taken for  *)
(* dead while it is in the middle of one (session.timeout.ms, 30 s, or     *)
(* max.poll.interval.ms, 300 s): MaxOverlaps bounds how often.  Products   *)
(* and their stock rows exist from the start and are never deleted.        *)
(***************************************************************************)
EXTENDS SagaEvents, Sequences, FiniteSets

CONSTANTS
    Threads,      \* the listener threads of the instances
    PriceOf,      \* the price of each product
    FirstStock,   \* the stock of each product at the start
    StockLevels,  \* the quantities administrators PATCH
    Request,      \* what each order asks for: product, quantity, paymentType
    MaxQuantity,  \* the most units that an order asks for
    HalfRange,    \* as in Inventory
    MaxOverlaps   \* bound: messages handed to a second thread too early

ASSUME StockTransactionsInputs ==
    /\ IsFiniteSet(Threads)
    /\ HalfRange \in Nat \ {0}
    /\ PriceOf \in [Products -> 0 .. HalfRange - 1]
    /\ FirstStock \in [Products -> 0 .. HalfRange - 1]
    /\ StockLevels \subseteq 0 .. HalfRange - 1
    /\ Request \in [OrderIds -> [product: Products, quantity: Quantities,
                                 paymentType: PaymentTypes]]
    /\ MaxQuantity \in Nat
    /\ \A o \in OrderIds : Request[o].quantity <= MaxQuantity
    /\ MaxOverlaps \in Nat

VARIABLES
    stock,            \* the stocks table: quantity_available of each product
    rows,             \* the stock_reservations table: per order, its rows' statuses
    inventoryOutbox,  \* the events of the outbox table
    supplied,         \* history: units administrators put in, net, per product
    tx,               \* per thread: its transaction, and what it has read
    overlaps          \* history: how many messages were handed out too early

tables == <<stock, rows, inventoryOutbox, supplied>>
stockVars == <<tables, tx, overlaps>>

Jobs == {"reserve", "release", "confirm"}

\* No transaction; and one for an order that has not read the stock row.
NoTx == [job |-> "none", order |-> None, locked |-> None, seen |-> 0]
TxFor(job, o) == [job |-> job, order |-> o, locked |-> None, seen |-> 0]

TransactionsTypeOK ==
    /\ stock \in [Products -> Nat]
    /\ rows \in [OrderIds -> Seq({"RESERVED", "CONFIRMED", "RELEASED"})]
    /\ supplied \in [Products -> Int]
    /\ tx \in [Threads -> [job: Jobs \cup {"none"}, order: OrderIds \cup {None},
                           locked: Products \cup {None}, seen: Nat]]
    /\ overlaps \in 0..MaxOverlaps

\* The tables as Inventory has them.
Atomic == INSTANCE Inventory WITH
    prices <- PriceOf,
    Prices <- {PriceOf[p] : p \in Products},
    reservations <- [o \in OrderIds |->
        IF rows[o] = <<>> THEN [status |-> "none", product |-> None, quantity |-> 0]
        ELSE [status |-> rows[o][1], product |-> Request[o].product,
              quantity |-> Request[o].quantity]]

TransactionsInit ==
    /\ stock = FirstStock
    /\ rows = [o \in OrderIds |-> <<>>]
    /\ inventoryOutbox = {}
    /\ supplied = FirstStock
    /\ tx = [t \in Threads |-> NoTx]
    /\ overlaps = 0

---------------------------------------------------------------------------
\* existsByAggregateIdAndAggregateType, on what is committed.
Unanswered(job, o) ==
    ~Atomic!AlreadyProcessed(o, CASE job = "reserve" -> {"inventory.reserved",
                                                         "inventory.insufficient-stock"}
                                  [] job = "release" -> {"inventory.released"}
                                  [] job = "confirm" -> {})

\* findByOrderId: a second row makes it throw, and the transaction roll back.
FindsReservation(job, o) == job # "reserve" => Len(rows[o]) = 1

\* The reads before the lock.  Nothing they read of the order is ever undone.
Begin(t, job, o) ==
    LET others == {u \in Threads : tx[u].job = job /\ tx[u].order = o} IN
    /\ tx[t] = NoTx
    /\ Unanswered(job, o)
    /\ FindsReservation(job, o)
    /\ overlaps + Cardinality(others) <= MaxOverlaps
    /\ overlaps' = overlaps + Cardinality(others)
    /\ tx' = [tx EXCEPT ![t] = TxFor(job, o)]
    /\ UNCHANGED tables

Locked(p) == \E t \in Threads : tx[t].locked = p

\* findByProductId in the place of findByProductIdWithLock.
LockStock_PlainRead(t) ==
    LET p == Request[tx[t].order].product IN
    /\ tx[t].job \in {"reserve", "release"}
    /\ tx[t].locked = None
    /\ tx' = [tx EXCEPT ![t].locked = p, ![t].seen = stock[p]]
    /\ UNCHANGED <<tables, overlaps>>

\* SELECT ... FOR UPDATE: waits for the row, reads its latest version.
LockStock(t) ==
    LET p == Request[tx[t].order].product IN
    /\ tx[t].job \in {"reserve", "release"}
    /\ tx[t].locked = None
    /\ ~Locked(p)
    /\ tx' = [tx EXCEPT ![t].locked = p, ![t].seen = stock[p]]
    /\ UNCHANGED <<tables, overlaps>>

\* What a transaction has read decides what it writes; COMMIT shows it.
CommitTx(t, job) ==
    /\ tx[t].job = job
    /\ job # "confirm" => tx[t].locked # None
    /\ tx' = [tx EXCEPT ![t] = NoTx]
    /\ UNCHANGED <<supplied, overlaps>>

CommitReserve(t) ==
    LET o == tx[t].order
        r == Request[o]
    IN  /\ CommitTx(t, "reserve")
        /\ \/ /\ tx[t].seen < r.quantity
              /\ inventoryOutbox' = inventoryOutbox
                                      \cup {InsufficientStock(o, "INSUFFICIENT_STOCK")}
              /\ UNCHANGED <<stock, rows>>
           \/ /\ tx[t].seen >= r.quantity /\ r.quantity > 0
              /\ stock' = [stock EXCEPT ![r.product] = tx[t].seen - r.quantity]
              /\ rows' = [rows EXCEPT ![o] = Append(@, "RESERVED")]
              /\ inventoryOutbox' = inventoryOutbox \cup
                   {InventoryReserved(o, Atomic!Wrap(PriceOf[r.product] * r.quantity),
                                      r.paymentType)}

\* ReleaseStock on a database without CHECK (quantity_available >= 0).
CommitRelease_NoCheck(t, reason) ==
    LET o == tx[t].order
        r == Request[o]
    IN  /\ CommitTx(t, "release")
        /\ stock' = [stock EXCEPT ![r.product] = Atomic!Wrap(tx[t].seen + r.quantity)]
        /\ rows' = [rows EXCEPT ![o][1] = "RELEASED"]
        /\ inventoryOutbox' = inventoryOutbox \cup {InventoryReleased(o, reason)}

CommitRelease(t, reason) ==
    LET o == tx[t].order
        r == Request[o]
        restored == Atomic!Wrap(tx[t].seen + r.quantity)
    IN  /\ CommitTx(t, "release")
        /\ restored >= 0
        /\ stock' = [stock EXCEPT ![r.product] = restored]
        /\ rows' = [rows EXCEPT ![o][1] = "RELEASED"]
        /\ inventoryOutbox' = inventoryOutbox \cup {InventoryReleased(o, reason)}

CommitConfirm(t) ==
    /\ CommitTx(t, "confirm")
    /\ rows' = [rows EXCEPT ![tx[t].order][1] = "CONFIRMED"]
    /\ UNCHANGED <<stock, inventoryOutbox>>

\* Any exception, a violated CHECK, a crash, a lost connection.
Rollback(t) ==
    /\ tx[t] # NoTx
    /\ tx' = [tx EXCEPT ![t] = NoTx]
    /\ UNCHANGED <<tables, overlaps>>

\* PATCH is not transactional: its read has no lock and no influence, its UPDATE
\* waits for the row like any other and writes what the administrator said.
UpdateStockQuantity(p, quantity) ==
    /\ ~Locked(p)
    /\ stock' = [stock EXCEPT ![p] = quantity]
    /\ supplied' = [supplied EXCEPT ![p] = @ + quantity - stock[p]]
    /\ UNCHANGED <<rows, inventoryOutbox, tx, overlaps>>

TransactionsNext ==
    \/ \E t \in Threads, job \in Jobs, o \in OrderIds : Begin(t, job, o)
    \/ \E t \in Threads :
          LockStock(t) \/ CommitReserve(t) \/ CommitConfirm(t) \/ Rollback(t)
    \/ \E t \in Threads, reason \in Denials : CommitRelease(t, reason)
    \/ \E p \in Products, q \in StockLevels : UpdateStockQuantity(p, q)

TransactionsSpec == TransactionsInit /\ [][TransactionsNext]_stockVars

---------------------------------------------------------------------------
\* Side by side, the transactions do to the tables what Inventory does in one
\* step each, as long as no message was in the hands of two threads: the row lock
\* leaves no lost update, of PATCH neither, and what was read before the lock is
\* still good at COMMIT.
StepsAreAtomic ==
    [][overlaps = 0 => Atomic!InventoryNext]_(Atomic!inventoryVars)

\* The rows of an order's reservation that were not given back: a release, when it
\* was announced, gave back the first.
HeldRows(o) ==
    (IF Atomic!AlreadyProcessed(o, {"inventory.released"}) THEN 2 ELSE 1) .. Len(rows[o])

\* The units of p in these rows, numbered.
HeldUnits(p) ==
    UNION {{o} \X (HeldRows(o) \X (1 .. Request[o].quantity)) :
              o \in {x \in OrderIds : Request[x].product = p}}

\* A message that is processed twice at once does limited harm: no unit vanishes,
\* and each overlap gives the units of at most one order back twice.
OverlapsAreBounded ==
    \A p \in Products :
        /\ stock[p] + Cardinality(HeldUnits(p)) >= supplied[p]
        /\ stock[p] + Cardinality(HeldUnits(p)) <= supplied[p] + overlaps * MaxQuantity
===========================================================================

---------------------------- MODULE SagaOutcome ----------------------------
(***************************************************************************)
(* What the saga promises about an order, without services, messages or    *)
(* databases: the order's status, its goods and its money, and which step  *)
(* of one has to wait for which step of the others.  Saga implements it.   *)
(***************************************************************************)
CONSTANT OrderIds

VARIABLES
    status,  \* per order: what orders-service says of it
    goods,   \* per order: what inventory-service has done
    money    \* per order: what payments-service has done

outcomeVars == <<status, goods, money>>

OutcomeInit ==
    /\ status = [o \in OrderIds |-> "none"]
    /\ goods = [o \in OrderIds |-> "none"]
    /\ money = [o \in OrderIds |-> "none"]

Move(f, o, from, to) == f[o] = from /\ f' = [f EXCEPT ![o] = to]

Place(o) == Move(status, o, "none", "PENDING") /\ UNCHANGED <<goods, money>>

\* Inventory answers an order that was placed, once.
Answer(o, answer) ==
    /\ status[o] # "none"
    /\ Move(goods, o, "none", answer)
    /\ UNCHANGED <<status, money>>

\* The payment is decided once, and only for goods set aside.
Decide(o, decision) ==
    /\ goods[o] = "RESERVED"
    /\ Move(money, o, "none", decision)
    /\ UNCHANGED <<status, goods>>

Confirm(o) ==
    /\ money[o] = "AUTHORIZED"
    /\ Move(status, o, "PENDING", "CONFIRMED")
    /\ UNCHANGED <<goods, money>>

Take(o) ==
    /\ status[o] = "CONFIRMED"
    /\ Move(goods, o, "RESERVED", "CONFIRMED")
    /\ UNCHANGED <<status, money>>

Return(o) ==
    /\ money[o] = "DENIED"
    /\ Move(goods, o, "RESERVED", "RELEASED")
    /\ UNCHANGED <<status, money>>

Cancel(o) ==
    /\ goods[o] \in {"REFUSED", "RELEASED"}
    /\ Move(status, o, "PENDING", "CANCELED")
    /\ UNCHANGED <<goods, money>>

OutcomeNext ==
    \E o \in OrderIds :
        \/ Place(o)
        \/ \E answer \in {"RESERVED", "REFUSED"} : Answer(o, answer)
        \/ \E decision \in {"AUTHORIZED", "DENIED"} : Decide(o, decision)
        \/ Confirm(o) \/ Take(o) \/ Return(o) \/ Cancel(o)

OutcomeSpec == OutcomeInit /\ [][OutcomeNext]_outcomeVars
===========================================================================

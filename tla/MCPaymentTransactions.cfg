SPECIFICATION PaymentTransactionsSpec
CONSTANTS
    OrderIds = {o1, o2}
    Keys = {k1}
    Products = {p1}
    Quantities = {1}
    None = None
    Threads = {t1, t2, t3}
    Amounts = {10000, 10001}
CHECK_DEADLOCK FALSE
SYMMETRY Symmetry
INVARIANT PaymentTransactionsTypeOK
PROPERTY DecisionsAreAtomic

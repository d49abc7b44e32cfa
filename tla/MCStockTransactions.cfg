SPECIFICATION TransactionsSpec
CONSTANTS
    OrderIds = {o1, o2, o3}
    Keys = {k1}
    Products = {p1}
    Quantities = {2}
    None = None
    Threads = {t1, t2, t3}
    PriceOf <- SomePrices
    FirstStock <- SomeStock
    StockLevels = {0, 7}
    Request <- SomeRequests
    MaxQuantity = 2
    HalfRange = 8
    MaxOverlaps = 1
SYMMETRY Symmetry
INVARIANTS
    TransactionsTypeOK
    OverlapsAreBounded
PROPERTY StepsAreAtomic

SPECIFICATION FairSpec
CONSTANTS
    OrderIds = {r1}
    Keys = {k1}
    Products = {p1}
    Quantities = {1, 3}
    None = None
    Prices = {4000}
    StockLevels = {2, 3}
    HalfRange = 1000000
    MaxLosses = 2
PROPERTIES
    OrdersSettle
    ReservationsSettle

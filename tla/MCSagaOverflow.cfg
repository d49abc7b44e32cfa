SPECIFICATION Spec
CONSTANTS
    OrderIds = {r1}
    Keys = {k1}
    Products = {p1}
    Quantities = {2}
    None = None
    Prices = {30000}
    StockLevels = {2}
    HalfRange = 32768
    MaxLosses = 0
INVARIANT CardLimitIsKept

SPECIFICATION InventorySpec
CONSTANTS
    OrderIds = {r1, r2}
    Keys = {k1}
    Products = {p1, p2}
    Quantities = {0, 1, 2}
    None = None
    Prices <- SomePrices
    StockLevels <- SmallLevels
    HalfRange = 8
SYMMETRY Symmetry
INVARIANTS
    InventoryTypeOK
    UnitsAreAccountedFor
    OneAnswerPerOrder

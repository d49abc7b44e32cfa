SPECIFICATION OrdersSpec
CONSTANTS
    OrderIds = {r1, r2, r3}
    Keys = {k1, k2}
    Products = {p1}
    Quantities = {0, 1}
    None = None
SYMMETRY Symmetry
INVARIANTS
    OneOrderPerKey
    AcceptedIsStored
    ConflictHasACause
    OutboxMatchesOrders

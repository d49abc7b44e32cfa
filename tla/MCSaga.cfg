SPECIFICATION Spec
CONSTANTS
    OrderIds = {r1, r2}
    Keys = {k1, k2}
    Products = {p1}
    Quantities = {1, 3}
    None = None
    Prices <- SomePrices
    StockLevels = {2, 3}
    HalfRange = 1000000
    MaxLosses = 0
SYMMETRY Symmetry
INVARIANTS
    SagaTypeOK
    ConfirmedIsPaid
    CanceledIsCompensated
    NothingIsForgotten
    StockIsConserved
    ChargedForWhatWasOrdered
    Provenance
PROPERTIES
    WorkIsDoneOnce
    ImplementsOutcome

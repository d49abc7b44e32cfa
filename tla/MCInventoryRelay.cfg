SPECIFICATION InventoryRelaySpec
CONSTANTS
    Relays = {r1, r2}
    Size = 2
    MaxRetries = 2
    BatchSize = 2
    MaxFaults = 2
CHECK_DEADLOCK FALSE
INVARIANTS
    InventoryRelayTypeOK
    SettledForCause
PROPERTIES
    EventsSettle
    KeepsPromise

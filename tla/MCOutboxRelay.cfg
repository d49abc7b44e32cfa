SPECIFICATION RelaySpec
CONSTANTS
    Relays = {r1, r2}
    Rows = 2
    Unroutable = {2}
    MaxRetries = 2
    BatchSize = 2
    MaxFaults = 2
CHECK_DEADLOCK FALSE
INVARIANTS
    RelayTypeOK
    SettledForCause
PROPERTIES
    LifecycleEnds
    SettlesForGood
    KeepsPromise

SPECIFICATION ListenerSpec
CONSTANTS
    Instances = {i1, i2}
    Length = 4
    Malformed = {2}
    MaxAttempts = 3
    MaxFaults = 2
CHECK_DEADLOCK FALSE
INVARIANTS
    ListenerTypeOK
    CommittedIsSettled
    SettledInOrder
PROPERTIES
    CommittedOnlyGrows
    RecordsSettle

SPECIFICATION ConsumerSpec
CONSTANTS
    Length = 4
    Malformed = {1}
    MaxFaults = 3
CHECK_DEADLOCK FALSE
INVARIANTS
    ConsumerTypeOK
    CommittedIsHandled
PROPERTY
    EveryMessageIsHandled

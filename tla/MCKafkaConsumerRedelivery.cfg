SPECIFICATION ConsumerSpec
CONSTANTS
    Length = 2
    Malformed = {}
    MaxFaults = 1
CHECK_DEADLOCK FALSE
INVARIANT
    FailedStaysUncommitted

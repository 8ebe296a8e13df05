SPECIFICATION Spec
CONSTANTS
    Types = {artists}
    NoType = NoType
    MaxRounds = 1
    MaxPauses = 1
    MaxFaults = 0
CHECK_DEADLOCK FALSE
INVARIANT EveryConsumerIsTracked

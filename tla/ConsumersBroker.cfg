SPECIFICATION Spec
CONSTANTS
    Types = {artists, releases}
    NoType = NoType
    MaxRounds = 2
    MaxPauses = 0
    MaxFaults = 2
CHECK_DEADLOCK FALSE
SYMMETRY TypeSymmetry
INVARIANTS
    LiveConsumersHaveATransport
    EveryConsumerIsTracked
    NoStrandedWork

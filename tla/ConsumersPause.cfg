SPECIFICATION Spec
CONSTANTS
    Types = {artists}
    NoType = NoType
    MaxRounds = 1
    MaxPauses = 2
    MaxFaults = 2
CHECK_DEADLOCK FALSE
INVARIANTS
    TypeOK
    UnsettledTerminalHasReset
    OpenGateOwesNoConsumer

SPECIFICATION FairSpec
CONSTANTS
    Types = {artists}
    NoType = NoType
    MaxRounds = 2
    MaxPauses = 0
    MaxFaults = 2
CHECK_DEADLOCK FALSE
PROPERTY QueuedWorkIsDelivered

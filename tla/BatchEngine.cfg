SPECIFICATION Spec
CONSTANTS
    Cases <- MCCases
    BatchSize = 3
    MaxPending = 3
    MaxHold = 2
    MaxRequeues = 1
    MaxPoisonRetries = 2
    MaxFlushRetries = 1
    StallS = 1
INVARIANTS TypeOK SettlementsAreEarned ObserverIsAccurate PoolClosesUnused
PROPERTIES EveryRecordSettles
CHECK_DEADLOCK FALSE

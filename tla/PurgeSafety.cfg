SPECIFICATION Spec
CONSTANTS
    Records = {r1, r2}
    Dumps <- MCDumps
    Handlers = {h1, h2}
    CapNum = 3
    CapDen = 4
    Limits <- MCSafetyLimits
SYMMETRY RecordsAndHandlers
INVARIANTS TypeOK AckedRecordIsWritten SettledMarkerAccountsForDeadLetters
PROPERTIES PurgeSparesTheDump
CHECK_DEADLOCK FALSE

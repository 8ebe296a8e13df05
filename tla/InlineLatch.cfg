SPECIFICATION Spec
CONSTANTS
    Dumps <- MCDumps
    Types = {artists, releases}
    Handlers = {h1, h2}
    NoHandler = NoHandler
    MaxFaults = 2
SYMMETRY HandlerSymmetry
INVARIANTS TypeOK SettledDumpIsRefreshed PassesFollowExtractions LegacyRowsAreComplete
PROPERTIES CleanPurgeEndsStreak
CHECK_DEADLOCK FALSE

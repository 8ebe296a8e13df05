SPECIFICATION Spec
CONSTANTS
    NumDocs = 3
    NumRows = 4
    Additive <- MCAdditive
    Contents <- MCContents
    PageSize = 1
    Writers = {w1, w2}
    MaxDumps = 1
    MaxWrites = 2
    MaxFaults = 1
SYMMETRY WriterSymmetry
INVARIANTS TypeOK WritersNeverDeadlock SettledGraphIsReconciled
PROPERTIES PassIsExact
CHECK_DEADLOCK FALSE

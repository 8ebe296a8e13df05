SPECIFICATION Spec
CONSTANTS
    Docs = {d1, d2}
    Payloads = {p1, p2}
    WithCompanies = {p1}
    NoPayload = NoPayload
    Writers = {w1, w2}
    BatchModes = {TRUE, FALSE}
    BatchSize = 2
    Overlap = FALSE
    MaxDumps = 2
    MaxFaults = 2
    CapNum = 1
    CapDen = 1
SYMMETRY DocsAndWriters
INVARIANTS TypeOK EdgesMatchDocument DumpIsLoaded
PROPERTIES PurgeIsCapped
CHECK_DEADLOCK FALSE

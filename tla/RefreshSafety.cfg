SPECIFICATION Spec
CONSTANTS
    Versions = {1, 2}
    Types = {artists, releases}
    Workers = {w1, w2}
    MaxFaults = 2
SYMMETRY TypesAndWorkers
INVARIANTS
    TypeOK
    JobsMatchObligations
    GenerationsFollowVersions
    AtMostOneOwner
    AckedSignalIsDurable
    HealthTellsTheTruth
PROPERTIES
    PublishedNeverRegresses
    ImplementsContract

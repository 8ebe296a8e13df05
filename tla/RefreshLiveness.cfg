SPECIFICATION FairSpec
CONSTANTS
    Versions = {1, 2}
    Types = {artists}
    Workers = {w1, w2}
    MaxFaults = 2
PROPERTIES
    ImplementsFairContract
    NewestCompleteIsPublished

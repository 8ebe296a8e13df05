SPECIFICATION FairSpec
CONSTANTS
    Records = {r1, r2}
    Dumps <- MCOneDump
    Handlers = {h1, h2}
    CapNum = 3
    CapDen = 4
    Limits <- MCLivenessLimits
PROPERTIES MarkerSettles
CHECK_DEADLOCK FALSE

\* The system stops when the last build has ended.
CHECK_DEADLOCK FALSE
SPECIFICATION FairSpec
CONSTANTS
    a = a
    b = b
    c = c
    Regions <- MCRegions
    AllSeries <- MCTritonUtils
    MaxBuilds = 2
INVARIANTS
    Idempotent

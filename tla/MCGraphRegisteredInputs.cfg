SPECIFICATION FairSpec
CONSTANTS
    NRanks = 2
    CapturePlans <- MCCapturePlans
    Bases = {1, 2}
    Offsets = {0, 1}
    Capacity = 4
    MaxFrees = 1
    MaxFaults = 2
INVARIANTS RowsResolve
PROPERTIES EveryRankEnds
\* The system stops when every rank has come through its captures or raised.
CHECK_DEADLOCK FALSE

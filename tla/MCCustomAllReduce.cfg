SPECIFICATION FairSpec
CONSTANTS
    NRanks = 2
    MaxGrid = 2
    MaxSize = 4
    RowSize = 2
    Residency = 2
    Slots <- MCSlots
    Programs <- MCPrograms
INVARIANTS
    TypeOK
    RaceFree
    AtMostOneLaunchAhead
PROPERTIES
    ImplementsCollectives
    AllLaunchesComplete
\* The system stops when every program has run to its end.
CHECK_DEADLOCK FALSE

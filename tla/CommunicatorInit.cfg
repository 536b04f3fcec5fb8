\* The system stops when every constructor has ended.
CHECK_DEADLOCK FALSE
CONSTANTS
    NRanks = 4
    Plans = {planA, planB}
    MaxFaults = 2
SPECIFICATION FairSpec
INVARIANTS
    TypeOK
    Agreement
    UsableMappings
    NothingLeaks
PROPERTIES
    EveryConstructorEnds

SPECIFICATION FairSpec
CONSTANTS
    NRanks = 2
    CapturePlans <- MCCapturePlans
    PlanDescriptors = {1, 2}
    OpsPerDescriptor = 2
    BytesPerToken = 2
    EagerReserve = 4
    MetaSize = 1
    MaxMetaPerSlot = 2
    Alignment = 2
    StraySizes = {3}
    MaxFaults = 3
INVARIANTS
    TypeOK
    SlotsDisjoint
    AcceptedSlotsAgree
    SameVerdict
PROPERTIES
    EveryCaptureEnds
\* The system stops when every program has run to its end.
CHECK_DEADLOCK FALSE

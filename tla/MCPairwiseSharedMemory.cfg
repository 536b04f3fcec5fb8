\* The block stops when the loop has ended.
CHECK_DEADLOCK FALSE
CONSTANTS
    Warps <- MCWarps
    Launches <- MCLaunches
SPECIFICATION FairLoopSpec
INVARIANTS
    HalvesMatch
    ReducedBeforeSignal
PROPERTIES
    LoopEnds

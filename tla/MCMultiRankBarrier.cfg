SPECIFICATION FairSpec
CONSTANTS
    r1 = r1
    r2 = r2
    Ranks <- MCRanks
    FlagModulus = 4
    MaxCalls = 6
INVARIANTS
    TypeOK
    AwaitedFlagSurvives
    NoStaleMatch
PROPERTIES
    ImplementsRankBarrier
    AllCallsReturn
\* The system stops when every program has run to its end.
CHECK_DEADLOCK FALSE
